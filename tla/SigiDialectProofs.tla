--------------------------- MODULE SigiDialectProofs ---------------------------
(***************************************************************************)
(* Theorems about SigiDialect, for any parameters, names and types and for *)
(* texts of any length.                                                    *)
(***************************************************************************)
EXTENDS SigiDialect, TLAPS

OpSet == [line : Lines, value_type : Types]
Outs(o) == DOMAIN o.line.outs
Given(o, n) == ResultTypes(o.line)[n]

\* The operations parsed so far, and the names they define.
OpsInv ==
    /\ ops \in Seq(OpSet)
    /\ \A i \in 1 .. Len(ops) : ops[i].value_type = ops[i].line.type
    /\ \A i, j \in 1 .. Len(ops) : \A m \in Outs(ops[i]), n \in Outs(ops[j]) :
           ops[i].line.outs[m] = ops[j].line.outs[n] => i = j /\ m = n

\* A name is defined once, by a parameter or a result, with the type of it.
DefinedInv ==
    /\ \A x \in DOMAIN Params : x \in DOMAIN defined /\ defined[x] = Params[x]
    /\ \A i \in 1 .. Len(ops) : \A n \in Outs(ops[i]) :
           LET x == ops[i].line.outs[n]
           IN  x \in DOMAIN defined /\ x \notin DOMAIN Params /\ defined[x] = Given(ops[i], n)
    /\ \A x \in DOMAIN defined : \/ x \in DOMAIN Params
                                \/ \E i \in 1 .. Len(ops) : \E n \in Outs(ops[i]) : ops[i].line.outs[n] = x
    /\ DOMAIN defined \cap DOMAIN forward = {}
    /\ DOMAIN defined \subseteq AllNames /\ DOMAIN forward \subseteq AllNames
    /\ \A x \in DOMAIN defined : defined[x] \in Types \cup {"stack"}

\* A use has the type of the definition, or the type that was promised.
UsesInv ==
    \A i \in 1 .. Len(ops) : \A u \in Uses(ops[i].line) :
        \/ u[1] \in DOMAIN defined /\ defined[u[1]] = u[2]
        \/ u[1] \in DOMAIN forward /\ forward[u[1]] = u[2]

ParseInv == OpsInv /\ DefinedInv /\ UsesInv

------------------------------------------------------------------------------
(* Lines *)

LEMMA LineFacts ==
    ASSUME NEW line \in Lines
    PROVE  /\ DOMAIN line.outs = DOMAIN ResultTypes(line) /\ 1 \in DOMAIN line.outs /\ ResultTypes(line)[1] = "stack"
           /\ \A n \in DOMAIN line.outs : line.outs[n] \in Names /\ ResultTypes(line)[n] \in Types \cup {"stack"}
           /\ line.type \in Types /\ line.kind \in {"push", "pop"}
           /\ line.kind = "pop" => 2 \in DOMAIN line.outs /\ ResultTypes(line)[2] = line.type
           /\ \A u \in Uses(line) : u[1] \in AllNames /\ (u = <<line.inStack, "stack">> \/ u = <<line.value, line.type>>)
           /\ StackUse(line) \in Uses(line) /\ (line.kind = "push" => ValueUse(line) \in Uses(line))
<1>1. CASE line \in [kind : {"push"}, inStack : AllNames, value : AllNames, type : Types, outs : {<<n>> : n \in Names}]
  <2>1. line.kind = "push" /\ line.inStack \in AllNames /\ line.value \in AllNames /\ line.type \in Types
    BY <1>1
  <2>2. PICK n \in Names : line.outs = <<n>>
    BY <1>1
  <2>3. DOMAIN line.outs = {1} /\ line.outs[1] \in Names
    BY <2>2
  <2>4. ResultTypes(line) = <<"stack">> /\ DOMAIN ResultTypes(line) = {1}
    BY <2>1 DEF ResultTypes
  <2>5. Uses(line) = {<<line.inStack, "stack">>, <<line.value, line.type>>}
    BY <2>1 DEF Uses, StackUse, ValueUse
  <2> QED BY <2>1, <2>3, <2>4, <2>5 DEF StackUse, ValueUse
<1>2. CASE line \in [kind : {"pop"}, inStack : AllNames, type : Types, outs : Names \X Names]
  <2>1. line.kind = "pop" /\ line.inStack \in AllNames /\ line.type \in Types
    BY <1>2
  <2>2. PICK m \in Names, n \in Names : line.outs = <<m, n>>
    BY <1>2
  <2>3. DOMAIN line.outs = {1, 2} /\ line.outs[1] \in Names /\ line.outs[2] \in Names
    BY <2>2
  <2>4. ResultTypes(line) = <<"stack", line.type>> /\ DOMAIN ResultTypes(line) = {1, 2}
    BY <2>1 DEF ResultTypes
  <2>5. Uses(line) = {<<line.inStack, "stack">>}
    BY <2>1 DEF Uses, StackUse
  <2> QED BY <2>1, <2>3, <2>4, <2>5 DEF StackUse
<1> QED BY <1>1, <1>2 DEF Lines

\* A line that is accepted: what it uses has one type, what it defines is new.
Accepts(line) ==
    Resolves(Uses(line)) /\ Defines(PromisedBy(Uses(line)), line.outs, ResultTypes(line))

LEMMA PromisedFacts ==
    ASSUME NEW line \in Lines, Resolves(Uses(line))
    PROVE  LET p == PromisedBy(Uses(line))
           IN  /\ DOMAIN p = DOMAIN forward \cup ({u[1] : u \in Uses(line)} \ DOMAIN defined)
               /\ \A x \in DOMAIN forward : p[x] = forward[x]
               /\ \A u \in Uses(line) : \/ u[1] \in DOMAIN defined /\ defined[u[1]] = u[2]
                                        \/ u[1] \in DOMAIN p /\ p[u[1]] = u[2]
<1> DEFINE D == DOMAIN forward \cup ({u[1] : u \in Uses(line)} \ DOMAIN defined)
           p == PromisedBy(Uses(line))
<1>1. /\ DOMAIN p = D
      /\ \A x \in D : p[x] = IF x \in DOMAIN forward THEN forward[x] ELSE (CHOOSE u \in Uses(line) : u[1] = x)[2]
  BY DEF PromisedBy
<1>2. ASSUME NEW u \in Uses(line), u[1] \in DOMAIN defined PROVE defined[u[1]] = u[2]
  BY <1>2 DEF Resolves, TypesKnown
<1>3. ASSUME NEW u \in Uses(line), u[1] \in DOMAIN forward PROVE forward[u[1]] = u[2]
  BY <1>3 DEF Resolves, TypesKnown
<1>4. ASSUME NEW u \in Uses(line), u[1] \notin DOMAIN forward PROVE (CHOOSE v \in Uses(line) : v[1] = u[1])[2] = u[2]
  <2> DEFINE w == CHOOSE v \in Uses(line) : v[1] = u[1]
  <2>1. w \in Uses(line) /\ w[1] = u[1]
    OBVIOUS
  <2> HIDE DEF w
  <2>2. w[2] = u[2]
    BY <2>1 DEF Resolves
  <2> QED BY <2>2 DEF w
<1> HIDE DEF p
<1>5. \A x \in DOMAIN forward : p[x] = forward[x]
  BY <1>1
<1>6. ASSUME NEW u \in Uses(line), u[1] \notin DOMAIN defined PROVE u[1] \in D /\ p[u[1]] = u[2]
  BY <1>1, <1>3, <1>4, <1>6
<1> QED BY <1>1, <1>2, <1>5, <1>6 DEF p

\* What an accepted line does to the names.
LEMMA AcceptFacts ==
    ASSUME NEW line \in Lines, Accepts(line), ParseLine(line)
    PROVE  LET p == PromisedBy(Uses(line)) IN
           /\ ops' = Append(ops, [line |-> line, value_type |-> line.type]) /\ stage' = stage
           /\ DOMAIN defined' = DOMAIN defined \cup ToSet(line.outs)
           /\ \A x \in DOMAIN defined : defined'[x] = defined[x]
           /\ \A n \in DOMAIN line.outs : /\ line.outs[n] \notin DOMAIN defined
                                          /\ defined'[line.outs[n]] = ResultTypes(line)[n]
           /\ forward' = [x \in DOMAIN p \ ToSet(line.outs) |-> p[x]]
<1> DEFINE p == PromisedBy(Uses(line))
<1>1. /\ ops' = Append(ops, [line |-> line, value_type |-> line.type]) /\ stage' = stage
      /\ defined' = [x \in DOMAIN defined \cup ToSet(line.outs) |->
                           IF x \in DOMAIN defined THEN defined[x]
                           ELSE ResultTypes(line)[CHOOSE n \in DOMAIN line.outs : line.outs[n] = x]]
      /\ forward' = [x \in DOMAIN p \ ToSet(line.outs) |-> p[x]]
  BY DEF ParseLine, Accepts, StillPromised
<1>2. /\ \A n \in DOMAIN line.outs : line.outs[n] \notin DOMAIN defined
      /\ \A m, n \in DOMAIN line.outs : line.outs[m] = line.outs[n] => m = n
  BY DEF Accepts, Defines, IsInjective
<1>3. ASSUME NEW n \in DOMAIN line.outs PROVE (CHOOSE m \in DOMAIN line.outs : line.outs[m] = line.outs[n]) = n
  BY <1>2
<1> HIDE DEF p
<1> QED BY <1>1, <1>2, <1>3 DEF ToSet, p

\* An accepted line keeps what is known of operations and names.
LEMMA AcceptKeeps ==
    ASSUME ParseInv, NEW line \in Lines, Accepts(line), ParseLine(line)
    PROVE  ParseInv'
<1> DEFINE p == PromisedBy(Uses(line))
           o == [line |-> line, value_type |-> line.type]
           N == Len(ops)
<1>1. /\ ops' = Append(ops, o) /\ DOMAIN defined' = DOMAIN defined \cup ToSet(line.outs)
      /\ \A x \in DOMAIN defined : defined'[x] = defined[x]
      /\ \A n \in DOMAIN line.outs : /\ line.outs[n] \notin DOMAIN defined
                                     /\ defined'[line.outs[n]] = ResultTypes(line)[n]
      /\ DOMAIN forward' = DOMAIN p \ ToSet(line.outs)
      /\ \A x \in DOMAIN p \ ToSet(line.outs) : forward'[x] = p[x]
  BY AcceptFacts
<1>2. /\ DOMAIN p = DOMAIN forward \cup ({u[1] : u \in Uses(line)} \ DOMAIN defined)
      /\ \A x \in DOMAIN forward : p[x] = forward[x]
      /\ \A u \in Uses(line) : \/ u[1] \in DOMAIN defined /\ defined[u[1]] = u[2]
                               \/ u[1] \in DOMAIN p /\ p[u[1]] = u[2]
  BY PromisedFacts DEF Accepts
<1>3. /\ \A n \in DOMAIN line.outs : line.outs[n] \in DOMAIN p => p[line.outs[n]] = ResultTypes(line)[n]
      /\ \A m, n \in DOMAIN line.outs : line.outs[m] = line.outs[n] => m = n
  BY DEF Accepts, Defines, IsInjective
<1>4. o \in OpSet /\ o.line = line /\ o.value_type = line.type
  BY LineFacts DEF OpSet
<1> HIDE DEF p, o
<1>5. /\ OpsInv /\ DefinedInv /\ UsesInv /\ ops \in Seq(OpSet) /\ N \in Nat
      /\ ops' \in Seq(OpSet) /\ Len(ops') = N + 1 /\ ops'[N + 1] = o
      /\ \A i \in 1 .. N : ops'[i] = ops[i]
      /\ \A i \in 1 .. N + 1 : i \in 1 .. N \/ i = N + 1
  BY <1>1, <1>4 DEF ParseInv, OpsInv
<1>6. \A i \in 1 .. N + 1 : \/ i \in 1 .. N /\ ops'[i] = ops[i]
                            \/ i = N + 1 /\ ops'[i] = o /\ Outs(o) = DOMAIN line.outs
  BY <1>4, <1>5 DEF Outs
<1>7. OpsInv'
  <2>1. \A i \in 1 .. N + 1 : ops'[i].value_type = ops'[i].line.type
    BY <1>4, <1>5, <1>6 DEF OpsInv
  <2>2. \A i \in 1 .. N : \A m \in Outs(ops[i]), n \in DOMAIN line.outs : ops[i].line.outs[m] # line.outs[n]
    BY <1>1, <1>5 DEF DefinedInv
  <2>3. ASSUME NEW i \in 1 .. N + 1, NEW j \in 1 .. N + 1, NEW m \in Outs(ops'[i]), NEW n \in Outs(ops'[j]),
               ops'[i].line.outs[m] = ops'[j].line.outs[n]
        PROVE  i = j /\ m = n
    <3>1. CASE i \in 1 .. N /\ j \in 1 .. N
      BY <1>5, <2>3, <3>1 DEF OpsInv
    <3>2. CASE i = N + 1 /\ j = N + 1
      BY <1>3, <1>4, <1>5, <2>3, <3>2 DEF Outs
    <3> QED BY <1>4, <1>6, <2>2, <2>3, <3>1, <3>2
  <2> QED BY <1>5, <2>1, <2>3 DEF OpsInv, Outs
<1>8. DefinedInv'
  <2>1. \A x \in DOMAIN Params : x \in DOMAIN defined' /\ defined'[x] = Params[x]
    BY <1>1, <1>5 DEF DefinedInv
  <2>2. ASSUME NEW i \in 1 .. N + 1, NEW n \in Outs(ops'[i])
        PROVE  /\ ops'[i].line.outs[n] \in DOMAIN defined' /\ ops'[i].line.outs[n] \notin DOMAIN Params
               /\ defined'[ops'[i].line.outs[n]] = Given(ops'[i], n)
    <3>1. CASE i \in 1 .. N
      BY <1>1, <1>5, <2>2, <3>1 DEF DefinedInv
    <3>2. CASE i = N + 1
      <4>1. n \in DOMAIN line.outs
        BY <1>4, <1>5, <2>2, <3>2 DEF Outs
      <4>2. line.outs[n] \in ToSet(line.outs)
        BY <4>1 DEF ToSet
      <4>3. line.outs[n] \notin DOMAIN Params
        BY <1>1, <1>5, <4>1 DEF DefinedInv
      <4> QED BY <1>1, <1>4, <1>5, <3>2, <4>1, <4>2, <4>3 DEF Given
    <3> QED BY <1>6, <3>1, <3>2
  <2>3. ASSUME NEW x \in DOMAIN defined'
        PROVE  \/ x \in DOMAIN Params
               \/ \E i \in 1 .. N + 1 : \E n \in Outs(ops'[i]) : ops'[i].line.outs[n] = x
    <3>1. CASE x \in DOMAIN defined
      <4>1. CASE \E i \in 1 .. N : \E n \in Outs(ops[i]) : ops[i].line.outs[n] = x
        <5>1. PICK i \in 1 .. N : \E n \in Outs(ops[i]) : ops[i].line.outs[n] = x
          BY <4>1
        <5>2. i \in 1 .. N + 1 /\ ops'[i] = ops[i]
          BY <1>5
        <5> QED BY <5>1, <5>2
      <4> QED BY <1>5, <3>1, <4>1 DEF DefinedInv
    <3>2. CASE x \in ToSet(line.outs)
      <4>1. PICK n \in DOMAIN line.outs : x = line.outs[n]
        BY <3>2 DEF ToSet
      <4>2. n \in Outs(ops'[N + 1]) /\ ops'[N + 1].line.outs[n] = x /\ N + 1 \in 1 .. N + 1
        BY <1>4, <1>5, <4>1 DEF Outs
      <4> QED BY <4>2
    <3> QED BY <1>1, <3>1, <3>2
  <2>4. DOMAIN defined' \cap DOMAIN forward' = {}
    BY <1>1, <1>2, <1>5 DEF DefinedInv
  <2>5. DOMAIN defined' \subseteq AllNames /\ DOMAIN forward' \subseteq AllNames
    <3>1. ToSet(line.outs) \subseteq Names
      BY LineFacts DEF ToSet
    <3>2. {u[1] : u \in Uses(line)} \subseteq AllNames
      BY LineFacts
    <3> QED BY <1>1, <1>2, <1>5, <3>1, <3>2 DEF DefinedInv, AllNames
  <2>6. \A x \in DOMAIN defined' : defined'[x] \in Types \cup {"stack"}
    <3>1. \A x \in ToSet(line.outs) : defined'[x] \in Types \cup {"stack"}
      BY <1>1, LineFacts DEF ToSet
    <3> QED BY <1>1, <1>5, <3>1 DEF DefinedInv
  <2> QED BY <1>5, <2>1, <2>2, <2>3, <2>4, <2>5, <2>6 DEF DefinedInv, Outs, Given
<1>9. UsesInv'
  <2>1. ASSUME NEW x, NEW t, x \in DOMAIN p, p[x] = t
        PROVE  (x \in DOMAIN defined' /\ defined'[x] = t) \/ (x \in DOMAIN forward' /\ forward'[x] = t)
    BY <1>1, <1>3, <2>1 DEF ToSet
  <2>2. \A x \in DOMAIN defined : x \in DOMAIN defined' /\ defined'[x] = defined[x]
    BY <1>1
  <2>3. ASSUME NEW u \in Uses(line)
        PROVE  \/ u[1] \in DOMAIN defined' /\ defined'[u[1]] = u[2]
               \/ u[1] \in DOMAIN forward' /\ forward'[u[1]] = u[2]
    BY <1>2, <2>1, <2>2
  <2>4. ASSUME NEW i \in 1 .. N, NEW u \in Uses(ops[i].line)
        PROVE  \/ u[1] \in DOMAIN defined' /\ defined'[u[1]] = u[2]
               \/ u[1] \in DOMAIN forward' /\ forward'[u[1]] = u[2]
    <3>1. \/ u[1] \in DOMAIN defined /\ defined[u[1]] = u[2]
          \/ u[1] \in DOMAIN p /\ p[u[1]] = u[2]
      BY <1>2, <1>5 DEF UsesInv
    <3> QED BY <2>1, <2>2, <3>1
  <2>5. ASSUME NEW i \in 1 .. N + 1, NEW u \in Uses(ops'[i].line)
        PROVE  \/ u[1] \in DOMAIN defined' /\ defined'[u[1]] = u[2]
               \/ u[1] \in DOMAIN forward' /\ forward'[u[1]] = u[2]
    BY <1>4, <1>6, <2>3, <2>4
  <2> QED BY <1>5, <2>5 DEF UsesInv, Uses, StackUse, ValueUse
<1> QED BY <1>7, <1>8, <1>9 DEF ParseInv

------------------------------------------------------------------------------
(* Programs *)

\* A use of the i-th operation is of a parameter, or of a result of an earlier
\* operation, and has its type.
Dominated(F, i, u) ==
    \/ u[1] \in DOMAIN Params /\ Params[u[1]] = u[2]
    \/ \E j \in 1 .. i - 1 : \E n \in Outs(F[j]) : F[j].line.outs[n] = u[1] /\ Given(F[j], n) = u[2]

\* A program the verifier accepts.
Good(F) ==
    /\ F \in Seq(OpSet)
    /\ \A i \in 1 .. Len(F) : F[i].value_type = F[i].line.type
    /\ \A i, j \in 1 .. Len(F) : \A m \in Outs(F[i]), n \in Outs(F[j]) :
           F[i].line.outs[m] = F[j].line.outs[n] => i = j /\ m = n
    /\ \A i \in 1 .. Len(F) : \A n \in Outs(F[i]) : F[i].line.outs[n] \notin DOMAIN Params
    /\ \A i \in 1 .. Len(F) : \A u \in Uses(F[i].line) : Dominated(F, i, u)

\* A printed program is read back: a part of it is parsed, the rest is text,
\* and no name is used that is not defined.
Rereading ==
    /\ Good(first) /\ stage # "rejected" /\ forward = <<>>
    /\ printed \in Seq(Lines) /\ Len(ops) + Len(printed) = Len(first)
    /\ \A i \in 1 .. Len(ops) : ops[i] = first[i]
    /\ \A i \in 1 .. Len(printed) : printed[i] = first[Len(ops) + i].line
    /\ stage \in {"end", "verified"} => printed = <<>>

StageInv ==
    /\ stage \in {"parsing", "end", "verified", "rejected"}
    /\ stage \in {"end", "verified"} => DOMAIN forward = {}
    /\ stage = "verified" => Good(ops)
    /\ IF first = NotPrinted THEN printed = NotPrinted ELSE Rereading

DialectInv == ParseInv /\ StageInv

\* A program that was printed is no text of lines, and the other way around.
LEMMA NotPrintedFacts ==
    /\ \A s \in Seq(Lines) : s # NotPrinted
    /\ \A s \in Seq(OpSet) : s # NotPrinted
<1>1. ASSUME NEW s \in Seq(Lines), s = NotPrinted PROVE FALSE
  <2>1. Len(s) = 1 /\ s[1].kind = "none"
    BY <1>1 DEF NotPrinted
  <2>2. s[1] \in Lines
    <3>1. Len(s) = 1
      BY <2>1
    <3> QED BY <3>1
  <2> QED BY <2>1, <2>2, LineFacts
<1>2. ASSUME NEW s \in Seq(OpSet), s = NotPrinted PROVE FALSE
  <2>1. Len(s) = 1 /\ DOMAIN s[1] = {"kind"}
    BY <1>2 DEF NotPrinted
  <2>2. s[1] \in OpSet
    BY <2>1
  <2>3. DOMAIN s[1] = {"line", "value_type"}
    BY <2>2 DEF OpSet
  <2> QED BY <2>1, <2>3
<1> QED BY <1>1, <1>2

\* The printer writes a line as it was parsed.
LEMMA PrintIs ==
    ASSUME NEW o \in OpSet, o.value_type = o.line.type
    PROVE  PrintLine(o) = o.line
<1>1. o.line \in Lines
  BY DEF OpSet
<1>2. CASE o.line \in [kind : {"push"}, inStack : AllNames, value : AllNames, type : Types, outs : {<<n>> : n \in Names}]
  BY <1>2 DEF PrintLine
<1>3. CASE o.line \in [kind : {"pop"}, inStack : AllNames, type : Types, outs : Names \X Names]
  BY <1>3 DEF PrintLine
<1> QED BY <1>1, <1>2, <1>3 DEF Lines

\* Reading begins with the parameters.
Start == ops = <<>> /\ defined = Params /\ forward = <<>>

LEMMA StartFacts == Start => ParseInv
<1> SUFFICES ASSUME Start PROVE ParseInv
  OBVIOUS
<1> USE DEF Start
<1>1. ops \in Seq(OpSet) /\ Len(ops) = 0 /\ DOMAIN forward = {}
  BY DEF OpSet
<1>2. \A x \in DOMAIN defined : defined[x] \in Types \cup {"stack"}
  BY TypeAssumption
<1> QED BY <1>1, <1>2 DEF ParseInv, OpsInv, DefinedInv, UsesInv, AllNames

LEMMA DialectInit == Init => DialectInv
<1> SUFFICES ASSUME Init PROVE DialectInv
  OBVIOUS
<1>1. ParseInv
  BY StartFacts DEF Init, Start
<1> QED BY <1>1 DEF Init, DialectInv, StageInv

\* A line of a printed program is accepted.
LEMMA RereadAccepts ==
    ASSUME ParseInv, Rereading, printed # <<>>
    PROVE  /\ Head(printed) \in Lines /\ Accepts(Head(printed))
           /\ first[Len(ops) + 1] = [line |-> Head(printed), value_type |-> Head(printed).type]
           /\ \A u \in Uses(Head(printed)) : u[1] \in DOMAIN defined
<1> DEFINE N == Len(ops)
           line == Head(printed)
           o == first[N + 1]
<1>1. /\ Good(first) /\ printed \in Seq(Lines) /\ N \in Nat /\ Len(printed) \in Nat /\ Len(printed) # 0
      /\ N + Len(printed) = Len(first) /\ line = printed[1] /\ 1 \in 1 .. Len(printed) /\ line \in Lines
  BY DEF Rereading, ParseInv, OpsInv
<1>2. line = o.line /\ N + 1 \in 1 .. Len(first) /\ o \in OpSet /\ o.value_type = o.line.type
  BY <1>1 DEF Rereading, Good
<1>3. o = [line |-> line, value_type |-> line.type]
  <2> HIDE DEF o, line
  <2> QED BY <1>2 DEF OpSet
<1>4. forward = <<>> /\ DOMAIN forward = {} /\ (\A i \in 1 .. N : ops[i] = first[i] /\ i \in 1 .. Len(first))
  BY <1>1 DEF Rereading
<1> HIDE DEF line, o
<1>5. ASSUME NEW u \in Uses(line) PROVE u[1] \in DOMAIN defined /\ defined[u[1]] = u[2]
  <2>1. Dominated(first, N + 1, u)
    BY <1>1, <1>2, <1>5 DEF Good, o
  <2>2. CASE u[1] \in DOMAIN Params /\ Params[u[1]] = u[2]
    BY <2>2 DEF ParseInv, DefinedInv
  <2>3. CASE \E j \in 1 .. N : \E n \in Outs(first[j]) : first[j].line.outs[n] = u[1] /\ Given(first[j], n) = u[2]
    <3>1. PICK j \in 1 .. N : \E n \in Outs(ops[j]) : ops[j].line.outs[n] = u[1] /\ Given(ops[j], n) = u[2]
      BY <1>4, <2>3
    <3> QED BY <3>1 DEF ParseInv, DefinedInv
  <2> QED BY <1>1, <2>1, <2>2, <2>3 DEF Dominated
<1>6. Resolves(Uses(line))
  BY <1>4, <1>5 DEF Resolves, TypesKnown
<1>7. DOMAIN PromisedBy(Uses(line)) = {}
  <2>1. DOMAIN PromisedBy(Uses(line)) = DOMAIN forward \cup ({u[1] : u \in Uses(line)} \ DOMAIN defined)
    BY DEF PromisedBy
  <2>2. {u[1] : u \in Uses(line)} \subseteq DOMAIN defined
    BY <1>5
  <2> QED BY <1>4, <2>1, <2>2
<1>8. \A n \in DOMAIN line.outs : line.outs[n] \notin DOMAIN defined
  <2> SUFFICES ASSUME NEW n \in DOMAIN line.outs, line.outs[n] \in DOMAIN defined PROVE FALSE
    OBVIOUS
  <2>1. n \in Outs(o)
    BY <1>2 DEF Outs
  <2>2. line.outs[n] \notin DOMAIN Params
    BY <1>1, <1>2, <2>1 DEF Good, o
  <2>3. PICK i \in 1 .. N : \E m \in Outs(ops[i]) : ops[i].line.outs[m] = line.outs[n]
    BY <2>2 DEF ParseInv, DefinedInv
  <2>4. PICK m \in Outs(first[i]) : first[i].line.outs[m] = o.line.outs[n]
    BY <1>2, <1>4, <2>3
  <2>5. i = N + 1
    BY <1>1, <1>2, <1>4, <2>1, <2>4 DEF Good, o
  <2> QED BY <1>1, <2>5
<1>9. \A m, n \in DOMAIN line.outs : line.outs[m] = line.outs[n] => m = n
  BY <1>1, <1>2 DEF Good, Outs, o
<1>10. Accepts(line)
  BY <1>6, <1>7, <1>8, <1>9 DEF Accepts, Defines, IsInjective
<1> QED BY <1>1, <1>3, <1>5, <1>10 DEF o, line

------------------------------------------------------------------------------
(* Steps *)

LEMMA ReadNext ==
    ASSUME DialectInv, ReadLine
    PROVE  DialectInv'
<1>1. PICK line \in Lines : ParseLine(line)
  BY DEF ReadLine
<1>2. /\ ParseInv /\ StageInv /\ stage = "parsing" /\ printed = NotPrinted /\ UNCHANGED <<printed, first>>
      /\ first = NotPrinted
  BY NotPrintedFacts DEF ReadLine, DialectInv, StageInv, Rereading
<1>3. CASE Accepts(line)
  <2>1. ParseInv' /\ stage' = stage
    BY <1>1, <1>2, <1>3, AcceptKeeps, AcceptFacts
  <2> QED BY <1>2, <2>1 DEF DialectInv, StageInv
<1>4. CASE ~Accepts(line)
  <2>1. stage' = "rejected" /\ UNCHANGED <<ops, defined, forward>>
    BY <1>1, <1>4 DEF ParseLine, Accepts
  <2>2. ParseInv'
    BY <1>2, <2>1 DEF ParseInv, OpsInv, DefinedInv, UsesInv
  <2> QED BY <1>2, <2>1, <2>2 DEF DialectInv, StageInv
<1> QED BY <1>3, <1>4

LEMMA RereadNext ==
    ASSUME DialectInv, ReadPrintedLine
    PROVE  DialectInv'
<1> DEFINE line == Head(printed)
           N == Len(ops)
           o == [line |-> line, value_type |-> line.type]
<1>1. /\ ParseInv /\ StageInv /\ stage = "parsing" /\ printed # NotPrinted /\ printed # <<>>
      /\ ParseLine(line) /\ printed' = Tail(printed) /\ first' = first
  BY DEF ReadPrintedLine, DialectInv
<1>2. Rereading /\ first # NotPrinted
  BY <1>1 DEF StageInv
<1>3. line \in Lines /\ Accepts(line) /\ first[N + 1] = o /\ \A u \in Uses(line) : u[1] \in DOMAIN defined
  BY <1>1, <1>2, RereadAccepts
<1> HIDE DEF line
<1>4. ParseInv' /\ ops' = Append(ops, o) /\ stage' = stage
  BY <1>1, <1>3, AcceptKeeps, AcceptFacts
<1>5. forward' = <<>>
  <2>1. forward' = [x \in DOMAIN PromisedBy(Uses(line)) \ ToSet(line.outs) |-> PromisedBy(Uses(line))[x]]
    BY <1>1, <1>3, AcceptFacts
  <2>2. DOMAIN PromisedBy(Uses(line)) = DOMAIN forward \cup ({u[1] : u \in Uses(line)} \ DOMAIN defined)
    BY DEF PromisedBy
  <2>3. DOMAIN forward = {} /\ {u[1] : u \in Uses(line)} \subseteq DOMAIN defined
    BY <1>2, <1>3 DEF Rereading
  <2>4. DOMAIN PromisedBy(Uses(line)) \ ToSet(line.outs) = {}
    BY <2>2, <2>3
  <2> HIDE DEF line
  <2>5. forward' = [x \in {} |-> PromisedBy(Uses(line))[x]]
    BY <2>1, <2>4
  <2> QED BY <2>5
<1>6. /\ printed \in Seq(Lines) /\ Len(printed) \in Nat \ {0} /\ N \in Nat /\ ops \in Seq(OpSet)
      /\ N + Len(printed) = Len(first) /\ Good(first)
      /\ \A i \in 1 .. N : ops[i] = first[i]
      /\ \A i \in 1 .. Len(printed) : printed[i] = first[N + i].line
  BY <1>1, <1>2 DEF Rereading, ParseInv, OpsInv
<1>7. /\ printed' \in Seq(Lines) /\ Len(printed') = Len(printed) - 1
      /\ \A i \in 1 .. Len(printed) - 1 : printed'[i] = printed[i + 1] /\ i + 1 \in 1 .. Len(printed)
  BY <1>1, <1>6
<1>8. o \in OpSet
  BY <1>3, LineFacts DEF OpSet
<1> HIDE DEF o
<1>9. /\ Len(ops') = N + 1 /\ ops'[N + 1] = o /\ \A i \in 1 .. N : ops'[i] = ops[i]
      /\ \A i \in 1 .. N + 1 : i \in 1 .. N \/ i = N + 1
  BY <1>4, <1>6, <1>8
<1>10. \A i \in 1 .. Len(ops') : ops'[i] = first[i]
  BY <1>3, <1>6, <1>9
<1>11. \A i \in 1 .. Len(printed') : printed'[i] = first'[Len(ops') + i].line
  <2> SUFFICES ASSUME NEW i \in 1 .. Len(printed) - 1 PROVE printed'[i] = first[N + 1 + i].line
    BY <1>1, <1>7, <1>9
  <2>1. printed'[i] = first[N + (i + 1)].line
    BY <1>6, <1>7
  <2>2. N + (i + 1) = N + 1 + i
    BY <1>6
  <2> QED BY <2>1, <2>2
<1>12. Len(ops') + Len(printed') = Len(first')
  BY <1>1, <1>6, <1>7, <1>9
<1>13. Good(first)'
  <2>1. first' = first /\ Good(first)
    BY <1>1, <1>6
  <2> QED BY <2>1 DEF Good, Dominated
<1>14. Rereading'
  BY <1>1, <1>4, <1>5, <1>7, <1>10, <1>11, <1>12, <1>13 DEF Rereading
<1> QED BY <1>1, <1>2, <1>4, <1>14 DEF DialectInv, StageInv

LEMMA EndNext ==
    ASSUME DialectInv, EndOfText
    PROVE  DialectInv'
<1>1. /\ ParseInv /\ StageInv /\ stage = "parsing" /\ printed \in {NotPrinted, <<>>}
      /\ stage' = IF forward = <<>> THEN "end" ELSE "rejected"
      /\ UNCHANGED <<defined, forward, ops, printed, first>>
  BY DEF EndOfText, DialectInv
<1>2. ParseInv'
  BY <1>1 DEF ParseInv, OpsInv, DefinedInv, UsesInv
<1>3. forward = <<>> => DOMAIN forward = {}
  OBVIOUS
<1>4. CASE first = NotPrinted
  BY <1>1, <1>2, <1>3, <1>4 DEF DialectInv, StageInv
<1>5. CASE first # NotPrinted
  <2>1. Rereading /\ printed = <<>>
    BY <1>1, <1>5, NotPrintedFacts DEF StageInv, Rereading
  <2>2. Rereading'
    BY <1>1, <2>1 DEF Rereading, Good, Dominated
  <2> QED BY <1>1, <1>2, <1>3, <1>5, <2>2 DEF DialectInv, StageInv
<1> QED BY <1>4, <1>5

\* With every promise kept, a program whose uses are dominated is good.
LEMMA VerifiedGood ==
    ASSUME ParseInv, DOMAIN forward = {}, \A i \in DOMAIN ops : \A u \in Uses(ops[i].line) : Dominates(u[1], i)
    PROVE  Good(ops)
<1>1. OpsInv /\ DefinedInv /\ UsesInv /\ ops \in Seq(OpSet) /\ DOMAIN ops = 1 .. Len(ops) /\ Len(ops) \in Nat
  BY DEF ParseInv, OpsInv
<1>2. ASSUME NEW i \in 1 .. Len(ops), NEW u \in Uses(ops[i].line) PROVE Dominated(ops, i, u)
  <2>1. u[1] \in DOMAIN defined /\ defined[u[1]] = u[2]
    BY <1>1 DEF UsesInv
  <2>2. CASE u[1] \in DOMAIN Params
    BY <1>1, <2>1, <2>2 DEF DefinedInv, Dominated
  <2>3. CASE \E j \in 1 .. i - 1 : u[1] \in ToSet(ops[j].line.outs)
    <3>1. PICK j \in 1 .. i - 1 : \E n \in Outs(ops[j]) : ops[j].line.outs[n] = u[1]
      BY <2>3 DEF ToSet, Outs
    <3>2. PICK n \in Outs(ops[j]) : ops[j].line.outs[n] = u[1]
      BY <3>1
    <3>3. defined[u[1]] = Given(ops[j], n)
      <4>1. j \in 1 .. Len(ops)
        BY <1>1
      <4> QED BY <1>1, <3>2, <4>1 DEF DefinedInv
    <3> QED BY <2>1, <3>2, <3>3 DEF Dominated
  <2> QED BY <1>1, <2>2, <2>3 DEF Dominates
<1> QED BY <1>1, <1>2 DEF Good, OpsInv, DefinedInv

LEMMA VerifyNext ==
    ASSUME DialectInv, Verify
    PROVE  DialectInv'
<1>1. /\ ParseInv /\ StageInv /\ stage = "end" /\ DOMAIN forward = {}
      /\ stage' = IF \A i \in DOMAIN ops : \A u \in Uses(ops[i].line) : Dominates(u[1], i) THEN "verified" ELSE "rejected"
      /\ UNCHANGED <<defined, forward, ops, printed, first>>
  BY DEF Verify, DialectInv, StageInv
<1>2. ParseInv'
  BY <1>1 DEF ParseInv, OpsInv, DefinedInv, UsesInv
<1>3. stage' = "verified" => Good(ops)
  BY <1>1, VerifiedGood
<1>4. Good(ops)' <=> Good(ops)
  BY <1>1 DEF Good, Dominated
<1>5. CASE first = NotPrinted
  BY <1>1, <1>2, <1>3, <1>4, <1>5 DEF DialectInv, StageInv
<1>6. CASE first # NotPrinted
  <2>1. Rereading /\ printed = <<>> /\ Len(ops) = Len(first) /\ Good(first)
    BY <1>1, <1>6 DEF StageInv, Rereading, ParseInv, OpsInv
  <2>2. DOMAIN ops = 1 .. Len(ops) /\ \A i \in 1 .. Len(ops) : ops[i] = first[i]
    BY <1>1, <2>1 DEF Rereading, ParseInv, OpsInv
  <2>3. \A i \in DOMAIN ops : \A u \in Uses(ops[i].line) : Dominates(u[1], i)
    <3> SUFFICES ASSUME NEW i \in 1 .. Len(ops), NEW u \in Uses(ops[i].line) PROVE Dominates(u[1], i)
      BY <2>2
    <3>1. Dominated(first, i, u)
      BY <2>1, <2>2 DEF Good
    <3>2. CASE \E j \in 1 .. i - 1 : \E n \in Outs(first[j]) : first[j].line.outs[n] = u[1]
      <4>1. PICK j \in 1 .. i - 1 : \E n \in Outs(first[j]) : first[j].line.outs[n] = u[1]
        BY <3>2
      <4>2. j \in 1 .. Len(ops) /\ ops[j] = first[j]
        BY <2>2
      <4> QED BY <4>1, <4>2 DEF Dominates, ToSet, Outs
    <3> QED BY <3>1, <3>2 DEF Dominated, Dominates
  <2>4. Rereading'
    BY <1>1, <2>1, <2>3 DEF Rereading, Good, Dominated
  <2> QED BY <1>1, <1>2, <1>3, <1>4, <1>6, <2>4 DEF DialectInv, StageInv
<1> QED BY <1>5, <1>6

LEMMA PrintNext ==
    ASSUME DialectInv, PrintText
    PROVE  DialectInv'
<1>1. /\ ParseInv /\ StageInv /\ stage = "verified" /\ Good(ops) /\ first' = ops
      /\ printed' = [i \in DOMAIN ops |-> PrintLine(ops[i])]
      /\ stage' = "parsing" /\ ops' = <<>> /\ defined' = Params /\ forward' = <<>>
  BY DEF PrintText, DialectInv, StageInv
<1>2. ParseInv'
  <2>1. Start'
    BY <1>1 DEF Start
  <2> QED BY <2>1, StartFacts, PTL
<1>3. ops \in Seq(OpSet) /\ DOMAIN ops = 1 .. Len(ops) /\ Len(ops) \in Nat /\ \A i \in 1 .. Len(ops) : PrintLine(ops[i]) = ops[i].line
  BY <1>1, PrintIs DEF Good
<1>4. printed' = [i \in 1 .. Len(ops) |-> ops[i].line] /\ \A i \in 1 .. Len(ops) : ops[i].line \in Lines
  <2>1. \A i \in 1 .. Len(ops) : ops[i] \in OpSet
    BY <1>3
  <2> QED BY <1>1, <1>3, <2>1 DEF OpSet
<1>5. printed' \in Seq(Lines) /\ Len(printed') = Len(ops)
  BY <1>3, <1>4
<1>6. Good(first)'
  BY <1>1 DEF Good, Dominated
<1>7. Rereading'
  BY <1>1, <1>3, <1>4, <1>5, <1>6 DEF Rereading
<1> QED BY <1>1, <1>2, <1>3, <1>7, NotPrintedFacts DEF DialectInv, StageInv

LEMMA DialectNext == DialectInv /\ [Next]_vars => DialectInv'
<1>1. DialectInv /\ UNCHANGED vars => DialectInv'
  BY DEF vars, DialectInv, ParseInv, OpsInv, DefinedInv, UsesInv, StageInv, Rereading, Good, Dominated
<1> QED BY <1>1, ReadNext, RereadNext, EndNext, VerifyNext, PrintNext DEF Next, Finished

------------------------------------------------------------------------------
(* Theorems *)

\* Names are either defined or promised, and have a type.
THEOREM DialectTypes == Spec => []TypeOK
<1>1. DialectInv => TypeOK
  BY DEF DialectInv, StageInv, ParseInv, DefinedInv, TypeOK
<1> QED BY DialectInit, DialectNext, <1>1, PTL DEF Spec

\* In a verified program the value_type attribute, from which the lowering takes
\* the function of the runtime, is the type of the value that is moved.
THEOREM AttributesTrue == Spec => []ValueTypesTrue
<1>1. DialectInv => ValueTypesTrue
  <2> SUFFICES ASSUME DialectInv, stage = "verified", NEW i \in DOMAIN ops
               PROVE  LET line == ops[i].line
                      IN  /\ defined[line.inStack] = "stack" /\ defined[line.outs[1]] = "stack"
                          /\ ops[i].value_type = defined[IF line.kind = "push" THEN line.value ELSE line.outs[2]]
    BY DEF ValueTypesTrue
  <2> DEFINE line == ops[i].line
  <2>1. DOMAIN forward = {} /\ OpsInv /\ DefinedInv /\ UsesInv
    BY DEF DialectInv, ParseInv, StageInv
  <2>2. i \in 1 .. Len(ops) /\ ops[i] \in OpSet /\ line \in Lines /\ ops[i].value_type = line.type
    <3>1. i \in 1 .. Len(ops) /\ ops[i] \in OpSet
      BY <2>1 DEF OpsInv
    <3> QED BY <2>1, <3>1 DEF OpsInv, OpSet
  <2>3. \A u \in Uses(line) : defined[u[1]] = u[2]
    BY <2>1, <2>2 DEF UsesInv
  <2>4. \A n \in DOMAIN line.outs : defined[line.outs[n]] = ResultTypes(line)[n]
    BY <2>1, <2>2 DEF DefinedInv, Outs, Given
  <2> HIDE DEF line
  <2>5. defined[line.inStack] = "stack"
    BY <2>2, <2>3, LineFacts DEF StackUse
  <2>6. defined[line.outs[1]] = "stack"
    BY <2>2, <2>4, LineFacts
  <2>7. CASE line.kind = "push"
    BY <2>2, <2>3, <2>5, <2>6, <2>7, LineFacts DEF ValueUse, line
  <2>8. CASE line.kind = "pop"
    BY <2>2, <2>4, <2>5, <2>6, <2>8, LineFacts DEF line
  <2> QED BY <2>2, <2>7, <2>8, LineFacts
<1> QED BY DialectInit, DialectNext, <1>1, PTL DEF Spec

\* What sigi-opt prints of a verified program is accepted again, line by line
\* and at the end, and is the same program.
THEOREM PrintedIsRead == Spec => []RoundTrip
<1>1. DialectInv => RoundTrip
  <2> SUFFICES ASSUME DialectInv, first # NotPrinted PROVE stage # "rejected" /\ (stage = "verified" => ops = first)
    BY DEF RoundTrip
  <2>1. Rereading /\ ops \in Seq(OpSet) /\ first \in Seq(OpSet)
    BY DEF DialectInv, StageInv, ParseInv, OpsInv, Rereading, Good
  <2>2. ASSUME stage = "verified" PROVE ops = first
    <3>1. Len(ops) = Len(first) /\ \A i \in 1 .. Len(ops) : ops[i] = first[i]
      BY <2>1, <2>2 DEF Rereading
    <3> QED BY <2>1, <3>1
  <2> QED BY <2>1, <2>2 DEF Rereading
<1> QED BY DialectInit, DialectNext, <1>1, PTL DEF Spec
==============================================================================
