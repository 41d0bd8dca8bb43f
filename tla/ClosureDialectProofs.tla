------------------------- MODULE ClosureDialectProofs -------------------------
(***************************************************************************)
(* Theorems about ClosureDialect, for any types and for texts with lists   *)
(* of any length.                                                          *)
(***************************************************************************)
EXTENDS ClosureDialect, SequenceTheorems, TLAPS

TextSet == [captures : Seq(Types), named : BOOLEAN, ins : Seq(Types \cup {Unknown}), outs : Seq(Types),
            outAttrs : Seq(Attrs), label : Seq(Types) \cup {NoLabel}, returns : Seq(Types) \cup {NoBody}]
OpSet == [captures : Seq(Types), ins : Seq(Types), outs : Seq(Types), resAttrs : Seq(Attrs) \cup {NoAttrs},
          params : Seq(Types), returns : Seq(Types) \cup {NoBody, NoRegion}]

\* Each result has an attribute or "none"; an operation keeps the array only
\* if there is an attribute in it.
TextOK(t) == t \in TextSet /\ Len(t.outAttrs) = Len(t.outs)
OpOK(o) ==
    /\ o \in OpSet
    /\ o.resAttrs # NoAttrs => Len(o.resAttrs) = Len(o.outs) /\ \E n \in 1 .. Len(o.resAttrs) : o.resAttrs[n] # "none"

\* The operation that a text is parsed to, and the text an operation is printed as.
Parsed(t) == [captures |-> t.captures, ins |-> t.ins, outs |-> t.outs,
              resAttrs |-> ResultAttrs(t), params |-> EntryParams(t), returns |-> t.returns]
Printed(o) == [captures |-> o.captures, named |-> TRUE, ins |-> [n \in DOMAIN o.ins |-> PrintedInput(o, n)],
               outs |-> o.outs, outAttrs |-> PrintedAttrs(o), label |-> NoLabel,
               returns |-> IF o.returns = NoRegion THEN NoBody ELSE o.returns]

\* An operation comes from the text or there is none.
ShapeInv ==
    /\ stage \in {"text", "op", "verified", "rejected", "undefined"}
    /\ stage = "text" => TextOK(text)
    /\ stage \in {"op", "verified"} =>
           /\ OpOK(op)
           /\ text = NoOp \/ (TextOK(text) /\ op = Parsed(text))
    /\ stage = "verified" => op.returns \in {NoRegion, op.outs}

\* A well-formed operation that was printed is still there, or what it was
\* printed as.
PrintInv ==
    first # NoOp /\ WellFormed(first) =>
        /\ stage \notin {"rejected", "undefined"} /\ OpOK(first)
        /\ stage \in {"op", "verified"} => op = first
        /\ stage = "text" => op = first /\ text = Printed(first)

BoxInv == ShapeInv /\ PrintInv

------------------------------------------------------------------------------
(* Texts and operations *)

LEMMA Markers ==
    /\ NoBody \notin Seq(Types) /\ NoRegion \notin Seq(Types) /\ NoLabel \notin Seq(Types) /\ NoAttrs \notin Seq(Attrs)
    /\ NoBody # NoRegion /\ Unknown \notin Types
<1>1. \A x : <<x>> \in Seq(Types) => x \in Types
  <2> SUFFICES ASSUME NEW x, <<x>> \in Seq(Types) PROVE x \in Types
    OBVIOUS
  <2>1. <<x>>[1] \in Types
    OBVIOUS
  <2> QED BY <2>1
<1>2. \A x : <<x>> \in Seq(Attrs) => x \in Attrs
  <2> SUFFICES ASSUME NEW x, <<x>> \in Seq(Attrs) PROVE x \in Attrs
    OBVIOUS
  <2>1. <<x>>[1] \in Attrs
    OBVIOUS
  <2> QED BY <2>1
<1>3. NoBody # NoRegion
  <2>1. NoBody[1] = "no body" /\ NoRegion[1] = "no region"
    BY DEF NoBody, NoRegion
  <2> QED BY <2>1
<1>4. NoBody \notin Seq(Types) /\ NoRegion \notin Seq(Types) /\ NoLabel \notin Seq(Types)
  <2>1. "no body" \notin Types /\ "no region" \notin Types /\ "no label" \notin Types
    BY TypeAssumption
  <2> QED BY <1>1, <2>1 DEF NoBody, NoRegion, NoLabel
<1>5. NoAttrs \notin Seq(Attrs)
  <2>1. "no attrs" \notin Attrs
    BY DEF Attrs
  <2> QED BY <1>2, <2>1 DEF NoAttrs
<1>6. Unknown \notin Types
  BY TypeAssumption DEF Unknown
<1> QED BY <1>3, <1>4, <1>5, <1>6

LEMMA NotNoOp ==
    /\ \A o : o \in OpSet => o # NoOp
    /\ \A t : t \in TextSet => t # NoOp
<1>1. DOMAIN NoOp = {"captures"}
  BY DEF NoOp
<1>2. ASSUME NEW o \in OpSet PROVE "ins" \in DOMAIN o
  BY DEF OpSet
<1>3. ASSUME NEW t \in TextSet PROVE "ins" \in DOMAIN t
  BY DEF TextSet
<1> QED BY <1>1, <1>2, <1>3

LEMMA ListFacts ==
    ASSUME NEW S, NEW n \in Nat
    PROVE  Lists(S, n) \subseteq Seq(S)
<1> SUFFICES ASSUME NEW s \in Lists(S, n) PROVE s \in Seq(S)
  OBVIOUS
<1>1. PICK k \in 0 .. n : s \in [1 .. k -> S]
  BY DEF Lists
<1>2. k \in Nat
  BY <1>1
<1> QED BY <1>1, <1>2

\* What the parser accepts becomes an operation.
LEMMA ParsedFacts ==
    ASSUME NEW t, TextOK(t), ~ParseFails(t)
    PROVE  OpOK(Parsed(t))
<1>1. /\ t.captures \in Seq(Types) /\ t.ins \in Seq(Types \cup {Unknown}) /\ t.outs \in Seq(Types)
      /\ t.outAttrs \in Seq(Attrs) /\ t.label \in Seq(Types) \cup {NoLabel} /\ t.returns \in Seq(Types) \cup {NoBody}
      /\ Len(t.outAttrs) = Len(t.outs)
  BY DEF TextOK, TextSet
<1>2. t.ins \in Seq(Types)
  <2>1. DOMAIN t.ins = 1 .. Len(t.ins) /\ Len(t.ins) \in Nat
    BY <1>1
  <2>2. \A n \in 1 .. Len(t.ins) : t.ins[n] \in Types
    BY <1>1, <2>1 DEF ParseFails
  <2>3. t.ins = [n \in 1 .. Len(t.ins) |-> t.ins[n]]
    BY <1>1
  <2>4. t.ins \in [1 .. Len(t.ins) -> Types]
    BY <2>2, <2>3
  <2> QED BY <2>1, <2>4
<1>3. EntryParams(t) \in Seq(Types)
  <2>1. t.captures \o t.ins \in Seq(Types)
    BY <1>1, <1>2
  <2>2. <<>> \in Seq(Types)
    OBVIOUS
  <2> QED BY <1>1, <2>1, <2>2 DEF EntryParams, RegionParams
<1>4. /\ ResultAttrs(t) \in Seq(Attrs) \cup {NoAttrs}
      /\ ResultAttrs(t) # NoAttrs =>
             Len(ResultAttrs(t)) = Len(t.outs) /\ \E n \in 1 .. Len(ResultAttrs(t)) : ResultAttrs(t)[n] # "none"
  <2>1. DOMAIN t.outAttrs = 1 .. Len(t.outAttrs)
    BY <1>1
  <2> QED BY <1>1, <2>1 DEF ResultAttrs
<1> QED BY <1>1, <1>2, <1>3, <1>4 DEF OpOK, OpSet, Parsed

\* Every operation can be printed.
LEMMA PrintedFacts ==
    ASSUME NEW o, OpOK(o)
    PROVE  TextOK(Printed(o))
<1>1. /\ o.captures \in Seq(Types) /\ o.ins \in Seq(Types) /\ o.outs \in Seq(Types) /\ o.params \in Seq(Types)
      /\ o.resAttrs \in Seq(Attrs) \cup {NoAttrs} /\ o.returns \in Seq(Types) \cup {NoBody, NoRegion}
  BY DEF OpOK, OpSet
<1>2. [n \in DOMAIN o.ins |-> PrintedInput(o, n)] \in Seq(Types \cup {Unknown})
  <2>1. DOMAIN o.ins = 1 .. Len(o.ins) /\ Len(o.ins) \in Nat /\ Len(o.captures) \in Nat /\ Len(o.params) \in Nat
    BY <1>1
  <2>2. ASSUME NEW n \in 1 .. Len(o.ins) PROVE PrintedInput(o, n) \in Types \cup {Unknown}
    <3>1. Len(o.captures) + n <= Len(o.params) => o.params[Len(o.captures) + n] \in Types
      <4> SUFFICES ASSUME Len(o.captures) + n <= Len(o.params) PROVE o.params[Len(o.captures) + n] \in Types
        OBVIOUS
      <4>1. Len(o.captures) + n \in 1 .. Len(o.params)
        BY <2>1
      <4> QED BY <1>1, <4>1
    <3> QED BY <3>1 DEF PrintedInput
  <2> QED BY <2>1, <2>2
<1>3. PrintedAttrs(o) \in Seq(Attrs) /\ Len(PrintedAttrs(o)) = Len(o.outs)
  <2>1. DOMAIN o.outs = 1 .. Len(o.outs) /\ Len(o.outs) \in Nat
    BY <1>1
  <2>2. \A n \in DOMAIN o.outs : (IF o.resAttrs # NoAttrs /\ n \in DOMAIN o.resAttrs THEN o.resAttrs[n] ELSE "none") \in Attrs
    <3>1. o.resAttrs # NoAttrs => \A n \in DOMAIN o.resAttrs : o.resAttrs[n] \in Attrs
      BY <1>1
    <3> QED BY <3>1 DEF Attrs
  <2> QED BY <2>1, <2>2 DEF PrintedAttrs
<1>4. (IF o.returns = NoRegion THEN NoBody ELSE o.returns) \in Seq(Types) \cup {NoBody}
  BY <1>1
<1> QED BY <1>1, <1>2, <1>3, <1>4 DEF TextOK, TextSet, Printed

LEMMA ConcatAfter ==
    ASSUME NEW S, NEW s \in Seq(S), NEW t \in Seq(S), NEW n \in 1 .. Len(t)
    PROVE  (s \o t)[Len(s) + n] = t[n] /\ Len(s) + n <= Len(s \o t)
<1>1. Len(s) \in Nat /\ Len(t) \in Nat /\ n \in Nat
  OBVIOUS
<1>2. Len(s \o t) = Len(s) + Len(t) /\ Len(s) + n \in 1 .. Len(s) + Len(t) /\ ~(Len(s) + n <= Len(s)) /\ Len(s) + n - Len(s) = n
  BY <1>1
<1> QED BY <1>1, <1>2

\* A well-formed operation is read back from what is printed of it.
LEMMA PrintThenParse ==
    ASSUME NEW o, OpOK(o), WellFormed(o)
    PROVE  ~ParseFails(Printed(o)) /\ Parsed(Printed(o)) = o
<1>1. /\ o.captures \in Seq(Types) /\ o.ins \in Seq(Types) /\ o.outs \in Seq(Types)
      /\ o.resAttrs \in Seq(Attrs) \cup {NoAttrs} /\ o.params = o.captures \o o.ins /\ o.returns = o.outs
  BY DEF OpOK, OpSet, WellFormed
<1>2. PICK t : t = Printed(o)
  OBVIOUS
<1>3. /\ t.captures = o.captures /\ t.named = TRUE /\ t.ins = [n \in DOMAIN o.ins |-> PrintedInput(o, n)]
      /\ t.outs = o.outs /\ t.outAttrs = PrintedAttrs(o) /\ t.label = NoLabel
      /\ t.returns = IF o.returns = NoRegion THEN NoBody ELSE o.returns
  BY <1>2 DEF Printed
<1>4. t.ins = o.ins
  <2>1. DOMAIN o.ins = 1 .. Len(o.ins)
    BY <1>1
  <2>2. ASSUME NEW n \in DOMAIN o.ins PROVE PrintedInput(o, n) = o.ins[n]
    <3>1. (o.captures \o o.ins)[Len(o.captures) + n] = o.ins[n] /\ Len(o.captures) + n <= Len(o.captures \o o.ins)
      BY <1>1, <2>1, ConcatAfter
    <3> QED BY <1>1, <3>1 DEF PrintedInput
  <2>3. o.ins = [n \in DOMAIN o.ins |-> o.ins[n]]
    BY <1>1
  <2> QED BY <1>3, <2>2, <2>3
<1>5. t.returns = o.outs /\ o.outs # NoBody
  BY <1>1, <1>3, Markers
<1>6. Named(t) <=> o.captures # <<>> \/ o.ins # <<>>
  BY <1>3, <1>4 DEF Named
<1>7. EntryParams(t) = o.params
  <2>1. CASE Named(t)
    BY <1>1, <1>3, <1>4, <2>1 DEF EntryParams, RegionParams
  <2>2. CASE ~Named(t)
    <3>1. o.captures = <<>> /\ o.ins = <<>>
      BY <1>6, <2>2
    <3>2. o.params = <<>>
      BY <1>1, <3>1
    <3> QED BY <1>3, <2>2, <3>2 DEF EntryParams
  <2> QED BY <2>1, <2>2
<1>8. ResultAttrs(t) = o.resAttrs
  <2>1. DOMAIN PrintedAttrs(o) = DOMAIN o.outs
    BY DEF PrintedAttrs
  <2>2. CASE o.resAttrs = NoAttrs
    <3>1. \A n \in DOMAIN PrintedAttrs(o) : PrintedAttrs(o)[n] = "none"
      BY <2>2 DEF PrintedAttrs
    <3> QED BY <1>3, <2>2, <3>1 DEF ResultAttrs
  <2>3. CASE o.resAttrs # NoAttrs
    <3>1. Len(o.resAttrs) = Len(o.outs) /\ \E n \in 1 .. Len(o.resAttrs) : o.resAttrs[n] # "none"
      BY <2>3 DEF OpOK
    <3>2. DOMAIN o.resAttrs = 1 .. Len(o.resAttrs) /\ DOMAIN o.outs = 1 .. Len(o.outs)
      BY <1>1, <2>3
    <3>3. PrintedAttrs(o) = [n \in DOMAIN o.resAttrs |-> o.resAttrs[n]]
      BY <2>3, <3>1, <3>2 DEF PrintedAttrs
    <3>4. o.resAttrs = [n \in DOMAIN o.resAttrs |-> o.resAttrs[n]]
      BY <1>1, <2>3
    <3>5. t.outAttrs = o.resAttrs
      BY <1>3, <3>3, <3>4
    <3>6. \E n \in DOMAIN t.outAttrs : t.outAttrs[n] # "none"
      BY <3>1, <3>2, <3>5
    <3> QED BY <3>5, <3>6 DEF ResultAttrs
  <2> QED BY <2>2, <2>3
<1>9. ~ParseFails(t)
  <2>1. \A n \in DOMAIN t.ins : t.ins[n] # Unknown
    <3>1. \A n \in DOMAIN o.ins : o.ins[n] \in Types
      BY <1>1
    <3> QED BY <1>4, <3>1, Markers
  <2>2. ~Named(t) => RegionParams(t) = <<>>
    <3> SUFFICES ASSUME ~Named(t) PROVE RegionParams(t) = <<>>
      OBVIOUS
    <3>1. t.captures = <<>> /\ t.ins = <<>>
      BY <1>3, <1>4, <1>6
    <3>2. <<>> \o <<>> = <<>>
      OBVIOUS
    <3> QED BY <3>1, <3>2 DEF RegionParams
  <2> QED BY <1>3, <1>5, <2>1, <2>2 DEF ParseFails
<1>10. Parsed(t) = o
  <2>1. o = [captures |-> o.captures, ins |-> o.ins, outs |-> o.outs, resAttrs |-> o.resAttrs,
             params |-> o.params, returns |-> o.returns]
    BY DEF OpOK, OpSet
  <2> QED BY <1>1, <1>3, <1>4, <1>5, <1>7, <1>8, <2>1 DEF Parsed
<1> QED BY <1>2, <1>9, <1>10

------------------------------------------------------------------------------
(* The invariant *)

LEMMA BoxInit == Init => BoxInv
<1> SUFFICES ASSUME Init PROVE BoxInv
  OBVIOUS
<1>1. PrintInv
  BY DEF Init, PrintInv
<1>2. CASE stage = "text" /\ \E form \in Forms \ {"generic"} : text \in Texts(form)
  <2>1. PICK form : text \in Texts(form)
    BY <1>2
  <2> DEFINE labels == IF form = "labelled" THEN Lists(Types, 1) ELSE {NoLabel}
  <2>2. PICK outs \in Lists(Types, 1) :
          text \in [captures : Lists(Capturable, MaxList), named : {form # "unnamed"}, ins : Lists(Types, MaxList),
                    outs : {outs}, outAttrs : [DOMAIN outs -> Attrs], label : labels,
                    returns : {NoBody} \cup Lists(Types, MaxList)]
    BY <2>1 DEF Texts
  <2>3. labels \subseteq Seq(Types) \cup {NoLabel}
    BY ListFacts
  <2> HIDE DEF labels
  <2>4. /\ text.captures \in Lists(Capturable, MaxList) /\ text.ins \in Lists(Types, MaxList)
        /\ text.returns \in {NoBody} \cup Lists(Types, MaxList) /\ text.outs = outs
        /\ text.outAttrs \in [DOMAIN outs -> Attrs] /\ text.named \in BOOLEAN /\ text.label \in labels
        /\ text = [captures |-> text.captures, named |-> text.named, ins |-> text.ins, outs |-> text.outs,
                   outAttrs |-> text.outAttrs, label |-> text.label, returns |-> text.returns]
    BY <2>2
  <2>5. text.captures \in Seq(Types)
    <3>1. text.captures \in Seq(Capturable)
      BY <2>4, ListFacts, BoundAssumption
    <3>0. \A i \in 1 .. Len(text.captures) : text.captures[i] \in Capturable
      BY <3>1
    <3>2. \A i \in 1 .. Len(text.captures) : text.captures[i] \in Types
      BY <3>0, TypeAssumption
    <3> QED BY <3>1, <3>2, SeqDef
  <2>6. text.ins \in Seq(Types \cup {Unknown}) /\ text.returns \in Seq(Types) \cup {NoBody}
    <3>1. text.ins \in Seq(Types) /\ text.returns \in Seq(Types) \cup {NoBody}
      BY <2>4, ListFacts, BoundAssumption
    <3> QED BY <3>1
  <2>7. text.outs \in Seq(Types)
    BY <2>4, ListFacts
  <2>8. text.outAttrs \in Seq(Attrs) /\ Len(text.outAttrs) = Len(text.outs)
    <3>1. DOMAIN outs = 1 .. Len(outs) /\ Len(outs) \in Nat
      BY <2>4, <2>7
    <3> QED BY <2>4, <3>1
  <2>9. TextOK(text)
    BY <2>3, <2>4, <2>5, <2>6, <2>7, <2>8 DEF TextOK, TextSet
  <2> QED BY <1>1, <1>2, <2>9 DEF BoxInv, ShapeInv
<1>3. CASE stage = "op" /\ text = NoOp /\ op \in GenericBoxes
  <2>1. PICK region \in Regions :
          op \in [captures : Lists(Capturable, MaxList), ins : Lists(Types, 1), outs : Lists(Types, 1),
                 resAttrs : {NoAttrs}, params : {region[1]}, returns : {region[2]}]
    BY <1>3 DEF GenericBoxes
  <2>2. region[1] \in Seq(Types) /\ region[2] \in Seq(Types) \cup {NoBody, NoRegion}
    <3>1. region = <<<<>>, NoRegion>> \/ region \in Lists(Types, MaxList) \X ({NoBody} \cup Lists(Types, 1))
      BY DEF Regions
    <3>2. <<>> \in Seq(Types) /\ Lists(Types, MaxList) \subseteq Seq(Types) /\ Lists(Types, 1) \subseteq Seq(Types)
      BY ListFacts, BoundAssumption
    <3>3. CASE region = <<<<>>, NoRegion>>
      BY <3>2, <3>3
    <3>4. CASE region \in Lists(Types, MaxList) \X ({NoBody} \cup Lists(Types, 1))
      <4>1. region[1] \in Lists(Types, MaxList) /\ region[2] \in {NoBody} \cup Lists(Types, 1)
        BY <3>4
      <4> QED BY <3>2, <4>1
    <3> QED BY <3>1, <3>3, <3>4
  <2>3. op.captures \in Seq(Types)
    <3>1. op.captures \in Seq(Capturable)
      BY <2>1, ListFacts, BoundAssumption
    <3>2. \A i \in 1 .. Len(op.captures) : op.captures[i] \in Capturable
      BY <3>1
    <3>3. \A i \in 1 .. Len(op.captures) : op.captures[i] \in Types
      BY <3>2, TypeAssumption
    <3> QED BY <3>1, <3>3, SeqDef
  <2>4. op.ins \in Seq(Types) /\ op.outs \in Seq(Types)
    BY <2>1, ListFacts
  <2>5. OpOK(op)
    BY <2>1, <2>2, <2>3, <2>4 DEF OpOK, OpSet
  <2> QED BY <1>1, <1>3, <2>5 DEF BoxInv, ShapeInv
<1> QED BY <1>2, <1>3 DEF Init

LEMMA ParseKeeps ==
    ASSUME BoxInv, Parse
    PROVE  BoxInv'
<1>1. stage = "text" /\ TextOK(text) /\ text' = text /\ first' = first
  BY DEF Parse, BoxInv, ShapeInv
<1>2. first # NoOp /\ WellFormed(first) => OpOK(first) /\ ~ParseFails(text) /\ Parsed(text) = first
  BY <1>1, PrintThenParse DEF BoxInv, PrintInv
<1>3. CASE ParseFails(text)
  <2>1. stage' = "rejected"
    BY <1>3 DEF Parse
  <2> QED BY <1>1, <1>2, <1>3, <2>1 DEF BoxInv, ShapeInv, PrintInv
<1>4. CASE ~ParseFails(text)
  <2>1. stage' = "op" /\ op' = Parsed(text)
    BY <1>4 DEF Parse, Parsed
  <2>2. OpOK(op')
    BY <1>1, <1>4, <2>1, ParsedFacts
  <2>3. ShapeInv'
    BY <1>1, <2>1, <2>2 DEF ShapeInv
  <2>4. PrintInv'
    BY <1>1, <1>2, <2>1 DEF PrintInv
  <2> QED BY <2>3, <2>4 DEF BoxInv
<1> QED BY <1>3, <1>4

LEMMA VerifyKeeps ==
    ASSUME BoxInv, Verify
    PROVE  BoxInv'
<1>1. /\ stage = "op" /\ UNCHANGED <<text, op, first>>
      /\ stage' = IF op.returns = NoRegion \/ ReturnFits(op) THEN "verified" ELSE "rejected"
  BY DEF Verify
<1>2. ShapeInv'
  BY <1>1 DEF BoxInv, ShapeInv, ReturnFits
<1>3. PrintInv'
  BY <1>1 DEF BoxInv, PrintInv, WellFormed, ReturnFits
<1> QED BY <1>2, <1>3 DEF BoxInv

LEMMA PrintTextKeeps ==
    ASSUME BoxInv, PrintText
    PROVE  BoxInv'
<1>1. /\ stage = "verified" /\ stage' = "text" /\ op' = op /\ text' = Printed(op)
      /\ first' = IF first = NoOp THEN op ELSE first
  BY DEF PrintText, Printed
<1>2. OpOK(op)
  BY <1>1 DEF BoxInv, ShapeInv
<1>3. TextOK(Printed(op))
  BY <1>2, PrintedFacts
<1>4. ShapeInv'
  BY <1>1, <1>3 DEF ShapeInv
<1>5. PrintInv'
  BY <1>1, <1>2 DEF BoxInv, PrintInv
<1> QED BY <1>4, <1>5 DEF BoxInv

\* Of a well-formed operation there is a parameter for every capture.
LEMMA PrintWithoutParamsKeeps ==
    ASSUME BoxInv, PrintWithoutParams
    PROVE  BoxInv'
<1>1. /\ stage = "verified" /\ stage' = "undefined" /\ UNCHANGED <<text, op, first>>
      /\ ~(Len(op.captures) <= Len(op.params)) /\ OpOK(op)
  <2>1. stage = "verified" /\ OpOK(op)
    BY DEF PrintWithoutParams, BoxInv, ShapeInv
  <2>2. Len(op.captures) \in Nat /\ Len(op.params) \in Nat
    BY <2>1 DEF OpOK, OpSet
  <2> QED BY <2>1, <2>2 DEF PrintWithoutParams
<1>2. ~WellFormed(op)
  <2> SUFFICES ASSUME op.params = op.captures \o op.ins PROVE FALSE
    BY DEF WellFormed
  <2>1. op.captures \in Seq(Types) /\ op.ins \in Seq(Types)
    BY <1>1 DEF OpOK, OpSet
  <2>2. Len(op.params) = Len(op.captures) + Len(op.ins) /\ Len(op.captures) \in Nat /\ Len(op.ins) \in Nat
    BY <2>1
  <2>3. \A a, b \in Nat : a <= a + b
    OBVIOUS
  <2>4. Len(op.captures) <= Len(op.params)
    BY <2>2, <2>3, Zenon
  <2> QED BY <1>1, <2>4
<1>3. PrintInv'
  BY <1>1, <1>2 DEF BoxInv, PrintInv
<1> QED BY <1>1, <1>3 DEF BoxInv, ShapeInv

LEMMA PrintGenericKeeps ==
    ASSUME BoxInv, PrintGeneric
    PROVE  BoxInv'
<1>1. /\ stage = "verified" /\ stage' = "op" /\ UNCHANGED <<text, op>>
      /\ first' = IF first = NoOp THEN op ELSE first
  BY DEF PrintGeneric
<1>2. OpOK(op)
  BY <1>1 DEF BoxInv, ShapeInv
<1>3. ShapeInv'
  BY <1>1 DEF BoxInv, ShapeInv
<1>4. PrintInv'
  BY <1>1, <1>2 DEF BoxInv, PrintInv
<1> QED BY <1>3, <1>4 DEF BoxInv

\* The invariant holds of every closure.box that is parsed, verified and printed.
THEOREM BoxInvariant == Spec => []BoxInv
<1>1. BoxInv /\ [Next]_vars => BoxInv'
  <2> SUFFICES ASSUME BoxInv, [Next]_vars PROVE BoxInv'
    OBVIOUS
  <2>1. CASE UNCHANGED vars
    BY <2>1 DEF vars, BoxInv, ShapeInv, PrintInv
  <2> QED BY <2>1, ParseKeeps, VerifyKeeps, PrintTextKeeps, PrintWithoutParamsKeeps, PrintGenericKeeps DEF Next, Ended
<1> QED BY <1>1, BoxInit, PTL DEF Spec

------------------------------------------------------------------------------
(* What it shows *)

LEMMA TypesHold == BoxInv => TypeOK
<1> SUFFICES ASSUME BoxInv PROVE TypeOK
  OBVIOUS
<1>1. ShapeInv
  BY DEF BoxInv
<1>2. ASSUME stage = "verified" PROVE op # NoOp /\ op.returns # NoBody
  <2>1. op \in OpSet /\ op.returns \in {NoRegion, op.outs}
    BY <1>1, <1>2 DEF ShapeInv, OpOK
  <2>2. op.outs \in Seq(Types)
    BY <2>1 DEF OpSet
  <2> QED BY <2>1, <2>2, NotNoOp, Markers
<1>3. ASSUME stage = "text" PROVE text # NoOp
  BY <1>1, <1>3, NotNoOp DEF ShapeInv, TextOK
<1> QED BY <1>1, <1>2, <1>3 DEF TypeOK, ShapeInv

LEMMA SignatureHolds == BoxInv => SignatureKept
<1> SUFFICES ASSUME BoxInv, stage = "verified", text # NoOp,
                    ~(~Named(text) /\ (text.ins # <<>> \/ text.label # NoLabel))
             PROVE  WellFormed(op)
  BY DEF SignatureKept
<1>1. TextOK(text) /\ op = Parsed(text) /\ op.returns = op.outs
  <2>1. TextOK(text) /\ op = Parsed(text) /\ op.returns \in {NoRegion, op.outs}
    BY DEF BoxInv, ShapeInv
  <2>2. op.returns = text.returns /\ text.returns \in Seq(Types) \cup {NoBody}
    BY <2>1 DEF Parsed, TextOK, TextSet
  <2> QED BY <2>1, <2>2, Markers
<1>2. op.params = EntryParams(text) /\ op.captures = text.captures /\ op.ins = text.ins
  BY <1>1 DEF Parsed
<1>3. EntryParams(text) = text.captures \o text.ins
  <2>1. CASE Named(text)
    BY <2>1 DEF EntryParams, RegionParams
  <2>2. CASE ~Named(text)
    <3>1. text.ins = <<>> /\ text.label = NoLabel /\ text.captures = <<>>
      BY <2>2 DEF Named
    <3>2. <<>> \o <<>> = <<>>
      OBVIOUS
    <3> QED BY <2>2, <3>1, <3>2 DEF EntryParams
  <2> QED BY <2>1, <2>2
<1> QED BY <1>1, <1>2, <1>3 DEF WellFormed

LEMMA RoundTripHolds == BoxInv => RoundTrip
BY DEF BoxInv, PrintInv, RoundTrip

\* What is verified is a closure.box, and its body returns.
THEOREM BoxTypes == Spec => []TypeOK
BY BoxInvariant, TypesHold, PTL

\* A verified closure.box has the region that the lowering makes a worker of
\* (ClosureOps.cpp:109-120), with any number of captures, arguments and results,
\* but for the three forms that SignatureKept names.
THEOREM SignatureIsKept == Spec => []SignatureKept
BY BoxInvariant, SignatureHolds, PTL

\* A well-formed closure.box of any signature survives printing and parsing, in
\* either form and as often as it is done.
THEOREM BoxSurvivesPrinting == Spec => []RoundTrip
BY BoxInvariant, RoundTripHolds, PTL
===============================================================================
