------------------------------ MODULE StackValues ------------------------------
(***************************************************************************)
(* sigi.push and sigi.pop as the pure operations on stack values their     *)
(* definition declares (SigiOps.td:25-58) against the code they become     *)
(* (SigiToLLVM.cpp:134-210): calls that change one stack in place, with    *)
(* every stack result replaced by the operand.  closure.box is declared    *)
(* Pure too (ClosureOps.td:78-81) and becomes an allocation.               *)
(*                                                                         *)
(* A straight-line body is built, run, rewritten as MLIR may rewrite pure  *)
(* operations, and run again.  A run computes both meanings side by side:  *)
(* `stacks` and `pure` hold the values of the IR, `stack` and `regs` the   *)
(* contents of the runtime's stack and of the registers.                   *)
(***************************************************************************)
EXTENDS Integers, Sequences, FiniteSets

CONSTANTS Codes,      \* the texts of closure bodies
          Kinds,      \* the operations a body may have
          Linear,     \* TRUE: the front end uses each stack value once
          Rewrites,   \* the rewritings of pure operations that take place
          NumOps      \* bound: operations of a body

ASSUME LinearAssumption == Linear \in BOOLEAN
ASSUME CodesAssumption == Codes \cap {"x", "y", "k"} = {} /\ "none" \notin Codes
ASSUME BoundAssumption == NumOps \in Nat

\* Scalars: two that are on the stack at entry and a constant of the program.
Scalars == {"x", "y", "k"}
TypeOf(code) == IF code \in Codes THEN "closure" ELSE "int"

\* A value at run time: what it is and which box allocated it.
Value(code, at) == [code |-> code, at |-> at]
Entry == <<Value("x", 0), Value("y", 0)>>
Meaning(s) == [i \in DOMAIN s |-> s[i].code]

\* An operation has an id, which names its results: the stack it returns, the
\* value a pop or a box returns.  `in` and `val` are the ids of its operands, 0
\* for the stack of the function and for the constant, None for no operand.
None == -1
Op(id, kind, in, val, attr) == [id |-> id, kind |-> kind, in |-> in, val |-> val, attr |-> attr]

VARIABLES body,        \* the operations in program order
          ret,         \* the stack value that is returned
          status,      \* "building", "running", "rewriting", or how a run ended
          rewritten,   \* the body is not as the front end built it
          pc,          \* the next operation to execute
          stacks,      \* the meaning of each stack value
          pure,        \* the meaning of each other value
          pureOut,     \* what sigi::pp prints by the meaning of its operand
          stack,       \* the stack of the runtime
          regs,        \* the register of each value
          freed,       \* the boxes whose closure is freed
          out          \* what sigi::pp prints

program == <<body, ret, rewritten>>
ir == <<stacks, pure, pureOut>>
machine == <<stack, regs, freed, out>>
vars == <<program, status, pc, ir, machine>>

BodyOps == {body[k] : k \in DOMAIN body}
StackIds == {0} \cup {o.id : o \in {o \in BodyOps : o.kind \in {"push", "pop", "pp"}}}
ValueIds == {0} \cup {o.id : o \in {o \in BodyOps : o.kind \in {"pop", "box"}}}
ClosureIds == {o.id : o \in {o \in BodyOps : o.kind = "box" \/ (o.kind = "pop" /\ o.attr = "closure")}}

\* Only the function's stack and the constant are known when a run starts.
Known(v) == [s \in {0} |-> v]

Init ==
    /\ body = <<>> /\ ret = 0 /\ status = "building" /\ rewritten = FALSE
    /\ pc = 1
    /\ stacks = Known(Meaning(Entry)) /\ pure = Known("k") /\ pureOut = <<>>
    /\ stack = Entry /\ regs = Known(Value("k", 0)) /\ freed = {} /\ out = <<>>

------------------------------------------------------------------------------
(* The front end *)

\* An operation is added; its operands are results of those before it.
Build(kind, in, val, attr) ==
    /\ status = "building" /\ kind \in Kinds /\ Len(body) < NumOps
    /\ Linear => \A o \in BodyOps : in = None \/ o.in # in
    /\ body' = Append(body, Op(Len(body) + 1, kind, in, val, attr))
    /\ UNCHANGED <<ret, status, rewritten, pc, ir, machine>>

BuildOp ==
    \/ \E in \in StackIds, val \in ValueIds : Build("push", in, val, "none")
    \/ \E in \in StackIds, ty \in {"int", "closure"} : Build("pop", in, None, ty)
    \/ \E in \in StackIds : Build("pp", in, None, "none")
    \/ \E code \in Codes : Build("box", None, None, code)
    \/ \E val \in ClosureIds : Build("check_drop", None, val, "none")

\* The body ends with the return of a stack.
BuildReturn ==
    /\ status = "building"
    /\ ret' \in StackIds
    /\ Linear => \A o \in BodyOps : o.in # ret'
    /\ status' = "running"
    /\ UNCHANGED <<body, rewritten, pc, ir, machine>>

------------------------------------------------------------------------------
(* A run: each operation by its meaning and by the code it is lowered to *)

Define(f, x, v) == [y \in DOMAIN f \cup {x} |-> IF y = x THEN v ELSE f[y]]
Rest(s) == SubSeq(s, 1, Len(s) - 1)
Top(s) == s[Len(s)]

\* By its meaning a pop of an empty stack has no value.
PureRest(s) == IF s = <<>> THEN s ELSE Rest(s)
PureTop(s) == IF s = <<>> THEN "none" ELSE Top(s)

Next1(o, kind) == status = "running" /\ pc \in DOMAIN body /\ o = body[pc] /\ o.kind = kind
Advance == pc' = pc + 1 /\ UNCHANGED <<program, status>>
Stop(how) == status' = how /\ UNCHANGED <<program, pc, ir, machine>>

\* sigi_push_closure writes the count of the closure.
CanPush(v) == v.at \notin freed

ExecPush(o) ==
    /\ Next1(o, "push") /\ CanPush(regs[o.val])
    /\ stacks' = Define(stacks, o.id, Append(stacks[o.in], pure[o.val]))
    /\ stack' = Append(stack, regs[o.val])
    /\ Advance /\ UNCHANGED <<pure, pureOut, regs, freed, out>>

\* Mutant of CanPop: the tag is not checked.
CanPopAnyTag(o) == stack # <<>>

\* The tag of the top is the type the pop asks for.
CanPop(o) == stack # <<>> /\ TypeOf(Top(stack).code) = o.attr

\* Mutant of ExecPop: the value is read and stays on the stack.
ExecPeek(o) ==
    /\ Next1(o, "pop") /\ CanPop(o)
    /\ stacks' = Define(stacks, o.id, PureRest(stacks[o.in]))
    /\ pure' = Define(pure, o.id, PureTop(stacks[o.in]))
    /\ regs' = Define(regs, o.id, Top(stack))
    /\ Advance /\ UNCHANGED <<pureOut, stack, freed, out>>

ExecPop(o) ==
    /\ Next1(o, "pop") /\ CanPop(o)
    /\ stacks' = Define(stacks, o.id, PureRest(stacks[o.in]))
    /\ pure' = Define(pure, o.id, PureTop(stacks[o.in]))
    /\ stack' = Rest(stack)
    /\ regs' = Define(regs, o.id, Top(stack))
    /\ Advance /\ UNCHANGED <<pureOut, freed, out>>

\* func.call of sigi::pp: the top is printed, the stack returned.  (With a closure
\* the runtime also prints its count, which no meaning of the IR determines.)
ExecPp(o) ==
    /\ Next1(o, "pp") /\ stack # <<>>
    /\ stacks' = Define(stacks, o.id, stacks[o.in])
    /\ pureOut' = Append(pureOut, PureTop(stacks[o.in]))
    /\ out' = Append(out, Top(stack).code)
    /\ Advance /\ UNCHANGED <<pure, stack, regs, freed>>

\* closure.box: by its meaning a value, in the code a new closure.
ExecBox(o) ==
    /\ Next1(o, "box")
    /\ pure' = Define(pure, o.id, o.attr)
    /\ regs' = Define(regs, o.id, Value(o.attr, o.id))
    /\ Advance /\ UNCHANGED <<stacks, pureOut, stack, freed, out>>

\* The count of a closure: the slots of the stack that hold it.
Count(v) == Cardinality({i \in DOMAIN stack : stack[i] = v})

\* closure_check_drop frees a closure of count zero.
ExecCheckDrop(o) ==
    /\ Next1(o, "check_drop") /\ regs[o.val].at \notin freed
    /\ freed' = IF Count(regs[o.val]) = 0 THEN freed \cup {regs[o.val].at} ELSE freed
    /\ Advance /\ UNCHANGED <<ir, stack, regs, out>>

\* A freed closure is pushed or dropped: undefined behaviour.
UseFreed(o) ==
    /\ \/ Next1(o, "push") /\ ~CanPush(regs[o.val])
       \/ Next1(o, "check_drop") /\ regs[o.val].at \in freed
    /\ Stop("undefined")

\* The runtime aborts on an empty stack and on a tag that does not match.
Abort(o) ==
    /\ \/ Next1(o, "pop") /\ ~CanPop(o)
       \/ Next1(o, "pp") /\ stack = <<>>
    /\ Stop("aborted")

\* The run is over; the first one goes on to the rewriting of the body.
Return ==
    /\ status = "running" /\ pc > Len(body)
    /\ status' = "returned"
    /\ UNCHANGED <<program, pc, ir, machine>>

------------------------------------------------------------------------------
(* What MLIR may do with operations that are declared Pure *)

PureKinds == {"push", "pop", "box"}
IsUsed(id) == ret = id \/ \E o \in BodyOps : o.in = id \/ o.val = id

StartRewriting ==
    /\ status = "returned" /\ ~rewritten /\ Rewrites # {}
    /\ status' = "rewriting" /\ rewritten' = TRUE
    /\ pc' = 1
    /\ stacks' = Known(Meaning(Entry)) /\ pure' = Known("k") /\ pureOut' = <<>>
    /\ stack' = Entry /\ regs' = Known(Value("k", 0)) /\ freed' = {} /\ out' = <<>>
    /\ UNCHANGED <<body, ret>>

Rewrite(newBody, newRet) ==
    /\ status = "rewriting"
    /\ body' = newBody /\ ret' = newRet
    /\ UNCHANGED <<status, rewritten, pc, ir, machine>>

Without(k) == SubSeq(body, 1, k - 1) \o SubSeq(body, k + 1, Len(body))

\* Mutant of EraseDead: a pop is dead when nobody needs the value it returns.
EraseUnusedValue(k) ==
    /\ "erase" \in Rewrites /\ body[k].kind \in PureKinds
    /\ body[k].kind # "push" /\ \A o \in BodyOps : o.val # body[k].id
    /\ Rewrite(Without(k), ret)

\* Dead code elimination: no result is used.
EraseDead(k) ==
    /\ "erase" \in Rewrites /\ body[k].kind \in PureKinds
    /\ ~IsUsed(body[k].id)
    /\ Rewrite(Without(k), ret)

\* Common subexpression elimination: the later of two equal operations goes, its
\* uses get the results of the earlier one.
Merge(j, k) ==
    LET Rename(id) == IF id = body[k].id THEN body[j].id ELSE id
        RenameOp(o) == [o EXCEPT !.in = Rename(@), !.val = Rename(@)]
    IN  /\ "merge" \in Rewrites /\ j < k /\ body[k].kind \in PureKinds
        /\ [body[k] EXCEPT !.id = body[j].id] = body[j]
        /\ Rewrite([i \in DOMAIN Without(k) |-> RenameOp(Without(k)[i])], Rename(ret))

\* Code motion: a pure operation and its neighbour change places unless the
\* second needs a result of the first.
Move(k) ==
    /\ "move" \in Rewrites /\ k < Len(body)
    /\ body[k].kind \in PureKinds \/ body[k + 1].kind \in PureKinds
    /\ body[k + 1].in # body[k].id /\ body[k + 1].val # body[k].id
    /\ Rewrite([body EXCEPT ![k] = body[k + 1], ![k + 1] = body[k]], ret)

RunAgain ==
    /\ status = "rewriting"
    /\ status' = "running"
    /\ UNCHANGED <<program, pc, ir, machine>>

Terminated == status \in {"returned", "aborted", "undefined"} /\ UNCHANGED vars

Next ==
    \/ BuildOp \/ BuildReturn
    \/ \E o \in BodyOps :
           ExecPush(o) \/ ExecPop(o) \/ ExecPp(o) \/ ExecBox(o) \/ ExecCheckDrop(o) \/ UseFreed(o) \/ Abort(o)
    \/ Return
    \/ StartRewriting \/ RunAgain
    \/ \E k \in DOMAIN body : EraseDead(k) \/ Move(k) \/ \E j \in DOMAIN body : Merge(j, k)
    \/ Terminated

Spec == Init /\ [][Next]_vars

------------------------------------------------------------------------------
(* Correctness *)

TypeOK ==
    /\ \A k \in DOMAIN body : body[k] \in [id : 1 .. NumOps, kind : Kinds, in : None .. NumOps, val : None .. NumOps,
                                           attr : Codes \cup {"none", "int", "closure"}]
    /\ ret \in StackIds
    /\ status \in {"building", "running", "rewriting", "returned", "aborted", "undefined"}
    /\ rewritten \in BOOLEAN
    /\ pc \in 1 .. NumOps + 1
    /\ \A s \in DOMAIN stacks : \A i \in DOMAIN stacks[s] : stacks[s][i] \in Scalars \cup Codes
    /\ \A v \in DOMAIN regs : regs[v] \in [code : Scalars \cup Codes, at : 0 .. NumOps]
    /\ DOMAIN pure = DOMAIN regs
    /\ \A i \in DOMAIN stack : stack[i] \in [code : Scalars \cup Codes, at : 0 .. NumOps]
    /\ freed \subseteq 1 .. NumOps

\* The one stack changed in place (SigiToLLVM.cpp:165-168, 204-206) gives what
\* the operations mean on stack values: each popped value and everything printed
\* is the same, also while later operations are still to come, and the stack at
\* the return is the value that is returned.  It holds of a body that uses each
\* stack value once, before and after pure operations are erased, merged, moved.
InPlaceAgrees ==
    /\ \A v \in DOMAIN regs : regs[v].code = pure[v]
    /\ out = pureOut
    /\ status = "returned" => Meaning(stack) = stacks[ret]

\* What Pure allows keeps a body in the form the lowering relies on: an operand
\* comes from an earlier operation, each stack value is used exactly once.
StacksStayLinear ==
    status # "building" =>
        /\ \A s \in StackIds :
               Cardinality({k \in DOMAIN body : body[k].in = s}) + (IF ret = s THEN 1 ELSE 0) = 1
        /\ \A k \in DOMAIN body :
               {body[k].in, body[k].val} \subseteq {None, 0} \cup {body[j].id : j \in 1 .. k - 1}

\* A body that ran without using a freed closure still does after a rewriting
\* that the traits of its operations allow.
RewritingIsSafe == rewritten => status # "undefined"
=============================================================================
