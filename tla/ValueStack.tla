----------------------------- MODULE ValueStack ------------------------------
(***************************************************************************)
(* What the runtime's stack promises to a compiled program: a LIFO         *)
(* sequence of tagged values.  A pop hands out the most recent value not   *)
(* yet popped, and only under the tag it was pushed with; anything else    *)
(* ends the program.  SigiStack is shown to implement this specification.  *)
(***************************************************************************)
EXTENDS SigiValue, Integers, Sequences

VARIABLES items,     \* the values on the stack, the top last
          status,    \* "off", "run", "failed" or "done"
          output     \* the value the last pop or print gave the program

vars == <<items, status, output>>

Top == items[Len(items)]
Rest == SubSeq(items, 1, Len(items) - 1)

Init == items = <<>> /\ status = "off" /\ output = Undef

Start == status = "off" /\ status' \in {"run", "failed"} /\ UNCHANGED <<items, output>>

Push(v) ==
    /\ status = "run"
    /\ \/ items' = Append(items, v) /\ UNCHANGED status
       \/ status' = "failed" /\ UNCHANGED items        \* out of memory
    /\ UNCHANGED output

Pop(t) ==
    /\ status = "run"
    /\ \/ /\ items # <<>> /\ Top.tag = t
          /\ items' = Rest
          /\ output' = Top
          /\ UNCHANGED status
       \/ /\ items # <<>> /\ Top.tag # t
          /\ items' = Rest
          /\ status' = "failed"
          /\ UNCHANGED output
       \/ /\ items = <<>>
          /\ status' = "failed"
          /\ UNCHANGED <<items, output>>

Peek ==
    /\ status = "run"
    /\ UNCHANGED items
    /\ \/ items # <<>> /\ output' = Top /\ UNCHANGED status
       \/ items = <<>> /\ status' = "failed" /\ UNCHANGED output

Stop == status = "run" /\ status' = "done" /\ UNCHANGED <<items, output>>

Next ==
    \/ Start
    \/ \E v \in Value : Push(v)
    \/ \E t \in Tag : Pop(t)
    \/ Peek
    \/ Stop

Spec == Init /\ [][Next]_vars
=============================================================================
