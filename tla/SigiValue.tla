------------------------------ MODULE SigiValue ------------------------------
(***************************************************************************)
(* The values of the Sigi runtime stack: sigi_value of runtime/sigi.c, a   *)
(* tag and a union.  The payload of a value is the field of the union that *)
(* the tag selects.                                                        *)
(***************************************************************************)
CONSTANTS Int32,      \* the 32-bit integers a program pushes
          Bool,       \* the booleans a program pushes
          Closure     \* the closures a program pushes (closure_t*)

Tag == {"TAG_I32", "TAG_BOOL", "TAG_CLOSURE"}

Value == [tag : {"TAG_I32"}, data : Int32]
            \cup [tag : {"TAG_BOOL"}, data : Bool]
            \cup [tag : {"TAG_CLOSURE"}, data : Closure]

\* The value sigi_push_closure stores for closure c.
ClosureValue(c) == [tag |-> "TAG_CLOSURE", data |-> c]

\* What malloc and realloc leave in memory nobody has written.
Undef == [tag |-> "undef", data |-> "undef"]
=============================================================================
