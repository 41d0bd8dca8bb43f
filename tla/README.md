# Sigi-MLIR in TLA+

Sigi is a small stack language. Its front end (another repository) emits MLIR in
two dialects of this repository, `sigi` (push and pop on a `!sigi.stack`) and
`closure` (boxed closures with explicit captures). Two passes lower these to the
LLVM dialect, and a C runtime gives the compiled program its value stack and
its reference-counted closures. These modules model the runtime, the code the
passes emit, the passes themselves, and the two dialects: their texts, and what
their operations promise to the rest of MLIR.

## 1. Inventory

| Part | State it keeps | Operations | Here |
|---|---|---|---|
| runtime stack, `runtime/sigi.c` | count, capacity, buffer of tagged values, heap blocks | init, free, three pushes, three pops, `pp` | `SigiStack`, modelled |
| closure runtime, `runtime/closure.c` | reference count of each closure, activations of a recursive drop | `closure_incr`, `closure_decr`, `closure_decr_then_drop`, `closure_check_drop` | `ClosureProgram`, modelled |
| code emitted for closures, `ClosureToLLVM.cpp` | captured fields; arguments of the worker | box, wrapper and worker call, generated drop function, check_drop | by references in `ClosureProgram`, by bytes in `ClosureLayout`, modelled |
| generated `main`, `SigiToLLVM.cpp:247-340` | the cell of the stack pointer | malloc, init, user's main, free stack, free | `SigiStack` runs it, `SigiLowering` makes it |
| `convert-closure-to-llvm`, `convert-sigi-to-llvm` | the module being rewritten: symbols, references, operations not legal yet | one pattern per operation, signatures, the renaming of `sigi::pp`, rejection | `SigiLowering`, `TypeConversion`, modelled |
| closure type conversion, `ClosureConversionUtil.cpp` | none | recursive conversion of types | `TypeConversion`, modelled |
| Closure dialect, `ClosureOps.cpp`, `.td` | an operation between text and IR | parse, verify, print a box and its return | `ClosureDialect`, partly; its traits in `StackValues` |
| Sigi dialect, `SigiOps.cpp`, `.td` | the names and types a parser knows | parse, print push and pop | `SigiDialect`; their meaning in `StackValues`, modelled |
| `sigi-opt`, `sigi-lsp-server`, dialect registration, template | none | hand over to MLIR | not modelled: no logic of their own |

How they interact. The generated `main` initialises a stack and calls the user's
main with it; every function and closure takes the stack and returns it.
`sigi.push` and `sigi.pop` of a closure count and uncount a reference; a capture
counts one; an SSA value counts none. `closure.check_drop` on a count of zero
calls the drop function in the closure, which the box lowering generated, and
that calls `closure_decr_then_drop` of the runtime for each captured closure:
runtime and generated code recurse into each other. The sigi pass runs the
closure patterns too, in the same conversion.

What is hard here. Nothing runs concurrently and nothing is persisted. The hard
behaviours are long sequences of legal operations: a recursive drop over a
shared graph of captures; a variable that holds a closure nothing counts; growth
of the buffer at a boundary; a failed allocation between two updates; names
given out while a module is half converted; and agreements nobody checks: pure
operations and a stack changed in place, a struct in C and one in LLVM, a call
through a pointer and the function behind it, a printer and a parser. `PROJECT.json` lists each under
`hazards` with its line and the properties that watch it.

What makes each part correct:

- the stack: a LIFO sequence of tagged values at every growth boundary; no read
  of memory that was not written; counts equal to slots; all blocks given back;
- closures: counts equal to counted references, also in the middle of a drop;
  each closure freed once, when nothing counted holds it; drops end; no variable
  dangles and nothing leaks if check_drop is emitted with care;
- the code in memory: generated code and runtime agree where the fields of a
  closure are, and stay inside its allocation;
- the dialects: the stack in place is the stack value the IR means; what is
  printed is read back the same; a verified box has the region the lowering
  relies on;
- the passes: symbols resolve, names are new, each box refers to its own code,
  the runtime function fits the type, unsupported input fails, and it ends.

## 2. Modules

**SigiValue** – tags and values (`sigi_value`). **ValueStack** – the abstract
specification: a sequence, `Push`, `Pop` for a tag, `Peek`, and failure.

**SigiStack** – the array. `status` follows the generated `main`: `MainMalloc`,
`sigi_init_stack`, any number of runtime calls, `UserMainReturns`,
`sigi_free_stack`, `MainFree`. `grow1` is three alternatives: room
(`StoreInPlace`), realloc succeeds (`GrowAndStore`), realloc fails
(`GrowFails`, after `closure_incr` as in the code). Slots realloc adds are
`Undef`. No malloc is checked, so each may end in a crash where the code first
writes through NULL. A pop takes the count down before it looks at the tag, and
the value returned is the field the pop asks for. `Abstract` maps the array
below the count to the sequence.

**ClosureProgram** – a program that uses closures. `frames` holds for each active
function the closures in its SSA values; `stack` the runtime stack (its array is
`SigiStack`'s business); `alloc`, `refcount`, `captures` the heap; `dropping`
the activations of `closure_check_drop` and `released` how far each generated
drop function has come. A drop is many steps (`ReleaseScalar`,
`closure_decr_then_drop`, `Free`); the program's own code waits meanwhile. The
program is any sequence of operations: `Box`, `CallClosure`, `CallFunction`,
`Return`, pushes, pops, `CheckDrop`, `Forget` (a variable dies without a
check_drop) and `UseStale` (a freed closure is used: undefined behaviour, the
program ends as `undefined`). A call passes the captures and any closures the
caller holds (`ArgLists`); `ReturnClosure` hands a closure back into a variable of
the caller. Neither is counted, as in the code (`ClosureToLLVM.cpp:430-447`,
`510-535`). Memory is never reused, so a dangling variable is
seen as one.

Which check_drops the program has is the front end's choice. With
`CarefulDrops = FALSE` it may do anything. `CarefulDrops = TRUE` is a discipline
that suffices: a check_drop is emitted only where no other variable of an active
function holds what it would free (guard of `CheckDrop`), and a variable that is
the last reference does not die without one (guard of `Forget`). So a front end
that drops too early or not at all is excluded by hypothesis, and
`VariablesLive` and `NothingLost` do not speak of it. Their content is the drop
itself: that runtime and generated code, step by step and through any shared
captures, free no more than the cascade of the check_drop and no less.

The discipline is an assumption about code that is not in this repository, and
the sandbox follows it only in part. `apply` in
`sandbox/captureRec/captureRec.ll:61-67` pops a closure, calls it and then
check_drops it, and `__main__` (69-82) checks the captured closure after its last
use. The inputs `captureRec.mlir`, `fibToLLVM.mlir` and `closureInlining.mlir`
have no `check_drop` at all: such programs leak, and are behaviours of
`closure_counts` only.

**SigiLowering** – a module in conversion. A source module is any choice of
functions (`decls`), operations (`ops`) and the function or box each is in
(`parent`). `todo` is what MLIR's driver still has to legalize: functions and
bodies in order, and the cloned region of a box right after the box (the order
of the names in `sandbox/captureRec/captureRec.llvm.mlir` confirms it).
`module` is the set of functions, with `dialect` and `origin`; two records with
one name are a clash. `uses` are the symbol references. `LookupOrCreate` is
MLIR's `lookupOrCreateFn`: it finds only functions of the LLVM dialect, so a
`func.func` not converted yet does not count, while `UniqueName` looks at all
symbols. `ConvertFunc` includes everything that happens before the driver goes
on: the function becomes `llvm.func`, a `sigi.main` gets its wrapper, the
declaration of `sigi::pp` is renamed with all its uses. The constant `Inputs` is
a set of families of modules, each with the pass that converts it; `pass` is the
one chosen. The closure pass leaves the other dialects (`Skip`) and cannot
convert a closure over `!sigi.stack`. A function whose signature does not convert
(`UnknownSignature`) and a branch that passes such a value fail the sigi pass.

**StackValues** – what the IR means against what the code does. A straight-line
body is built (`Build...`), run (`Exec...`), rewritten as MLIR may rewrite
operations declared `Pure` (`EraseDead`, `Merge`, `Move`, any number in any
order) and run again. A run computes both sides: `stacks` and `pure` are the
values of the IR, where a push makes a new stack value out of an old one;
`stack`, `regs`, `freed` are the runtime's, where every stack operand is the one
stack (`SigiToLLVM.cpp:168`, `206`). With `Linear = TRUE` the front end uses each
stack value once, as all code in the sandbox and the tests does. MLIR is external:
its three rewritings are modelled by what the trait permits.

**ClosureValues**, **ClosureObjects**, **ClosureLayout** – a closure in memory.
`ClosureObjects` is the abstract specification: objects with the code of their
box, a count, and captured values; a call hands captures and arguments to the
worker; a drop releases captured closures in order. `ClosureLayout` implements it
by a set of stores, each with address and size: a store destroys what it
overlaps, a load gives a value only if it reads the bytes of one store.
Generated code (`Box`, `ClosureCall`, the drop function in `Dropped`) places
fields by LLVM's rules for struct {ptr, i32, ptr, {captures}}; the runtime
(`closure_incr`, `closure_check_drop`...) reads count and drop pointer by C's rules for
`closure_t`. The refinement mapping reads each object out of the bytes as the
generated code would. An access outside an allocation sets `wild`, after which
nothing more is said of the run. `Resolved` says what the undefined size given to
malloc may turn out to be: enough, or zero for any size that is not. The run and
the proofs allow both, so in the run a box is also stored outside of its
allocation. `AccessesInBounds` is about offsets and padding only: it says
that nothing but an allocation smaller than its struct lets an access go astray.
That allocations are never smaller would be false of the code. `Chunk` is how far
apart malloc places closures: at least their size (`ChunkAssumption`).

**TypeConversion** – the types of one closure in a conversion. `Init` is any
box; its patterns (`ConvertBox`, `ConvertReturn`, `ConvertCall`) fire in any
order and leave the types of worker, wrapper, return and call site. `pass`
converts box and return, `caller` the call, which may be in another module that
the other pass compiled; if either fails there is no program. Several results
become a struct only if all are LLVM types (`Packable`). Types come in
`Levels`, by how deep closure types are nested; `Converter(p)` is the converter of
pass p, a function on all of them given by `Conversion`: the final conversion to a
pointer first, then, in the sigi pass, the generic one that gives another closure
type. `Verify` is what the LLVM dialect checks of the result, and
leaves out what it cannot: an indirect call.

**ClosureDialect** – `closure.box` between text and IR. A text is a record of types (and
whether arguments have names); `Parse` is `BoxOp::parse` with the rules of
MLIR's `parseRegion`, `Verify` is `ReturnOp::verify`, `PrintText` and
`PrintGeneric` are the two forms the test pipes into a second `sigi-opt`
(`test/Dialect/Closure/ops.mlir:1-2`). `Forms` says which texts there are:
arguments with names, as the printer writes them, without, a label on the entry
block, and generic text, which gives an operation with any region or none
(`GenericBoxes`). A box with fewer parameters than captures is printed by reading
parameters that do not exist (`PrintWithoutParams`, stage `undefined`).
`WellFormed` is what the lowering relies on; `SignatureKept` says which texts give
a verified box that is not.

**SigiDialect** – the lines of a function, parsed one by one. `defined` and
`forward` are what MLIR's parser knows of names; a use before the definition
promises a type. After the end the verifier checks dominance, the lines are
printed and parsed again.

Operators called "Mutant" in the modules are wrong variants of the operator next
to them. No specification uses them; each is what some property rules out.

## 3. Runs

| Run | Bounds | Distinct states | Shows |
|---|---|---|---|
| `sigi_stack` | capacity 2, at most 5 values, 2 closures | 73 854 | memory, counts, growth, refinement of `ValueStack` |
| `sigi_stack_leak` | capacity 4 | – | finding: the buffer is never freed |
| `closure_counts` | 3 closures, 2 variables, 2 captures, 2 slots, 1 frame, no care | 310 650 | exact counts, drop recursion, frees |
| `closure_careful` | 3 closures, 2 variables, 2 captures, 2 slots, 2 frames, closures as arguments and results, careful | 464 318 | no dangling variable, no leak, every drop ends |
| `sigi_lowering` | four families of modules, see below | 401 586 | names, references, types of runtime functions, own code of each box, rejection, termination, in both passes |
| `sigi_lowering_pointer` | LLVM pointers | – | finding: a pop calls `sigi_push_closure` |
| `stack_values` | bodies of at most 5 operations, 2 values on the stack at entry, any rewriting | 622 857 | the stack in place is the stack meant, also after rewriting |
| `stack_values_pure` | a box, a push, a check_drop; merging and moving | – | finding: a push behind the drop of what it pushes |
| `closure_layout` | 3 closures of 3 boxes, pointers of 4 and 8 bytes, sizes for malloc that are enough or not | 4 284 | one layout for C and LLVM, no access led astray by it, refinement of `ClosureObjects` |
| `type_conversion` | both passes, for box and caller each, 1 capture, 1 input, 2 results over 3 leaf and 5 closure types, 3 deep | 89 596 | call sites fit wrappers; what is supported is lowered |
| `closure_dialect` | 2 captures, 2 arguments, 1 result, 2 returned values, arguments with and without names, labels; generic text with any region or none | 144 707 | region and signature agree; round trip |
| `sigi_dialect` | 3 lines, 2 parameters, 4 names, 2 types | 198 711 | `value_type` is true; round trip |

Why the bounds are enough. Five values over capacity 2 grow the buffer twice, at
the first boundary and at one that a growth made. Three closures give sharing in
both forms (two fields of one closure, two closures with one field in common)
and a recursion two deep below a root; a fourth closure was tried in the careful
run (964 000 states) and adds no case. Two frames are a caller whose variables
the callee can endanger. `sigi_lowering` converts four families of
modules: two functions out of seven with two operations of every kind and type,
which gives each pattern a predecessor and a successor, before and after the
function they refer to; the same operations in one function under the closure
pass; four boxes and calls nested up to four deep, next to the declaration of
`sigi::pp` and a function with a generated name; and a function called `free` on
either side of the one with `sigi.main`. Deadlock is checked in every run: a
program or a conversion that has ended may only stutter.

Five operations are enough for two rewritings that enable each other (a pop is
dead after a merge, a move brings two equal operations together) with a push and a
pop of the same value around them. Three boxes of `closure_layout` capture nothing, fields
with padding in between and behind, and two closures (possibly one twice); three
closures make a drop that recurses. Struct offsets use an alignment of a type
equal to its size; a target with another rule changes where padding is, on both
sides alike. In `type_conversion` the nested types are a convertible closure, one
only the sigi pass converts, one neither does, and two of closures, one of them over
a type no pass knows: each branch of the two conversions at two levels, and a
closure type over either one level higher. In the dialect runs two captures and two
arguments tell any order or offset apart; three lines are a definition, a use before
and a use after it.

Closures are symmetric: no operation distinguishes them. `closure_counts` uses
that; `closure_careful` checks liveness and does not.

Fairness. `WF(DropStep)` in `ClosureProgram`: there is one thread, and inside a
drop it does nothing else. `WF(Step)` in `SigiLowering`: the driver is a loop
that runs until the work is done. No fairness is assumed of the program itself.

### Findings

- `sigi_free_stack` (`runtime/sigi.c:44`) frees the record and not its buffer
  (`sigi_stack_leak`).
- `getOrCreatePopFunc` (`SigiToLLVM.cpp:128`) has the name of the push function
  for LLVM pointers (`sigi_lowering_pointer`).
- `sigi.push` is `Pure` (`SigiOps.td:25`, `29`) and counts a reference: it may
  be moved behind a check_drop that then frees what it pushes
  (`stack_values_pure`). Line 26 grants that "the implementation is not pure
  though"; the trait is what MLIR goes by.

Other disagreements, met while modelling; the passing runs describe or exclude
them, as said here:

- The size of a closure is computed from `undef` (`ClosureToLLVM.cpp:146`), not
  from null as in the idiom the comment above it refers to: malloc may get any
  size, and the first store of a box need not fit. `Box` in `ClosureLayout` has both
  outcomes, and in `closure_layout` the invariant `~wild` would fail at the first store.
- `closure.box` is `Pure` (`ClosureOps.td:80`) and allocates: two equal boxes may
  become one closure, which the check_drops of both free. With `Merge` as the
  only rewriting and the kinds `box` and `check_drop`, `RewritingIsSafe` fails
  this way, on bodies of four operations.
- The generated `main` finds `free` and `malloc` by name (`SigiToLLVM.cpp:298`).
  `MainCallsRuntime` and `NamesClashOnlyForMain` say exactly when a program
  function takes C's place: it has the name and stands before the function with
  `sigi.main`; behind it, the names clash.
- `closure_t::invoke` (`closure.h:13`) is declared without the closure parameter
  that `insertClosureParameter` adds and `closure.call` passes.
- The generic conversion (`ClosureConversionUtil.cpp:46`: "to the underlying
  implementation type") makes closure types of closure types; `LeftOver` in
  `LowersWhatItSupports` names the signatures that keep one. It never fails, so
  `convert-sigi-to-llvm` turns a closure that takes or returns a closure into a
  pointer even if the inner one is over a type it cannot convert
  (`HidesWhatIsInside`): such a program is accepted, where
  `convert-closure-to-llvm` fails. That no unsupported type is ever accepted is
  therefore not true of the code: with `Supported(p, ty)` alone in
  `LowersWhatItSupports` TLC finds a capture of such a type.
- Closures of several results, documented in `ClosureOps.td:150-161`, are lowered
  to `llvm.return` and `llvm.call` of several values (`ClosureToLLVM.cpp:439`,
  `532`), which do not verify: `LowersWhatItSupports` says that only these and the
  signatures of `LeftOver` end so.
- A box with unnamed arguments or a labelled entry block verifies without the
  parameters its type promises (`ClosureOps.cpp:170`): two of the exceptions in
  `SignatureKept`. The third is generic text, where nothing compares region and
  signature: a region with other parameters, or none. The printer prints an empty
  region (`ClosureOps.cpp:302`), which the parser rejects (`166-167`), and for
  each capture reads a parameter of the region that need not exist (`237`).
- `res_attrs` in the attribute dictionary (`ClosureOps.cpp:147`) may have any
  length; the printer asserts one per result (`200-202`). Not modelled.

## 4. Proofs

Each theorem holds for every value of the constants that the ASSUMEs of the
modules allow; what it needs beyond them is a hypothesis in its statement (the
column "if"). Every invariant and every action property and refinement that a
passing run checks is in the table; the two liveness properties are not.

| Module | Theorem | Property | if |
|---|---|---|---|
| `SigiStackProofs` | `StackTypes` | `TypeOK` | |
| | `StackMemorySafe` | `OccupiedSlotsWritten` | |
| | `StackReferencesCounted` | `SlotsCounted` | |
| | `GrowthIsHarmless` | `GrowthKeepsValues` (steps) | |
| | `StackImplementsSequence` | `ImplementsValueStack` (refinement) | |
| `ClosureProgramProofs` | `ClosureTypes` | `TypeOK` | |
| | `ReferenceCountsCorrect` | `RefCountExact` | |
| | `CountedReferencesLive` | `CountedRefsLive` | |
| | `DropsNest` | `DropChain` | |
| | `FreesOnlyUnreferenced` | `FreeOnlyUnreferenced` (steps) | |
| | `NoDanglingVariable` | `VariablesLive` | `CarefulDrops` |
| | `NoClosureForgotten` | `NothingLost` | `CarefulDrops` |
| | `NeverUndefined` | the status is never `undefined` | `CarefulDrops` |
| `SigiLoweringProofs` | `ConversionComplete` | `ConvertsAllOrFails` | |
| | `LoweringTypes` | `TypeOK` | |
| | `SymbolsAlwaysResolve` | `SymbolsResolve` | |
| | `MainIsLinked` | `MainCallsRuntime` | |
| | `BoxesKeepTheirCode` | `BoxesOwnTheirCode` | |
| | `RuntimeCallsFit` | `RuntimeFunctionFits` | `NoPointerPops` |
| | `NamesDoNotClash` | `NamesClashOnlyForMain` | `ReservedNames` |
| `StackValuesProofs` | `StackValueTypes` | `TypeOK` | `Linear = TRUE` |
| | `StackInPlace` | `InPlaceAgrees` | `Linear = TRUE` |
| | `RewritingKeepsLinear` | `StacksStayLinear` | `Linear = TRUE` |
| `ClosureDialectProofs` | `BoxTypes` | `TypeOK` | |
| | `SignatureIsKept` | `SignatureKept` | |
| | `BoxSurvivesPrinting` | `RoundTrip` | |
| `SigiDialectProofs` | `DialectTypes` | `TypeOK` | |
| | `AttributesTrue` | `ValueTypesTrue` | |
| | `PrintedIsRead` | `RoundTrip` | |
| `ClosureLayoutProofs` | `TypesHold` | `TypeOK` | |
| | `AllAccessesInBounds` | `AccessesInBounds` | |
| | `BytesAreObjects` | `ImplementsObjects` (refinement) | |
| `TypeConversionProofs` | `TypesHold` | `TypeOK` | |
| | `CallsFit` | `IndirectCallFits` | |
| | `SupportedIsLowered` | `LowersWhatItSupports` | |
| | `ConversionIsStable` | `ConversionStable` | |

### Hypotheses

`CarefulDrops` is the discipline of check_drop described in section 2; the run
`closure_careful` has it, and without it the properties are false. `NoPointerPops`
leaves out pops of raw LLVM pointers: with them the property is false, which is
the second finding. `ReservedNames` says that no function of the program is
called `main`, `sigi_builtin__pp`, or like a function of the runtime that only
lowered operations call, and that a program with boxes has no `malloc`. Nothing
in the passes checks that; a function of such a name is taken for the runtime's
or clashes with it. The inputs of the run satisfy it (they do have a function
called `free`, which it allows). `Linear = TRUE` is what the sandbox, the tests
and the lowering itself presuppose: the runtime has one stack. `ClosureLayoutProofs`
has no hypothesis about the size malloc gets: it is any of the two.

The assumptions on constants used in `ClosureLayoutProofs` are those of the code
and of malloc: boxes have names of their own (the lowering takes new ones) and
lists of types (`BoxAssumption`), pointers have 4 or 8 bytes, and two allocations
do not overlap (`ChunkAssumption`). `TypeConversion` assumes of its constants only
what types there are; their depth (`MaxDepth`) and the lengths of the lists of a
box are any numbers.

### Arguments

*Stack.* `IInv` is `TypeOK`, `OccupiedSlotsWritten` and `LifeCycle`. The last is
the strengthening: while the program runs the capacity is positive, so doubling
it makes room for the slot about to be written; without it `GrowAndStore` on
capacity 0 would write outside. Counts are cardinalities of slot sets: lemmas say
that a push adds one element and a pop removes one. For the refinement, `AbstractStep`
says per action what it does to `AbstractItems` (`PushedItems`, `PoppedItems`).

*Closures.* `IInv` is `TypeOK`, `RefCountExact`, `CountedRefsLive`, `DropChain`
and `Allocations` (finitely many live closures, so cardinalities mean something;
an unused closure has released nothing; no drop is left when the program has
ended). None of these is inductive alone: that a freed closure leaves no
reference behind needs that its count is zero (`DropChain`) and that counts are
exact; that a drop never meets a closure already being dropped needs that a
closure in the chain has count zero and so no reference (`DroppedFacts`).
`CountedRefsLive` is proved as `NoDangling`, the same said of all closures that
are not live (`LiveIffNoDangling`). All of it holds for both values of
`CarefulDrops`, that is, whatever the front end emits.

*Variables.* A variable holds an uncounted reference, so what protects it is not
the heap but the moment of the check_drop: the closures the cascade will free
are those that lose all their references with the root, and none of them may be
in a variable. A call and a return copy or move variables
between frames, so they hold no closure that was not held before (`HoldersHandedBack`
for what returns). Between two steps of the cascade this must still be known.
`DropUnseen` says it: there is a set of live closures that no variable holds,
that contains the activations, and that is closed under what the drop can still
free. The careful check_drop provides the set, each step of the drop keeps it,
and `Free` only takes members of it. `ReleasedInDrop` (only closures being
dropped have released captures) makes a call safe: the captures that a worker
gets are all still counted. `CarefulInv` is `IInv` with these two,
`VariablesLive` and `NothingLost`.

*Passes.* `OrderInv` relates the source module (which no step changes), `todo`
and what is lowered: an operation is lowered, or waiting, or inside one that is
still to be reached. That everything is reached when `todo` is empty is an
induction over the nesting of boxes, done as a least counterexample (`LeastNat`:
a nonempty set of naturals has a least element), since parents come before the
operations in them. `SymbolInv` describes all functions of the module by where they
come from, and is kept together with `SymbolsResolve`: a name that
`getUniqueFunctionName` gives out is new when given, and stays so because every
later symbol is looked up, new itself, or of the runtime. A generated name has
one number, and a number one name, so two boxes never share code. `ClashInv`
says which pairs of one name can arise: a declaration for `main`, then the
conversion of a function that stands behind it.

*Stack values.* The hard fact is that one stack changed in place is enough.
`StackInv` has three parts. `BodyInv`: ids are unique, operands are defined
before, each stack value is used at most once. `RetInv`: exactly one stack value
is produced and not consumed, the one returned: each operation on a stack takes
one and gives one, and every rewriting has to keep it. `AgreeInv`: at each moment of a run there is one open
stack value, and the runtime's stack is what it means. A rewriting is handled by
one lemma (`Rearranged`). With linear use the rewritings lose much of their
force: what is erased or merged is always a box, since the stack result of a push
or pop is used, and two of them cannot have the same operand; `Move` swaps
neighbours that do not depend on each other.

*Dialects.* Both invariants say what the IR is in terms of the text: `BoxInv`
that the operation is what `Parse` makes of the text, or came from generic text,
and that what was printed is still there or is what is being read;
`DialectInv` that each line read has given one operation whose names are
defined with its types, that each name used is defined or promised, and, when reading
the second time, that the lines read so far are a prefix of those printed.

*Bytes and objects.* `Holds` says what the memory is: there are functions `box`,
`count` and `fields` on the live closures, and `mem` is exactly the cells of
these, one for each header field and each capture (`MemoryIs`). The layout lemmas
give what a closure needs of its bytes: fields grow (`OffsetsGrow`, for any list of
captures), the header is where C has it (`HeaderFacts`), all is inside the
allocation (`FullFacts`), so no two cells overlap (`CellsApart`). A load then finds the one cell it
asks for (`Loads`), a store replaces one cell (`StoredIs`, `CountsStored`), a new
closure adds its own (`BoxedStored`), free takes its own away (`HeapWithout`).
`ReadsBack` says that the refinement mapping yields `box`, `count` and
`fields` again, and each action is one lemma that gives `Holds` after it, accesses
inside unless malloc got too little, and the step of `ClosureObjects` (`CountStep`, `CallStep`, `CheckDropStep`,
`ReleaseStep`, `FreeStep`, `BoxStep`).

*Types by depth.* What a converter does to a type is an induction over how deep its
closures are nested. It is done level by level, as a least counterexample: that the recursive
definitions of `Levels` and `Converter` define functions at all
(`LevelsDefined`, `ConverterDefined`); that a conversion gives a type of LLVM or,
in the sigi pass, a closure type of the same level, which it leaves alone
(`StaysConverted`; the list of a closure type that stays one is converted, and
what had no conversion still has none); that types with only supported leaves become types of LLVM
(`SupportedLowered`), and, conversely, which leaves a converted type may have
(`ClosureNeedsSupported`, `SigiNeedsShallow`). The invariant `Inv` is then simple: each
thing emitted is what its pattern makes of the box, in whatever order, and a
verdict has its reason (`Justified`). That rejected code has several results or a closure
type left is proved by going through all the verifier asks (`RejectedForCause`).

`ClosureDialect` assumes that its markers ("no body" and the like) are not types,
and `MaxList` is a natural number; no theorem uses another property of them.

### Only model-checked

- Liveness (`DropTerminates`, `ConversionEnds`): out of the prover's reach.
- The findings are counterexamples of TLC.

## 5. Not modelled

The contents of scalars, arithmetic and other dialects; the width of the
reference count, which is an unbounded integer here; scalar arguments and results
of calls; depth of the C stack;
MLIR's rollback of a failed conversion (the result of a failed pass is not used);
blocks and the order in which branches run; the front end. What `sigi::pp` prints
of a closure includes its count, which the IR does not determine; `StackValues`
compares the rest. Attributes of operations other than `value_type` and
`res_attrs`; the custom printers of push and pop drop them. `closure.call` and
`closure.check_drop` are parsed and printed by generated code. Pushes and pops
read in generic form, and the lowering of a box whose region does not fit its
signature, are left out: nothing in this code checks them. Optimisations other than the three
that `Pure` licenses. A user function called `main`
is left out of the modules of the runs: the front end writes `__main__`.

## 6. Plan

The order the work was done in; all of it is done.

1. `SigiStack` against `ValueStack`, with proofs.
2. `ClosureProgram`: counts and drops, with proofs.
3. `ClosureProgram` under `CarefulDrops`: dangling variables, leaks.
4. `SigiLowering`: both passes, nested boxes, branches, signatures, findings.
5. `StackValues`: pure operations against one stack changed in place.
6. `ClosureLayout` against `ClosureObjects`.
7. `TypeConversion`.
8. `ClosureDialect` and `SigiDialect`.
9. Proofs for `SigiLowering`: completeness, symbols, names.
10. Proofs of `VariablesLive` and `NothingLost` under `CarefulDrops`.
11. Proofs for `StackValues`: in-place agreement, linearity under rewriting.
12. Proofs for both dialects.
13. `ClosureLayout`: the layout of any list of captures; from that, what the
    memory holds, `AccessesInBounds` and the refinement.
14. `TypeConversion`: the converter on types of any depth; all four invariants.
