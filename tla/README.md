# charcoal in TLA+

charcoal is a small scripting language: source text is lexed, parsed, constant-folded
and compiled to a register bytecode (`.cbc`), which is loaded, verified and interpreted
over a generational, moving garbage collector. These modules specify that pipeline from
the first byte of the source to the last step of the run, the heap under it and the
builtins beside it, check them with TLC on small instances, and prove the central safety
properties with TLAPS for every instance.

Paths below are relative to the repository's `src/` (`heap.cc` is the collector).

## 1. The system

```
 source ─lex─► tokens ─parse─► tree ─fold─► tree ─compile─► Module ─serialize─► .cbc bytes
 (Lexer)       (Parser)         │   (Optimize)   (Compiler)                        │
                                ▼ fmt                                     load_cbc │ (Loader,
                             (Format)                                              ▼  Serialize)
                                                          dis ◄──────────── Module (Bytecode)
                                                        (Disasm)                   │ verify (Verifier)
                                                                                   ▼
                                    builtins ◄────────────────────── run() (Interp, Machine)
                              (Builtins, Natives) ───────► Heap ◄──────┘
```

| component | state it keeps | operations | what must hold |
|---|---|---|---|
| Heap (`heap.cc`) | two semispaces, old arena, headers (`age`, `fwd`, `mark`), `remembered_`, handles, a root enumerator | allocate (`bump`), `write_barrier`, minor collection, promotion, compaction | no reference the program can see dangles; old-to-young edges are remembered; an object stays one object; to-space suffices; collections end |
| Builtins (`native.cc`) and container instructions (`interp.cc`) | C++ locals, handles | some 200 functions; about half of them allocate | no pointer outlives an allocation; every store into a container goes through the barrier; the result is what the name says |
| Interpreter (`interp.cc`) | frames with registers, instruction count | one instruction per iteration, call, return, raise | accesses of an accepted module are in range; returns go where the call was; limits hold; every run ends |
| Verifier (`verifier.cc`) | pc, instruction starts, pending jumps | pass 1 (decode), pass 2 (jumps) | accepts exactly the well-formed functions |
| Loader (`loader.cc`), serializer (`module.cc`) | a cursor, the tables so far | guarded reads, one record at a time | reads stay in the buffer; inverse of each other; truncated files do not load |
| Lexer (`lexer.cc`) | position, line state | `lex` | terminates; longest match; nothing lost; positions right |
| Parser (`parser.cc`) | token position, depth | recursive descent | precedence; bounded recursion; every error reported |
| Constant folder (`optimize.cc`) | none | `fold_constants` | programs still print and fail the same |
| Compiler (`compiler.cc`) | scopes, registers, code, patch lists | lower the tree | the code verifies and does what the tree means |
| Formatter (`astprint.cc`) | none | `format_source` | its text parses back to the tree |
| Disassembler (`disasm.cc`) | pc | one line per instruction | lines tile the code; agrees with the verifier |
| VM facade (`vm.cc`), command line (`cli/main.cc`) | none | compose the above | only what was accepted is run |

Interactions. `run()` hands its frames to the heap as a root enumerator (a callback by
reference); every allocation may collect, move every object and rewrite every register.
Builtins and instructions must re-read what they hold after an allocation and call
`write_barrier` after a store. The verifier and the interpreter share no data but an
agreement: the interpreter makes no bounds check that the verifier has already made; the
loader delivers only modules of the shape both assume. The compiler must emit what the
verifier accepts; folder and interpreter must compute alike; formatter and parser must
be inverse.

There are no threads and nothing is persisted between runs. What is hard is *moving
memory in the middle of somebody else's operation*, *contracts between two passes that a
test only samples*, *limits and boundary arithmetic*, and *bytes nobody checked*.
`PROJECT.json` lists every hazard at its line with the property that would catch it.

## 2. The modules

| module | models | notes |
|---|---|---|
| `Heap` | `heap.h`, `heap.cc` | one action forwards one pointer slot |
| `HeapInv` | | properties of `Heap`, inductive invariant `IInv` |
| `ObjectGraph`, `HeapGraph` | | abstract graph of objects with identity and no addresses; `Heap` with a ghost identity per cell, and the refinement `ImplementsGraph` |
| `Builtins`, `BuiltinCalls` | container code of `interp.cc`, `native.cc`, `heap.cc` | calls as micro-steps on `HeapGraph` |
| `Numbers`, `Texts`, `Arrays`, `Natives` | `native.cc` | what builtins compute, and laws about it |
| `Bytecode`, `Opcodes` | `module.h` | modules, opcodes by layout class, operand reading |
| `Verifier` | `verifier.cc` | one instruction, then one jump per step |
| `Interp` | `interp.cc` | one iteration of the dispatch loop per step; a value is a type and a truthiness |
| `VM`, `VMInv` | `vm.cc` | verify, then run what was accepted; properties and `IInv` |
| `Disasm` | `disasm.cc`, `cli/main.cc` | one line per step; verify, run and list one module |
| `Loader`, `Serialize` | `loader.cc`, `module.cc` | one field per step; `serialize` and its agreement with the loader |
| `Values`, `Ast` | `value.h`, `value.cc`, `ast.h` | arithmetic, comparison, truthiness; tree nodes |
| `Optimize`, `Compiler` | `optimize.cc`, `compiler.cc` | operators from trees to trees and to modules |
| `Machine` | `interp.cc` | `Interp` with concrete values, containers and output |
| `Reference` | | what a tree means, by evaluation: no registers, jumps or constants |
| `Toolchain` | `vm.cc` | compile, verify, run, and compare with `Reference` |
| `Lexer` | `lexer.cc` | one byte per step of each loop |
| `Parser`, `Format` | `parser.cc`, `astprint.cc`, `cli/main.cc` | operators on token sequences; parse, print, parse again |
| `HeapSafetyProofs`, `HeapGraphProofs` | | the heap's types, invariant, safety and marking; its refinement of `ObjectGraph` |
| `VMSafetyProofs` | | the VM's types; the verifier's sweep and its verdict, the interpreter, the disassembler |
| `LoaderProofs`, `LexerProofs` | | loader and serializer; lexer |
| `BuiltinSteps`, `BuiltinProofs` | | the discipline every builtin's steps keep; what it is worth on the moving heap |
| `Induction` | | induction over the naturals as a fact about sets, for the other proofs |
| `MC*` | | inputs for TLC |

**Heap.** Memory is an array of cells; every object takes one cell and has `NFields`
pointer fields. `from`, `top`, `to_top`, `old_top`, `kid`, `age`, `fwd`, `mark`,
`remembered`, `remembered_next`, `over_cap` are the fields of the same names (`from_`,
`top_`, ...); `roots` is the handle stack and the register files. The mutator moves,
loads, stores (with the barrier) and allocates; `AllocCollects` enters a collection, which
runs to `Resume`. `phase` is the program counter of `collect_minor` and `compact_old`, and
`rem`, `slot`, `young_child`, `yscan`, `old_scan`, `cursor`, `new_top` are their locals.
Abstracted: sizes and alignment, object kinds (which differ only in how many pointers they
trace), the order of the mark stack. `stale` is a ghost that becomes TRUE when a
compaction leaves an entry of `remembered_` at an old address (section 4), after which the
code's guarantees do not hold; `over_cap` is the code's own sticky flag, after which the VM
raises. `Sound == ~over_cap /\ ~stale`: the invariant and most properties speak about
executions up to that point. `SpillRemembered` goes on: the collection that sets `over_cap`
because the old arena is full, so that promotion spills to the young space, must still
remember the edges it leaves.

**Builtins.** A call is a sequence of micro-steps (allocate, read a register or handle,
load, store, barrier, set a length) on C++ locals, in the order of the code. A collection
may begin inside any allocation; it updates roots and handles and not locals, so that a
local read before it is outdated (`fresh` is the ghost that tells; `stale_use` and
`null_use` are the ghosts that a step followed an outdated or a null local). A string's bytes,
numbers and key copies in `std::string` do not move and are not steps. Slots and entries
take one cell each whatever their capacity; `NFields` bounds a container's length;
`kInitCap` is scaled from 4 to 1 so that growth happens at once. `expect` is what the
call should do to the values the registers show, computed from the values before it.
A register number 0 as destination means the result is dropped. Containers are not put
into themselves. After the heap has run out (`over_cap_`), calls go on to their failure.

**Numbers, Texts, Arrays.** Operators of the builtins' names from arguments to
`Value(v)`, `Error` or `Crash` (undefined behaviour). Integers have `Bits` bits and wrap
where the code casts to unsigned; lengths have `LenBits` and wrap where the code adds or
doubles them (a result shorter than what is stored into it is a `Crash`). Strings are sequences of bytes.
Arguments have the types the builtin asks for (the type errors come before everything
else in the code), and numbers are integers small enough that a double holds them.

**Verifier, interpreter, VM.** Code is a sequence of bytes, so operand bytes can look
like opcodes and truncated or overlapping instructions exist. `is_start` is the code's
local, kept per function so that what was established can be stated. In `Interp` a value
is its type and truthiness, all it branches on; a closure is also a reference to its
closure object. Containers and builtins deliver any value; allocation succeeds or raises
"out of memory". A raised error ends the run, so what the failing instruction did to the
dying frames is left out. `Machine` makes every one of these choices concrete.

**Compiler, parser and their kin** are operators: sequential code without anything that
could interrupt it. The order in which the code emits, interns, numbers registers and
fails is kept, and the module it makes is compared byte for byte by being run. `Toolchain`
and `Format` compose them; their CONSTANT operators (`CodeOf`, `Meant`, `parse_source`,
`format_tree`) are the stages, and every cfg gives them the one definition there is.

**Loader.** A field is kept as its bytes; `Num` is its value where the code compares
it. A read past the end yields zero, sets `bad` and leaves the cursor, as in `Reader`.
`AsBytecode` maps what was loaded to what `Bytecode` calls a module.

**Lexer.** `mode` is the loop it is in. Which operator a token is, and a number's
value, follow from its text and are left to it; `Fits` stands for `std::stoll` and
`std::stod` not throwing.

## 3. The runs

| run | bounds | shows |
|---|---|---|
| `heap` | 3 cells per arena, 2 roots, 1 field, 9 mutator operations | the inductive invariant, the safety properties, the refinement of `ObjectGraph`, every collection ends |
| `heap_stale` | same, 11 operations | *violation*: a compaction loses a remembered entry |
| `builtins` | 13 cells, 3 registers, 2 fields; 12 shapes of heap, any 2 of 24 calls | no outdated pointer is used, each call has its effect, stores with barriers are remembered, cursors stay in their array |
| `builtins_barrier` | 6 cells, 3 calls | *violation*: `split` stores without a barrier |
| `natives` | 6-bit integers; 5-byte strings; 4-element arrays; 60 000 argument tuples | 84 results per law set: exact integers, string and array laws |
| `commands` | byte strings up to 4 of a 10-byte alphabet (6 of 4 for calls and closures), programs of 4 of 8 snippets, every opcode; budget 9, depth 3 | exact verdict, accesses in range, the inductive invariant, calls nest, disassembly agrees, termination |
| `loader` | 4 modules with every record; every prefix, extra bytes, every byte replaced by 7 values | round trip, truncation rejected, canonical form, cursor in bounds, what loads is a module |
| `toolchain` | nine thousand programs; limits scaled (10 registers, 8 constants, jumps of 80 bytes), 8-bit integers | exactly the legal programs compile, they verify, fit and do what they mean |
| `tool_clobber` | programs that assign a container or logical value over its own variable | *violation* |
| `formatter` | every statement around nested expressions, chains of three operators, all token strings of up to four of 11 kinds | text parses back, keeps every token, groups by precedence |
| `fmt_starts` | statements whose leftmost part is any small expression in parentheses | *violation* |
| `lexer` | all texts of up to 3 characters of 16, up to 6 of 4 | in order, longest, nothing lost, located, returns |

Why the bounds are enough to be interesting. Two cells per arena already give promotion
(`PROMOTE_THRESHOLD` is kept), spilling, re-remembering and aliasing; three give a slide
past a hole and a holder that moves while it is remembered. The builtins' heaps begin with
every amount of garbage from none to a full nursery, so that the collection begins at
every allocation of every call, and two larger amounts promote the containers first. The
byte alphabet holds one opcode of every layout, registers below and above the limit, and
both bytes of a negative offset; a depth of 3 separates caller, callee and callee's callee.
Damage bytes go up to 127 because a larger top byte of a length exceeds TLC's integers;
the proofs cover all 256. Six-bit integers have both extremes, every sign and every
overflow within reach of every pair; `LenBits` 3 puts a length's wrap next to the arrays.

Named bounds: `RemBound` stops stores that would log once the remembered set has that
length; `Fuel` bounds mutator operations, never the collector (in `Toolchain` it bounds
calls and iterations of the reference, and outputs are then compared as prefixes);
`MaxAge` is where `age` saturates; `MaxCalls`, `NFields`, `NHandles` as above; `max_insns`,
`max_depth` are the code's own.

Constraints. `heap` has `CONSTRAINT NotStale`, `builtins` has `Intact`: they cut executions
where the code has met a defect of section 4 or, in `builtins`, has given up. In `heap` a
collection that sets `over_cap` runs to its end. Within the run's bounds the old frontier
spills, but no remembered holder does, so that `ImplementsGraph` holds there too; it is
promised, and proved, only while `Sound` (section 4 says what else can happen).
`CHECK_DEADLOCK FALSE` stands where the system stops: the mutator's fuel or calls run out, a heap over its cap is never
called again, a question has been answered. The other runs check deadlock.
`VerdictExactOnShort` compares on functions of at most six bytes, since the definition of
well-formedness tries every set of boundaries; `VerdictDecides` proves it of all.
`NothingDangles` and its kin speak of safepoints.

Fairness. `Heap`: weak fairness of `Collector`, since a collection is one synchronous
call inside `bump()`; the mutator has none, a program need not allocate. `Disasm`: weak
fairness of `Verify \/ Run`, `run_cbc` being one sequential call. `Lexer`: weak fairness of
its step, `lex()` being one call.

Every property of a passing run has a mutant in `PROJECT.json`: a plausible bug in one
definition with which TLC finds that property violated. The `Faulty` definitions in the
modules are those mutants.

## 4. Where code and comments disagree

With a run that shows it:

1. `compact_old` updates handles, roots, young survivors and marked old objects but not
   `remembered_` (`heap.cc:425`), although its comments say every pointer into the old arena
   is updated. A remembered holder that slides is no longer remembered; the next minor
   collection moves its young child without updating the holder (`heap_stale`).
2. `split`, `lines`, `chars`, `partition`, `zip`, `zip3`, `enumerate`, `entries`, `chunk` and
   `unzip` store fresh objects into a rooted result without `write_barrier`
   (`native.cc:512`), which `heap.h:57` says every store calls. Once a collection has
   promoted the result, the next one loses the element (`builtins_barrier`). `StoresRemembered`
   is the same property for everything else, and holds.
3. An assignment to a local compiles its value straight into the variable's register
   (`compiler.cc:478`), and logical operators and container literals write that register
   before they have evaluated all operands: `x = [x]` puts the array into itself, against
   `compiler.cc:594` (`tool_clobber`). `Agrees` excludes exactly these (`Clobbers`).
4. The formatter drops parentheses (`astprint.cc:322`): a statement `({}).f;` then begins
   with a brace and reads back as a block (`fmt_starts`). `Reparses` excludes exactly these.

Without a run of their own (each is left out of a property by a named condition, or is
harmless):

- Interning merges the two zeros (`compiler.cc:70`): `1/0.0` and `1/-0.0` in one program
  give the same infinity. `MixesZeros` keeps such programs out of `Agrees`, so no property
  covers this hazard.
- Some literals change when printed: doubles of more than six decimals, strings with a
  carriage return. `Altered`.
- The parser counts calls, not the tree's height (`parser.cc:295`): loops make trees
  higher than the limit, whose printed form is then rejected with "nesting too deep".
- A token's position is wrong after a string of several lines or an escaped newline
  (`lexer.cc:56`). `Located`.
- `interp.cc:548` says the verifier prevents an unknown builtin. It only checks that the
  name is a string; the interpreter then raises an error.
- `loader.cc:19` says every read returns 0 once `bad` is set; a narrower read after a
  failed one returns input bytes. The record is dropped anyway.
- `next()` on an iterator whose array was popped yields the old elements: the cursor
  keeps the length of when it was opened (`native.cc:694`), and stays within the slots.
- `chunk` cuts its size to 32 bits (`native.cc:1525`): 2^32 divides by zero, 2^32 - 1 gives
  no chunk at all. `range`'s count wraps when span and step exceed 2^64
  (`native.cc:1042`). `ChunkLaws`, `TripleLaws`.
- `intersperse` doubles a length in 32 bits (`native.cc:2124`): beyond 2^31 elements it would
  store behind the result, but the heap of a run is 8 MB (`vm.cc:39`).
- `sort` and its kin compare integers as doubles (`native.cc:653`): distinct ones beyond
  2^53 count as equal, and a NaN breaks the order `std::sort` requires.
- `copy_promote` sets the sticky `over_cap_` although the object spills to the young
  space (`heap.cc:151`).
- `heap.cc:56` lets `write_barrier` log a holder at every store, since "scan tolerates
  repeats". It does unless the old arena is full when the remembered set is traced: a spilled
  copy carries no forwarding address, so the holder's second entry copies the copy, the holder
  has one object and a register the other. (With `Semi = 2` and `Fuel = 12`, `OneCellPerObject`
  without its premise `~over_cap` fails so.) The VM stops with "out of memory" soon after,
  the spill having set `over_cap_`.

## 5. What is proved

All theorems are about the specification and hold for every value of the constants.

| theorem | statement | argument |
|---|---|---|
| `HeapSafetyProofs!TypeCorrect` | `Spec => []TypeOK` | inductive once it says that `slot` indexes what the phase walks over and `new_top <= cursor` |
| `HeapSafetyProofs!Invariance` | `Spec => []IInv` | see below |
| `HeapSafetyProofs!NoPointerDangles` | `Spec => []NoDangling` | from `IInv` |
| `HeapSafetyProofs!RememberedSetComplete` | `Spec => []RememberedComplete` | from `IInv` |
| `HeapSafetyProofs!ToSpaceHasRoom` | `Spec => []ToSpaceSuffices` | from `IInv`, counting: a copy fills one cell and takes one object from those left |
| `HeapSafetyProofs!MarksExactly` | `Spec => []MarkPrecise` | what is marked is reachable (`MarkedReachable`), and `IInv` has nothing reachable unmarked |
| `HeapGraphProofs!HeapImplementsGraph` | `GSpec /\ []Sound => ImplementsGraph` | see below |
| `HeapGraphProofs!NoObjectTwice` | `GSpec => []OneCellPerObject` | from the same invariant |
| `BuiltinProofs!NoStalePointerUsed` | `BSpec /\ []Intact => []NoStaleUse` | see below |
| `BuiltinProofs!NothingReclaimed` | `BSpec /\ []Intact => []NothingDangles` | from the same invariant |
| `BuiltinProofs!BarriersSuffice` | `BSpec => []StoresRemembered` | from the same invariant |
| `BuiltinProofs!BarrieredCallsAreSafe` | `BSpec => [](NotStale /\ ~sloppy => NoStaleUse /\ NothingDangles)` | the first two, their proviso discharged by the third |
| `VMSafetyProofs!Invariance`, `!TypeCorrect` | `Spec => []IInv`, `[]TypeOK` | see below |
| `VMSafetyProofs!VerifierSound` | `Spec => []AccessesInRange` | from `IInv`: the verifier is sound for the interpreter |
| `VMSafetyProofs!CallsNested` | `Spec => []CallsNest` | inductive given `IInv`: a step keeps, replaces, pushes or pops the top frame, and only a call pushes |
| `VMSafetyProofs!VerdictDecides`, `!VerdictDecidesShort` | `Spec => []VerdictExact`, and the checked form | see below: the verdict is exact for code of every length |
| `VMSafetyProofs!ListingHasNoGap` | `CSpec => []LinesTile` | `WalkInv`: the lines so far end where the next one begins |
| `VMSafetyProofs!ListingAgrees` | `CSpec => []AgreesWithVerifier` | `FollowInv`: in accepted code the lines so far are the verifier's starts up to the cursor |
| `LoaderProofs!Invariance` | `Spec => []IInv` | types, cursor, progress of the two tables |
| `LoaderProofs!ReadsInBounds`, `!LoadSound` | `[]CursorInBounds`, `[]LoadedWellFormed` | from `IInv` |
| `LoaderProofs!LoadDelivers` | `Spec => []LoadedIsModule` | from `IInv`: discharges `ModulesAssumption` of `Bytecode` |
| `LoaderProofs!LoadedAsWritten` | `Spec => []Canonical` | see below |
| `LoaderProofs!LoadsWhatWasWritten`, `!RefusesTruncated` | `Spec => []RoundTrip`, `[]TruncationRejected` | see below |
| `LexerProofs!LexerInvariant` | `LSpec => []LInv` | each loop's lexeme starts before the cursor; tokens end before both |
| `LexerProofs!TokensInOrder` | tokens are in order, apart, inside the source | from `LInv` |
| `LexerProofs!NoByteLost`, `!PositionsTrue`, `!MatchesLongest` | `LSpec => []NothingLost`, `[]Located`, `[]LongestMatch` | see below |

Assumptions: `HeapAssumption` (positive sizes), `BuiltinsAssumption` and `CallsAssumption`
(registers, handles for the deepest use, two fields for a map; calls have as many
arguments as their builtin reads), `Bytecode`'s `ModulesAssumption` (modules
are well-typed records, which `LoadDelivers` shows of the loader), `LimitsAssumption`,
`NativesAssumption`, `InputsAssumption` (inputs are byte strings), the lexer's (sources
are sequences; `AlphabetAssumption`: letters and digits are apart from each other and from
everything the lexer names, as `is_alpha` and `is_digit` have it) and `Serialize`'s
`ModulesAssumption` (what is serialized has lengths that fit their 32 and 16 bits, payloads
as long as their tags say, and functions and an entry that exist, named by strings; the
casts of `module.cc` lose the rest). TLC evaluates each on the run of its module. `TypeOK`
is a conjunct of every `IInv` that TLC checks.

**The VM's invariant.** `AccessesInRange` says nothing of how a frame came to its pc. The
strengthening has two halves. `VerifierInv`: during pass 1 the starts found form an
unbroken chain from 0 to `vpc` (`Swept`: every start's instruction is well formed and its
end is another start or `vpc`) and every jump of a swept instruction is pending; during
pass 2 every jump is pending or lands on a start; afterwards the function is `Checked`.
`FramesInv`: every frame's pc is a start or the end of its code, and the caller has the
result register each frame names. A step along a `Checked` function goes from start to
start; `SafeInstr`, read off the interpreter's switch independently of the verifier's
table, follows from `InstrOk` at a start (`VMSafetyProofs!AcceptedInstr`).

**The verdict and the listing.** `WellFormed` asks for some set of boundaries; the sweep
tries one. `SweepInv` says why one is enough: in whatever set tiles the code, the boundaries
below the cursor are starts the sweep has found, and the cursor is the next of them or the
end; so an instruction that fails here fails in every tiling, and a jump that lands beside
the starts does so too. Acceptance gives the tiling
itself, `is_start`. The disassembler has a layout table of its own; `SameLayout` compares
the two opcode by opcode, and with it a walk over accepted code goes from start to start.

**The heap's invariant.** `NoDangling` and `RememberedComplete` speak of states between
collections; the strengthening says what holds inside one. `Steady` (between collections,
and until compaction updates pointers): pointers lead to live objects, old-to-young ones
start at a remembered object, no young object carries a forwarding address. `MinorInv`:
the evacuated space keeps its contents and only gains forwarding addresses; every root,
every field of a to-space object and of an old object is a `Source` (not yet forwarded) or
`Done`, and the frontiers `yscan`, `old_scan`, `slot`, `rem` say which; an old object that
keeps a young child is in `remembered_next`. `Marked` and `Packed`: nothing that a root, a
young survivor or a marked object refers to is unmarked, and marked objects are assigned
the first `new_top` cells in address order. `SlideInv`: pointers have their final values,
every object still to slide goes to its own cell at or below it, and every destination is
filled or has one object still to come. All of it is under `Sound`. The proof is one lemma
per handler (`ScanYoungSafe`, ..., `FinishMajorSafe`) over three facts: the geometry of the
arenas (`Geometry`), that a copy lands on a cell nobody uses (`FreeCell`), and what one
evacuation does to every region (`Evacuation`).

**Marking and the graph of objects.** `OldReachable` is defined by iterating as often as
there are cells; `OldReachableIs` shows it to be the least set that contains the seeds and
is closed under fields, which is what marking is compared with. For the refinement, every
cell carries a ghost identity. `IdInv` says which cells name an object at each moment
(`Names`), that the copies an evacuation or a slide makes of an object agree in its
identity and fields, and that no two objects share one. Then one lemma
per handler: every step of a collection leaves roots and edges, read through `Designates`,
as they were (`MinorStepSilent`, `UpdateSilent`, `SlideSilent`, ...), every step of the
program is the step of `ObjectGraph` of the same name (`MutatorSteps`). `[]Sound` is a
hypothesis because the code promises nothing once the heap is over its cap or a compaction
lost a remembered entry (section 4): after that a step need not be one of the graph. The
other heap theorems carry the same proviso inside the property.

**The builtins.** A call is a sequence of micro-steps that depends on the heap, so its safety
is shown in two halves. `BuiltinSteps` reads the steps alone, as an abstract interpreter
would. `States` is what may be known of locals and handles between two steps: which locals
are fresh, which of them hold a young object, one that nothing points to yet (`lone`), or a
container whose first slot is young (`box`); the same of handles; and which stores are still
`owed` a barrier. `Allowed` says which steps that permits (a pointer is used only while
fresh, nothing is owed where an allocation may collect), `After` what is known then.
`SafeCode` proves, builtin by builtin and for every length, that the steps of every call with
right arguments keep to it; the loops go by induction (`LeadAll`). It also settles which
barriers are needed: none for a store into a young object, nor for what was loaded from the
same container just before.
`BuiltinProofs` shows that what is known is true of the heap. `Good` is the invariant: types,
identities (`IdInv`), the heap between two steps of a call as the next collection needs it
(`Calm`), the facts of some element of `States` true of the current locals and handles
(`Models`), and the steps to come safe from there. While `new_*` waits for a collection all
that survives is about handles: one that held a `lone` object is followed from phase to phase
(`MinorLone`) into the next young space, since an object of age 0 is never promoted at its
first collection. That is why `map_set` may copy the old keys, without a barrier, into slots it
allocated before its last allocation.
The proviso `[]Intact` is the constraint of the run, and the defects 1 and 2 of section 4 are
what breaks it; `BarriersSuffice` and `BarrieredCallsAreSafe` have no proviso and say that
nothing else does. To be reasoned about, the walks over what a register shows (`Shown`) and
over a map's entries (`Puts`) are recursive functions.

**Loader and serializer.** `WrittenInv` runs the serializer behind the loader: in every
record but a failed one, the bytes read so far are `Written`, what `serialize` gives for the
header and the tables so far, and the fields read of the open record are its next bytes, the
flags and a `true` excepted; at the end that is `Canonical`. `FollowsInv` runs the loader
along a module `m`: on an input that is `serialize(m)` or a beginning of it, the cursor is
where the next record of `m` begins, the tables are prefixes of `m`'s, and only a shortened
input is refused; so a complete input loads as `m`, and a shorter one meets a read past
its end, never acceptance. Both rest on numbers that `put16` and `put32` write being those
that `Num` reads, and on facts about `FlattenSeq`.

**Lexer.** Three invariants over `LInv`: `GapInv` (what lies between the last token and the
cursor is skipped text, and inside a comment the two slashes and no newline), `LineInv`
(line and line start are the true ones unless an escaped newline came before), `LongInv`
(what each loop has read so far is of its kind, escapes counted by the parity of
backslashes; a finished token has no longer lexeme at its start, by its first byte).

**Induction.** The library's theorems on induction take a predicate as a parameter, which
no installed prover can instantiate. `Induction!Induct` says the same of sets of numbers,
and a set is an ordinary value: with it the folds behind `FlattenSeq`, `Reachable` and
`OldReachable` are unrolled for every length.

Only model-checked: all liveness (`CollectionTerminates`, `Terminates`, `LexerReturns`:
fairness and ENABLED are beyond the prover); everything about the compiler, the parser, the
formatter and what the builtins compute on integers and strings, whose definitions are
RECURSIVE operators over trees and sequences, which the prover's SMT backend does not
accept; `CallsMeanWhatTheySay`, which compares what the registers show before and after a
whole call, by recursion over the graph of objects (induction over data);
`SpillRemembered`, which is `RememberedComplete` beyond the `Sound` of the invariant; and
`CursorWithinSlots`, which needs the lengths in every payload to be related across calls,
where the discipline knows pointers only.

## 6. Not modelled

- Doubles: `Values` keeps zeros, infinities, NaN and coarse finite values; of `native.cc`
  the mathematics and the string forms of doubles are left out.
- Builtins about letter case, parsing and printing of numbers, formatting, hashing, and
  the nested walk of `flatten_deep`. The container builtins that are not in `Builtins` are
  instances of the loops that are.
- Object layout, alignment, ASan poisoning beyond blanking; the text of output, of error
  messages and of listings; line numbers in errors; the debugging dumps; file access and
  flags of the command line. These are formatting and I/O.
- Tests and fuzz targets: read for what they claim, not part of the program.

What could follow: a proof of `CursorWithinSlots`, with capacities in the discipline of
`BuiltinSteps`; the map builtins as laws beside `Arrays`.
