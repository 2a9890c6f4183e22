-------------------------------- MODULE Heap --------------------------------
(***************************************************************************)
(* The garbage-collected heap of the VM (src/src/heap.h, src/src/heap.cc): *)
(* two young semispaces, one old arena of the same size, a write barrier   *)
(* feeding a remembered set, a minor collection that copies and promotes,  *)
(* and a Lisp2 sliding compaction of the old arena.                        *)
(*                                                                         *)
(* Data abstraction.  Memory is an array of cells; every object occupies   *)
(* one cell and has NFields pointer fields (a Slots, Map, Array, ... is an *)
(* object whose non-pointer payload is left out).  The addresses are       *)
(*     0 .. Semi-1           space_a_                                      *)
(*     Semi .. 2*Semi-1      space_b_                                      *)
(*     2*Semi .. 3*Semi-1    old_                                          *)
(* A cell outside the allocated ranges is blank: ASAN_POISON forbids any   *)
(* access to it, so its stale contents are not kept.                       *)
(*                                                                         *)
(* Control is kept step by step: one action forwards one pointer slot.     *)
(***************************************************************************)
EXTENDS Integers, Sequences

CONSTANTS
  Semi,      \* semi_, and old_size_, in cells
  NRoots,    \* number of root slots: handles_ followed by the register files
  NFields,   \* pointer fields of an object
  MaxAge,    \* where Object::age saturates (255 in the code)
  RemBound   \* bound on Len(remembered): stores that log stop there

ASSUME HeapAssumption ==
  /\ Semi \in Nat \ {0} /\ NRoots \in Nat \ {0} /\ NFields \in Nat \ {0}
  /\ MaxAge \in Nat /\ RemBound \in Nat

PROMOTE_THRESHOLD == 2
Null    == -1
OldBase == 2 * Semi
OldSize == Semi
Addr    == 0 .. 3 * Semi - 1
Ptr     == Addr \cup {Null}
Roots   == 1 .. NRoots
Fields  == 1 .. NFields
Blank   == [f \in Fields |-> Null]

VARIABLES
  from,            \* from_: base address of the active semispace
  top,             \* top_: cells in use in from_
  to_top,          \* to_top_: cells filled in the spare space
  old_top,         \* old_top_: cells in use in old_
  kid, age, fwd,   \* object fields, by address
  mark,            \* the addresses whose Object::mark is set
  roots,           \* root slots
  remembered,      \* remembered_
  remembered_next, \* remembered_next_
  over_cap,        \* over_cap_
  phase,           \* where control is
  pending,         \* root slot awaiting the allocation that triggered the collection
  rem,             \* collect_minor's local copy of the remembered set, unprocessed part
  slot,            \* next field of the object being traced, or next root slot
  young_child,     \* trace_from_old's local
  yscan, old_scan, \* the two Cheney frontiers
  mark_work,       \* mark_work_ (the LIFO order is abstracted)
  cursor,          \* walk over the old arena in compact_old
  new_top,         \* compact_old's local
  stale            \* ghost: a compaction invalidated an entry of remembered

space    == <<from, top, to_top, old_top>>
object   == <<kid, age, fwd, mark>>
remset   == <<remembered, remembered_next>>
minor    == <<rem, slot, young_child, yscan, old_scan>>
major    == <<mark_work, cursor, new_top>>
vars == <<space, object, roots, remset, over_cap, phase, pending, minor, major, stale>>

to == Semi - from                       \* to_: the spare semispace
is_young(p)    == from <= p /\ p < from + Semi
in_to_space(p) == to <= p /\ p < to + Semi
is_old(p)      == OldBase <= p /\ p < OldBase + old_top

YoungCells == from .. from + top - 1
OldCells   == OldBase .. OldBase + old_top - 1
Live       == YoungCells \cup OldCells  \* objects allocated and not yet reclaimed

Init ==
  /\ from = 0 /\ top = 0 /\ to_top = 0 /\ old_top = 0
  /\ kid = [a \in Addr |-> Blank]
  /\ age = [a \in Addr |-> 0]
  /\ fwd = [a \in Addr |-> Null]
  /\ mark = {}
  /\ roots = [r \in Roots |-> Null]
  /\ remembered = <<>> /\ remembered_next = <<>>
  /\ over_cap = FALSE /\ stale = FALSE
  /\ phase = "run" /\ pending = 1
  /\ rem = <<>> /\ slot = 1 /\ young_child = FALSE
  /\ yscan = 0 /\ old_scan = 0
  /\ mark_work = {} /\ cursor = 0 /\ new_top = 0

-----------------------------------------------------------------------------
(***************************************************************************)
(* The mutator: what the interpreter and the builtins do to the heap       *)
(* between two collections.  It raises an error once over_cap is set.      *)
(***************************************************************************)
Running == phase = "run" /\ ~over_cap

\* A register or handle receives another root's value, or is dropped.
MoveRoot(i, v) ==
  /\ Running
  /\ v \in {roots[j] : j \in Roots} \cup {Null}
  /\ roots' = [roots EXCEPT ![i] = v]
  /\ UNCHANGED <<space, object, remset, over_cap, phase, pending, minor, major, stale>>

\* A register receives field f of an object held in a register.
LoadField(i, j, f) ==
  /\ Running /\ roots[j] # Null
  /\ roots' = [roots EXCEPT ![i] = kid[roots[j]][f]]
  /\ UNCHANGED <<space, object, remset, over_cap, phase, pending, minor, major, stale>>

\* Faulty: a store that forgets the write barrier.
StoreFieldNoBarrier(i, f, v) ==
  LET holder == roots[i] IN
  /\ Running /\ holder # Null
  /\ v \in {roots[j] : j \in Roots} \cup {Null}
  /\ kid' = [kid EXCEPT ![holder][f] = v]
  /\ UNCHANGED <<space, age, fwd, mark, roots, remset, over_cap, phase, pending, minor,
                 major, stale>>

\* holder.f = v, followed by write_barrier(holder, v).
StoreField(i, f, v) ==
  LET holder == roots[i]
      logs   == v # Null /\ is_old(holder) /\ is_young(v)
  IN
  /\ Running /\ holder # Null
  /\ v \in {roots[j] : j \in Roots} \cup {Null}
  /\ logs => Len(remembered) < RemBound
  /\ kid' = [kid EXCEPT ![holder][f] = v]
  /\ remembered' = IF logs THEN Append(remembered, holder) ELSE remembered
  /\ UNCHANGED <<space, age, fwd, mark, roots, remembered_next, over_cap, phase,
                 pending, minor, major, stale>>

\* The successful tail of bump() and the constructor: a fresh object for root i.
Place(i) ==
  LET p == from + top IN
  /\ kid' = [kid EXCEPT ![p] = Blank]
  /\ age' = [age EXCEPT ![p] = 0]
  /\ fwd' = [fwd EXCEPT ![p] = Null]
  /\ mark' = mark \ {p}
  /\ top' = top + 1
  /\ roots' = [roots EXCEPT ![i] = p]

\* new_*: room in the active semispace.
Alloc(i) ==
  /\ Running /\ top < Semi
  /\ Place(i)
  /\ UNCHANGED <<from, to_top, old_top, remset, over_cap, phase, pending, minor,
                 major, stale>>

\* new_*: no room; bump() calls collect(), which enters collect_minor().
AllocCollects(i) ==
  /\ Running /\ top = Semi
  /\ phase' = "remset" /\ pending' = i
  /\ to_top' = 0 /\ old_scan' = old_top /\ yscan' = 0
  /\ rem' = remembered
  /\ remembered' = <<>> /\ remembered_next' = <<>>
  /\ slot' = 1 /\ young_child' = FALSE
  /\ UNCHANGED <<from, top, old_top, object, roots, over_cap, major, stale>>

\* bump() after collect(): allocate, or set over_cap_ and return nullptr.
Resume ==
  /\ phase = "resume"
  /\ phase' = "run" /\ pending' = 1
  /\ \/ top < Semi /\ Place(pending) /\ UNCHANGED over_cap
     \/ top = Semi /\ over_cap' = TRUE /\ UNCHANGED <<top, object, roots>>
  /\ UNCHANGED <<from, to_top, old_top, remset, minor, major, stale>>

Mutator ==
  \/ \E i \in Roots : \E v \in {roots[j] : j \in Roots} \cup {Null} :
       \/ MoveRoot(i, v)
       \/ \E f \in Fields : StoreField(i, f, v)
  \/ \E i, j \in Roots : \E f \in Fields : LoadField(i, j, f)
  \/ \E i \in Roots : Alloc(i) \/ AllocCollects(i)

-----------------------------------------------------------------------------
(***************************************************************************)
(* Forwarding one pointer: Heap::copy and Heap::copy_promote.              *)
(***************************************************************************)
\* Faulty: copies an object again although it was evacuated this cycle.
NeedsCopyEvenIfForwarded(p) == p # Null /\ ~is_old(p)

\* Both return early for null, for an old object and for an evacuated one.
NeedsCopy(p) == p # Null /\ ~is_old(p) /\ fwd[p] = Null

\* Where copy() puts a survivor: promoted by age, kept young, or (no room) left.
CopyTarget(p) ==
  IF age[p] + 1 >= PROMOTE_THRESHOLD /\ old_top < OldSize THEN OldBase + old_top
  ELSE IF to_top < Semi THEN to + to_top
  ELSE p

\* copy_promote(): the old arena regardless of age; spills to copy() when full.
PromoteTarget(p) == IF old_top < OldSize THEN OldBase + old_top ELSE CopyTarget(p)

\* Faulty: an object evacuated earlier is not redirected to its copy.
ForwardedOnlyOnce(p, target) == IF NeedsCopy(p) THEN target ELSE p

Forwarded(p, target) ==
  IF NeedsCopy(p) THEN target
  ELSE IF p = Null \/ is_old(p) THEN p
  ELSE fwd[p]

\* The memcpy of p to target, the forwarding stamp and the bumped top.
Evacuates(p, target) == NeedsCopy(p) /\ target # p

KidsWithCopy(p, target) ==
  IF Evacuates(p, target) THEN [kid EXCEPT ![target] = kid[p]] ELSE kid

AgedOneCycle(p) == IF age[p] < MaxAge THEN age[p] + 1 ELSE MaxAge

Evacuate(p, target) ==
  IF Evacuates(p, target)
  THEN /\ fwd' = [fwd EXCEPT ![target] = Null, ![p] = target]
       /\ mark' = IF p \in mark THEN mark \cup {target} ELSE mark \ {target}
       /\ IF target >= OldBase
          THEN /\ age' = [age EXCEPT ![target] = 0]
               /\ old_top' = old_top + 1 /\ UNCHANGED to_top
          ELSE /\ age' = [age EXCEPT ![target] = AgedOneCycle(p)]
               /\ to_top' = to_top + 1 /\ UNCHANGED old_top
  ELSE UNCHANGED <<age, fwd, mark, old_top, to_top>>

\* copy() found no room at all; copy_promote() found the old arena full.
CopyFails(p)    == NeedsCopy(p) /\ CopyTarget(p) = p
PromoteSpills(p) == NeedsCopy(p) /\ old_top = OldSize

-----------------------------------------------------------------------------
(***************************************************************************)
(* collect_minor.  trace() and trace_from_old() forward the fields of one  *)
(* object in turn; slot is the next field.                                 *)
(***************************************************************************)
\* One field of trace(h): children go through copy().
TraceField(h) ==
  LET p == kid[h][slot]
      n == Forwarded(p, CopyTarget(p))
  IN  /\ Evacuate(p, CopyTarget(p))
      /\ kid' = [KidsWithCopy(p, CopyTarget(p)) EXCEPT ![h][slot] = n]
      /\ over_cap' = (over_cap \/ CopyFails(p))

\* Faulty: trace_from_old() without the re-remembering of h.
TraceFieldFromOldForgets(h) ==
  LET p  == kid[h][slot]
      n  == Forwarded(p, PromoteTarget(p))
  IN  /\ Evacuate(p, PromoteTarget(p))
      /\ kid' = [KidsWithCopy(p, PromoteTarget(p)) EXCEPT ![h][slot] = n]
      /\ over_cap' = (over_cap \/ PromoteSpills(p))
      /\ young_child' = FALSE
      /\ UNCHANGED remembered_next

\* Faulty: trace_from_old() takes a child that copy_promote() spilled to be old.
TraceFieldFromOldIgnoresSpill(h) ==
  LET p  == kid[h][slot]
      n  == Forwarded(p, PromoteTarget(p))
      yc == young_child \/ (in_to_space(n) /\ ~PromoteSpills(p))
  IN  /\ Evacuate(p, PromoteTarget(p))
      /\ kid' = [KidsWithCopy(p, PromoteTarget(p)) EXCEPT ![h][slot] = n]
      /\ over_cap' = (over_cap \/ PromoteSpills(p))
      /\ IF slot = NFields
         THEN /\ young_child' = FALSE
              /\ remembered_next' = IF yc THEN Append(remembered_next, h)
                                          ELSE remembered_next
         ELSE young_child' = yc /\ UNCHANGED remembered_next

\* One field of trace_from_old(h): children go through copy_promote(); after the
\* last field h is re-remembered if one of them stayed young.
TraceFieldFromOld(h) ==
  LET p  == kid[h][slot]
      n  == Forwarded(p, PromoteTarget(p))
      yc == young_child \/ in_to_space(n)
  IN  /\ Evacuate(p, PromoteTarget(p))
      /\ kid' = [KidsWithCopy(p, PromoteTarget(p)) EXCEPT ![h][slot] = n]
      /\ over_cap' = (over_cap \/ PromoteSpills(p))
      /\ IF slot = NFields
         THEN /\ young_child' = FALSE
              /\ remembered_next' = IF yc THEN Append(remembered_next, h)
                                          ELSE remembered_next
         ELSE young_child' = yc /\ UNCHANGED remembered_next

NextSlot(last) == IF slot = last THEN 1 ELSE slot + 1

\* Phase 1: the remembered set, before any root.
TraceRemembered ==
  /\ phase = "remset" /\ rem # <<>>
  /\ TraceFieldFromOld(Head(rem))
  /\ slot' = NextSlot(NFields)
  /\ rem' = IF slot = NFields THEN Tail(rem) ELSE rem
  /\ UNCHANGED <<from, top, roots, remembered, phase, pending, yscan, old_scan,
                 major, stale>>

RememberedDone ==
  /\ phase = "remset" /\ rem = <<>>
  /\ phase' = "roots" /\ slot' = 1
  /\ UNCHANGED <<space, object, roots, remset, over_cap, pending, rem, young_child,
                 yscan, old_scan, major, stale>>

\* Phase 2: the handles, then the register files, through copy().
ForwardRoot ==
  LET p == roots[slot] IN
  /\ phase = "roots"
  /\ Evacuate(p, CopyTarget(p))
  /\ kid' = KidsWithCopy(p, CopyTarget(p))
  /\ roots' = [roots EXCEPT ![slot] = Forwarded(p, CopyTarget(p))]
  /\ over_cap' = (over_cap \/ CopyFails(p))
  /\ slot' = NextSlot(NRoots)
  /\ phase' = IF slot = NRoots THEN "young" ELSE "roots"
  /\ UNCHANGED <<from, top, remset, pending, rem, young_child, yscan, old_scan,
                 major, stale>>

\* Phase 3: the young frontier is drained, then the old one, until both are empty.
ScanYoung ==
  /\ phase = "young" /\ yscan < to_top
  /\ TraceField(to + yscan)
  /\ slot' = NextSlot(NFields)
  /\ yscan' = IF slot = NFields THEN yscan + 1 ELSE yscan
  /\ UNCHANGED <<from, top, roots, remset, phase, pending, rem, young_child,
                 old_scan, major, stale>>

YoungDrained ==
  /\ phase = "young" /\ yscan = to_top
  /\ phase' = "old"
  /\ UNCHANGED <<space, object, roots, remset, over_cap, pending, minor, major, stale>>

ScanOld ==
  /\ phase = "old" /\ old_scan < old_top
  /\ TraceFieldFromOld(OldBase + old_scan)
  /\ slot' = NextSlot(NFields)
  /\ old_scan' = IF slot = NFields THEN old_scan + 1 ELSE old_scan
  /\ UNCHANGED <<from, top, roots, remembered, phase, pending, rem, yscan, major, stale>>

OldDrainedYoungNot ==
  /\ phase = "old" /\ old_scan = old_top /\ yscan < to_top
  /\ phase' = "young"
  /\ UNCHANGED <<space, object, roots, remset, over_cap, pending, minor, major, stale>>

\* The end of collect_minor (install the next remembered set, flip, poison the
\* evacuated space) and collect()'s decision to compact.
FinishMinor ==
  /\ phase = "old" /\ old_scan = old_top /\ yscan = to_top
  /\ remembered' = remembered_next /\ remembered_next' = remembered
  /\ from' = to /\ top' = to_top
  /\ kid' = [a \in Addr |-> IF is_young(a) THEN Blank ELSE kid[a]]
  /\ age' = [a \in Addr |-> IF is_young(a) THEN 0 ELSE age[a]]
  /\ fwd' = [a \in Addr |-> IF is_young(a) THEN Null ELSE fwd[a]]
  /\ mark' = mark \ (from .. from + Semi - 1)
  /\ phase' = IF old_top * 4 >= OldSize * 3 THEN "major" ELSE "resume"
  /\ to_top' = 0 /\ yscan' = 0 /\ old_scan' = 0  \* meaningless outside a collection
  /\ UNCHANGED <<old_top, roots, over_cap, pending, rem, slot, young_child, major, stale>>

-----------------------------------------------------------------------------
(***************************************************************************)
(* compact_old: clear, mark, compute forwarding, update, slide, clear.     *)
(***************************************************************************)
OldChildren(a) == {kid[a][f] : f \in Fields} \cap OldCells

\* Faulty: the young survivors are not roots of the marking.
MarkRootsOnly ==
  LET seeds == {roots[r] : r \in Roots} \cap OldCells IN
  /\ phase = "major"
  /\ fwd' = [a \in Addr |-> IF is_old(a) THEN Null ELSE fwd[a]]
  /\ mark' = (mark \ OldCells) \cup seeds
  /\ mark_work' = seeds
  /\ phase' = "mark"
  /\ UNCHANGED <<space, kid, age, roots, remset, over_cap, pending, minor, cursor,
                 new_top, stale>>

\* Steps 1 and 2a: clear the scratch fields; mark from the roots and from every
\* young survivor.
MarkRoots ==
  LET seeds == ({roots[r] : r \in Roots} \cap OldCells)
                 \cup UNION {OldChildren(y) : y \in YoungCells}
  IN
  /\ phase = "major"
  /\ fwd' = [a \in Addr |-> IF is_old(a) THEN Null ELSE fwd[a]]
  /\ mark' = (mark \ OldCells) \cup seeds
  /\ mark_work' = seeds
  /\ phase' = "mark"
  /\ UNCHANGED <<space, kid, age, roots, remset, over_cap, pending, minor, cursor,
                 new_top, stale>>

\* Faulty: mark_old() pushes objects that are already marked.
MarkChildrenAgain ==
  /\ phase = "mark"
  /\ \E o \in mark_work :
       /\ mark' = mark \cup OldChildren(o)
       /\ mark_work' = (mark_work \ {o}) \cup OldChildren(o)
  /\ UNCHANGED <<space, kid, age, fwd, roots, remset, over_cap, phase, pending, minor,
                 cursor, new_top, stale>>

\* Step 2b: the transitive closure over old-to-old edges.
MarkChildren ==
  /\ phase = "mark"
  /\ \E o \in mark_work :
       LET fresh == OldChildren(o) \ mark IN
       /\ mark' = mark \cup fresh
       /\ mark_work' = (mark_work \ {o}) \cup fresh
  /\ UNCHANGED <<space, kid, age, fwd, roots, remset, over_cap, phase, pending, minor,
                 cursor, new_top, stale>>

MarkDone ==
  /\ phase = "mark" /\ mark_work = {}
  /\ phase' = "forward" /\ cursor' = 0 /\ new_top' = 0
  /\ UNCHANGED <<space, object, roots, remset, over_cap, pending, minor, mark_work, stale>>

\* Step 3: pack the marked objects downward.
ComputeForward ==
  LET o == OldBase + cursor IN
  /\ phase = "forward" /\ cursor < old_top
  /\ IF o \in mark
     THEN fwd' = [fwd EXCEPT ![o] = OldBase + new_top] /\ new_top' = new_top + 1
     ELSE UNCHANGED <<fwd, new_top>>
  /\ cursor' = cursor + 1
  /\ UNCHANGED <<space, kid, age, mark, roots, remset, over_cap, phase, pending, minor,
                 mark_work, stale>>

\* Faulty: pointers are left at the addresses before compaction.
forward_old_identity(p) == p

forward_old(p) == IF is_old(p) /\ fwd[p] # Null THEN fwd[p] ELSE p

\* Step 4: every root, every young survivor and every marked old object.  The
\* remembered set is not among them.
UpdatePointers ==
  /\ phase = "forward" /\ cursor = old_top
  /\ roots' = [r \in Roots |-> forward_old(roots[r])]
  /\ kid' = [a \in Addr |->
               IF a \in YoungCells \cup (OldCells \cap mark)
               THEN [f \in Fields |-> forward_old(kid[a][f])] ELSE kid[a]]
  /\ stale' = (stale \/ \E i \in 1 .. Len(remembered) :
                           forward_old(remembered[i]) # remembered[i]
                             \/ remembered[i] \notin mark)
  /\ phase' = "slide" /\ cursor' = 0
  /\ UNCHANGED <<space, age, fwd, mark, remset, over_cap, pending, minor, mark_work, new_top>>

\* Step 5: slide one object down.
Slide ==
  LET o == OldBase + cursor IN
  /\ phase = "slide" /\ cursor < old_top
  /\ IF o \in mark
     THEN /\ kid' = [kid EXCEPT ![fwd[o]] = kid[o]]
          /\ age' = [age EXCEPT ![fwd[o]] = age[o]]
          /\ fwd' = [fwd EXCEPT ![fwd[o]] = fwd[o]]
          /\ mark' = mark \cup {fwd[o]}
     ELSE UNCHANGED object
  /\ cursor' = cursor + 1
  /\ UNCHANGED <<space, roots, remset, over_cap, phase, pending, minor, mark_work,
                 new_top, stale>>

\* Step 6: clear the scratch fields, poison the freed tail, lower old_top_.
FinishMajor ==
  /\ phase = "slide" /\ cursor = old_top
  /\ old_top' = new_top
  /\ fwd' = [a \in Addr |-> IF is_old(a) THEN Null ELSE fwd[a]]
  /\ mark' = mark \ OldCells
  /\ kid' = [a \in Addr |-> IF a >= OldBase + new_top THEN Blank ELSE kid[a]]
  /\ age' = [a \in Addr |-> IF a >= OldBase + new_top THEN 0 ELSE age[a]]
  /\ phase' = "resume" /\ cursor' = 0 /\ new_top' = 0
  /\ UNCHANGED <<from, top, to_top, roots, remset, over_cap, pending, minor,
                 mark_work, stale>>

-----------------------------------------------------------------------------
Minor == \/ TraceRemembered \/ RememberedDone \/ ForwardRoot
         \/ ScanYoung \/ YoungDrained \/ ScanOld \/ OldDrainedYoungNot \/ FinishMinor
Major == \/ MarkRoots \/ MarkChildren \/ MarkDone
         \/ ComputeForward \/ UpdatePointers \/ Slide \/ FinishMajor
Collector == Minor \/ Major \/ Resume

Next == Mutator \/ Collector

\* A collection runs inside one call of bump(): once begun it is never preempted.
Spec == Init /\ [][Next]_vars /\ WF_vars(Collector)

=============================================================================
