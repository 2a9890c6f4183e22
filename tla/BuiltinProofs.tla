---------------------------- MODULE BuiltinProofs ----------------------------
(***************************************************************************)
(* What the discipline of BuiltinSteps is worth on the heap: as long as it *)
(* keeps its promises, no builtin uses a stale pointer, nothing it can     *)
(* reach is reclaimed, and until one of Unbarriered runs every old-to-young *)
(* pointer it stores is remembered where a collection may begin.  For      *)
(* every heap size, number of registers and handles, and sequence of calls. *)
(***************************************************************************)
EXTENDS BuiltinSteps, HeapGraphProofs

-----------------------------------------------------------------------------
(***************************************************************************)
(* What is known of the locals and handles, read as facts about the heap.  *)
(***************************************************************************)
\* Allocated since the last collection, and in no field of any object.
Lone(p) == p \in YoungCells /\ age[p] = 0 /\ \A b \in Live : \A f \in Fields : kid[b][f] # p

\* What holds of the heap between two steps of a call; Steady adds to it that the
\* old-to-young pointers are remembered.
Calm ==
  /\ Closed
  /\ \A b \in YoungCells : fwd[b] = Null
  /\ SetOf(remembered) \subseteq OldCells
  /\ slot = 1 /\ ~young_child /\ rem = <<>> /\ remembered_next = <<>>

LocalsKnown(a) ==
  /\ a.fresh \subseteq fresh
  /\ \A l \in a.young : local[l] \in YoungCells
  /\ \A l \in a.lone : Lone(local[l])
  /\ \A l \in a.box : local[l] \in Live /\ kid[local[l]][1] \in YoungCells
RootsKnown(a) ==
  /\ \A r \in a.rlone : Lone(roots[r])
  /\ \A r \in a.ryoung : roots[r] \in YoungCells
EdgesKnown(a) ==
  a.strict =>
    /\ \A p \in a.last : local[p[1]] \in OldCells /\ local[p[2]] \in YoungCells
                           => local[p[1]] \in SetOf(remembered)
    /\ \A o \in OldCells : \A f \in Fields : kid[o][f] \in YoungCells =>
         o \in SetOf(remembered) \/ \E p \in a.owed : local[p[1]] = o /\ local[p[2]] = kid[o][f]
Models(a) == LocalsKnown(a) /\ RootsKnown(a) /\ EdgesKnown(a)

\* While new_* waits for its object a handle that was lone is on its way into the
\* next young space: copy() promotes no object at its first collection.
MinorLone(r) ==
  /\ phase = "remset" =>
       /\ roots[r] \in YoungCells /\ age[roots[r]] = 0 /\ fwd[roots[r]] = Null
       /\ \A b \in YoungCells \cup ToCells \cup OldCells : \A f \in Fields : kid[b][f] # roots[r]
  /\ phase = "roots" =>
       IF slot <= r
       THEN roots[r] \in YoungCells /\ age[roots[r]] = 0 /\ fwd[roots[r]] \in ToCells \cup {Null}
       ELSE roots[r] \in ToCells
  /\ phase \in {"young", "old"} => roots[r] \in ToCells
  /\ phase \notin MinorPhases => roots[r] \in YoungCells

\* new_* has begun and has not returned.
Waiting == phase # "run" \/ roots[T] # Null

\* The inductive invariant: the heap's, and that the locals, the handles and the
\* steps to come are as the discipline says.
InOrder ==
  /\ TypeOK /\ IdInv
  /\ local \in [Locals -> Ptr] /\ fresh \subseteq Locals
  /\ setup \in Seq(CallSet) /\ sloppy \in BOOLEAN
  /\ \A l \in fresh : local[l] \in Live \cup {Null}
  /\ phase = "run" => Calm
  /\ phase # "run" => fresh = {} /\ pending = T /\ roots[T] = Null
  /\ roots[T] # Null => Lone(roots[T])
  /\ Waiting => PhaseInv /\ todo # <<>> /\ Head(todo).op = "new"
Disciplined(texts, a) ==
  /\ payload \in [Id -> Payloads(texts)] /\ todo \in Seq(Micro(texts))
  /\ a \in States /\ Safe(todo, a) /\ (~sloppy => a.strict)
  /\ IF Waiting THEN \A r \in a.rlone : MinorLone(r) ELSE Models(a)
Good == InOrder /\ \E texts : \E a : Disciplined(texts, a)

-----------------------------------------------------------------------------
(***************************************************************************)
(* A step of a call that allocates nothing.                                *)
(***************************************************************************)
LEMMA Cells ==
  ASSUME TypeOK
  PROVE  /\ Live = YoungCells \cup OldCells /\ YoungCells \cap OldCells = {}
         /\ Live \subseteq Addr /\ Live \subseteq Ptr /\ Null \notin Live /\ Null \in Ptr
         /\ \A p \in Ptr : is_old(p) <=> p \in OldCells
         /\ \A p \in YoungCells : is_young(p)
         /\ \A p \in OldCells : ~is_young(p)
         /\ kid \in [Addr -> [Fields -> Ptr]] /\ roots \in [Roots -> Ptr]
         /\ remembered \in Seq(OldAddr) /\ OldCells \subseteq OldAddr
<1>1. OldCells \subseteq OldAddr
  BY OldCellsType DEF TypeOK
<1>2. Live \subseteq Addr /\ Addr \subseteq Ptr /\ Null \in Ptr
  BY Geometry DEF Live, Ptr
<1> QED BY <1>1, <1>2, Geometry DEF Live, TypeOK, ObjectType, RemsetType

LEMMA SameCells ==
  ASSUME UNCHANGED <<from, top, old_top>>
  PROVE  YoungCells' = YoungCells /\ OldCells' = OldCells /\ Live' = Live
BY DEF YoungCells, OldCells, Live

LEMMA QuietStep ==
  ASSUME TypeOK, IdInv, Calm, phase = "run",
         UNCHANGED <<space, age, fwd, mark, remembered_next, over_cap, phase, pending, minor, major, stale, id>>,
         roots' \in [Roots -> Live \cup {Null}], kid' \in [Addr -> [Fields -> Ptr]],
         \A a \in Live : \A f \in Fields : kid'[a][f] \in Live \cup {Null},
         remembered' \in Seq(OldAddr), SetOf(remembered') \subseteq OldCells
  PROVE  /\ TypeOK' /\ IdInv' /\ Calm'
         /\ YoungCells' = YoungCells /\ OldCells' = OldCells /\ Live' = Live
<1>1. /\ YoungCells' = YoungCells /\ OldCells' = OldCells /\ Live' = Live
      /\ Live \subseteq Ptr /\ Null \in Ptr
  BY SameCells, Cells DEF space
<1>2. TypeOK'
  <2>1. SpaceType'
    BY DEF TypeOK, SpaceType, space
  <2>2. ObjectType'
    <3>1. roots' \in [Roots -> Ptr]
      BY <1>1
    <3> QED BY <3>1 DEF TypeOK, ObjectType
  <2>3. RemsetType'
    BY DEF TypeOK, RemsetType, minor, major
  <2>4. ControlType'
    BY DEF TypeOK, ControlType, minor, major
  <2> QED BY <2>1, <2>2, <2>3, <2>4 DEF TypeOK
<1>3. IdInv'
  <2>1. id' = id /\ phase' = "run"
    OBVIOUS
  <2>2. IdSteady' /\ id' \in [Addr -> 0 .. 2 * Semi]
    BY <1>1, <2>1 DEF IdInv, IdSteady
  <2> QED BY <2>1, <2>2 DEF IdInv, MinorPhases
<1>4. Calm'
  <2>1. Closed'
    BY <1>1 DEF Closed
  <2> QED BY <1>1, <2>1 DEF Calm, minor
<1> QED BY <1>1, <1>2, <1>3, <1>4

\* The knowledge after an allowed step is of the same kind.
LEMMA AfterType ==
  ASSUME NEW texts, NEW s \in Micro(texts), NEW a \in States, Allowed(a, s)
  PROVE  After(a, s) \in States /\ After(a, s).strict = a.strict
<1>1. CASE s.op = "new"
  BY <1>1 DEF Allowed, After, States
<1>2. ASSUME NEW L \in SUBSET (Locals \X Locals), NEW Y \in SUBSET Locals, s.x \in Locals
      PROVE  Assign(a, s.x, Y, L) \in States /\ Assign(a, s.x, Y, L).strict = a.strict
  BY <1>2 DEF Assign, States
<1>3. CASE s.op \in {"read", "load"}
  <2>1. s.x \in Locals /\ (s.op = "load" => s.y \in Locals)
    BY <1>3 DEF Allowed, States
  <2>2. CASE s.op = "read"
    <3> DEFINE L == Without(a.last, s.x)
               Y == IF s.n \in a.ryoung THEN {s.x} ELSE {}
    <3>1. L \in SUBSET (Locals \X Locals) /\ Y \in SUBSET Locals
      BY <2>1 DEF Without, States
    <3>2. After(a, s) = Assign(a, s.x, Y, L)
      BY <2>2 DEF After
    <3> QED BY <1>2, <2>1, <3>1, <3>2
  <2>3. CASE s.op = "load"
    <3> DEFINE L == IF s.x # s.y /\ a.owed = {} THEN {<<s.y, s.x>>} ELSE {}
               Y == IF s.y \in a.box /\ s.n = 1 THEN {s.x} ELSE {}
    <3>1. L \in SUBSET (Locals \X Locals) /\ Y \in SUBSET Locals
      BY <2>1, <2>3
    <3>2. After(a, s) = Assign(a, s.x, Y, L)
      BY <2>3 DEF After
    <3> QED BY <1>2, <2>1, <3>1, <3>2
  <2> QED BY <1>3, <2>2, <2>3
<1>4. CASE s.op = "store"
  <2> DEFINE B == IF s.n = 1 /\ s.x \in a.young /\ s.y \in a.young THEN {s.x} ELSE {}
             O == IF ~a.strict \/ s.x \in a.young \/ <<s.x, s.y>> \in a.last THEN a.owed
                  ELSE a.owed \cup {<<s.x, s.y>>}
  <2>1. B \in SUBSET Locals /\ O \in SUBSET (Locals \X Locals)
    BY <1>4 DEF Allowed, States
  <2>2. After(a, s) = [a EXCEPT !.lone = {}, !.rlone = {}, !.box = B, !.owed = O]
    BY <1>4 DEF After
  <2> HIDE DEF B, O
  <2> QED BY <2>1, <2>2 DEF States
<1>5. CASE s.op = "root"
  <2> DEFINE R == IF s.x \in a.lone THEN a.rlone \cup {s.n} ELSE a.rlone \ {s.n}
             Y == IF s.x \in a.young THEN a.ryoung \cup {s.n} ELSE a.ryoung \ {s.n}
  <2>1. R \in SUBSET Handles /\ Y \in SUBSET Handles
    BY <1>5 DEF Allowed, States
  <2>2. After(a, s) = [a EXCEPT !.rlone = R, !.ryoung = Y]
    BY <1>5 DEF After
  <2> HIDE DEF R, Y
  <2> QED BY <2>1, <2>2 DEF States
<1>6. CASE s.op \in {"barrier", "drop", "ret", "len", "cap"}
  BY <1>6 DEF Allowed, After, States
<1> QED BY <1>1, <1>3, <1>4, <1>5, <1>6 DEF Micro, Ops

\* What is known when a step is taken, and of the steps after it.
LEMMA Taken ==
  ASSUME InOrder, NEW texts, NEW a, Disciplined(texts, a), NEW op, op # "new", Takes(op)
  PROVE  /\ S \in Micro(texts) /\ S.op = op /\ Allowed(a, S)
         /\ phase = "run" /\ roots[T] = Null /\ Calm /\ Models(a) /\ a \in States
         /\ todo' \in Seq(Micro(texts)) /\ Safe(todo', After(a, S))
         /\ After(a, S) \in States /\ After(a, S).strict = a.strict
<1>1. /\ phase = "run" /\ todo # <<>> /\ S.op = op /\ todo' = Tail(todo)
  BY DEF Takes, Doing, S
<1>2. ~Waiting
  BY <1>1 DEF InOrder, S
<1>3. roots[T] = Null /\ Calm /\ Models(a)
  BY <1>1, <1>2 DEF Waiting, InOrder, Disciplined
<1>4. todo \in Seq(Micro(texts)) /\ Safe(todo, a) /\ a \in States
  BY DEF Disciplined
<1>5. S \in Micro(texts) /\ todo' \in Seq(Micro(texts))
  BY <1>1, <1>4 DEF S
<1>6. Allowed(a, S) /\ Safe(todo', After(a, S))
  BY <1>1, <1>4, SafeTake DEF S
<1>7. After(a, S) \in States /\ After(a, S).strict = a.strict
  BY <1>4, <1>5, <1>6, AfterType
<1> QED BY <1>1, <1>3, <1>4, <1>5, <1>6, <1>7

LEMMA StillGood ==
  ASSUME InOrder, NEW texts, NEW a, Disciplined(texts, a), NEW op, op # "new", Takes(op),
         NEW b, b = After(a, S),
         TypeOK', IdInv', Calm', phase' = "run", roots'[T] = Null, setup' = setup, sloppy' = sloppy,
         local' \in [Locals -> Ptr], fresh' \subseteq Locals, \A l \in fresh' : local'[l] \in Live' \cup {Null},
         payload' \in [Id -> Payloads(texts)], LocalsKnown(b)', RootsKnown(b)', EdgesKnown(b)'
  PROVE  InOrder' /\ Disciplined(texts, b)'
<1>1. ~Waiting'
  BY DEF Waiting
<1>2. InOrder'
  BY <1>1 DEF InOrder
<1>3. /\ todo' \in Seq(Micro(texts)) /\ Safe(todo', b) /\ b \in States /\ b.strict = a.strict
  BY Taken
<1>4. ~sloppy' => b.strict
  BY <1>3 DEF Disciplined
<1>5. Models(b)'
  BY DEF Models
<1>6. Disciplined(texts, b)'
  BY <1>1, <1>3, <1>4, <1>5 DEF Disciplined
<1> QED BY <1>2, <1>6

\* A local that is read or loaded: it receives v, and nothing else changes.
LEMMA Receives ==
  ASSUME InOrder, NEW texts, NEW a, Disciplined(texts, a), NEW op, op # "new", Takes(op),
         NEW b, b = After(a, S), NEW Y, NEW L, b = Assign(a, S.x, Y, L),
         S.x \in Locals, Unowed(a, S.x), NEW v \in Live \cup {Null}, Assigned(S.x, v), SameHeap,
         UNCHANGED <<roots, payload, setup, sloppy>>,
         Y \subseteq {S.x}, Y # {} => v \in YoungCells,
         a.strict => \A p \in L : \/ p \in a.last /\ p[1] # S.x /\ p[2] # S.x
                                  \/ local'[p[1]] \in OldCells /\ local'[p[2]] \in YoungCells
                                       => local'[p[1]] \in SetOf(remembered)
  PROVE  InOrder' /\ Disciplined(texts, b)'
<1>1. /\ phase = "run" /\ roots[T] = Null /\ Calm /\ Models(a) /\ a \in States
  BY Taken
<1>2. /\ TypeOK /\ IdInv /\ local \in [Locals -> Ptr] /\ fresh \subseteq Locals
      /\ \A l \in fresh : local[l] \in Live \cup {Null}
  BY DEF InOrder
<1>3. UNCHANGED <<space, kid, age, fwd, mark, remembered, remembered_next, over_cap, phase, pending, minor, major,
                  stale, id>>
  BY DEF SameHeap, object, remset
<1>4. /\ TypeOK' /\ IdInv' /\ Calm'
      /\ YoungCells' = YoungCells /\ OldCells' = OldCells /\ Live' = Live
  <2>1. roots' \in [Roots -> Live \cup {Null}] /\ kid' \in [Addr -> [Fields -> Ptr]]
    BY <1>1, <1>2, <1>3, Cells DEF Calm, Closed
  <2>2. \A c \in Live : \A f \in Fields : kid'[c][f] \in Live \cup {Null}
    BY <1>1, <1>3 DEF Calm, Closed
  <2>3. remembered' \in Seq(OldAddr) /\ SetOf(remembered') \subseteq OldCells
    BY <1>1, <1>2, <1>3, Cells DEF Calm
  <2> QED BY <1>1, <1>2, <1>3, <2>1, <2>2, <2>3, QuietStep
<1>5. /\ local' \in [Locals -> Ptr] /\ local'[S.x] = v /\ fresh' = fresh \cup {S.x}
      /\ \A l \in Locals : l # S.x => local'[l] = local[l]
  BY <1>2, Cells DEF Assigned
<1>6. /\ b.strict = a.strict /\ b.fresh = a.fresh \cup {S.x} /\ b.young = (a.young \ {S.x}) \cup Y
      /\ b.lone = a.lone \ {S.x} /\ b.box = a.box \ {S.x} /\ b.last = L
      /\ b.owed = a.owed /\ b.rlone = a.rlone /\ b.ryoung = a.ryoung
  BY <1>1 DEF Assign, States
<1>7. a.young \subseteq Locals /\ a.lone \subseteq Locals /\ a.box \subseteq Locals
      /\ a.last \subseteq Locals \X Locals /\ a.owed \subseteq Locals \X Locals
  BY <1>1 DEF States
<1>8. \A p : Lone(p)' <=> Lone(p)
  BY <1>3, <1>4 DEF Lone
<1>9. LocalsKnown(b)'
  <2>1. \A l \in b.young : local'[l] \in YoungCells
    BY <1>1, <1>5, <1>6, <1>7 DEF Models, LocalsKnown
  <2>2. \A l \in b.lone : Lone(local[l]) /\ local'[l] = local[l]
    BY <1>1, <1>5, <1>6, <1>7 DEF Models, LocalsKnown
  <2>3. \A l \in b.lone : Lone(local[l])'
    BY <1>3, <1>4, <2>2 DEF Lone
  <2>4. \A l \in b.box : local'[l] \in Live /\ kid[local'[l]][1] \in YoungCells
    BY <1>1, <1>5, <1>6, <1>7 DEF Models, LocalsKnown
  <2>5. b.fresh \subseteq fresh'
    BY <1>1, <1>5, <1>6 DEF Models, LocalsKnown
  <2> QED BY <1>3, <1>4, <2>1, <2>3, <2>4, <2>5 DEF LocalsKnown
<1>10. RootsKnown(b)'
  BY <1>1, <1>3, <1>4, <1>6 DEF Models, RootsKnown, Lone
<1>11. EdgesKnown(b)'
  <2> SUFFICES ASSUME a.strict
               PROVE  /\ \A p \in L : local'[p[1]] \in OldCells /\ local'[p[2]] \in YoungCells
                                        => local'[p[1]] \in SetOf(remembered)
                      /\ \A o \in OldCells : \A f \in Fields : kid[o][f] \in YoungCells =>
                           o \in SetOf(remembered)
                             \/ \E p \in a.owed : local'[p[1]] = o /\ local'[p[2]] = kid[o][f]
    BY <1>3, <1>4, <1>6 DEF EdgesKnown
  <2>1. EdgesKnown(a)
    BY <1>1 DEF Models
  <2>2. ASSUME NEW p \in L, local'[p[1]] \in OldCells, local'[p[2]] \in YoungCells
        PROVE  local'[p[1]] \in SetOf(remembered)
    <3>1. CASE p \in a.last /\ p[1] # S.x /\ p[2] # S.x
      <4>1. local'[p[1]] = local[p[1]] /\ local'[p[2]] = local[p[2]]
        BY <1>5, <1>7, <3>1
      <4> QED BY <2>1, <2>2, <3>1, <4>1 DEF EdgesKnown
    <3> QED BY <2>2, <3>1
  <2>3. \A p \in a.owed : local'[p[1]] = local[p[1]] /\ local'[p[2]] = local[p[2]]
    BY <1>5, <1>7 DEF Unowed
  <2>4. ASSUME NEW o \in OldCells, NEW f \in Fields, kid[o][f] \in YoungCells
        PROVE  o \in SetOf(remembered) \/ \E p \in a.owed : local'[p[1]] = o /\ local'[p[2]] = kid[o][f]
    BY <2>1, <2>3, <2>4 DEF EdgesKnown
  <2> QED BY <2>2, <2>4
<1>12. /\ phase' = "run" /\ roots'[T] = Null /\ fresh' \subseteq Locals /\ payload' \in [Id -> Payloads(texts)]
       /\ \A l \in fresh' : local'[l] \in Live' \cup {Null}
  BY <1>1, <1>2, <1>3, <1>4, <1>5 DEF Disciplined
<1> QED BY <1>4, <1>5, <1>9, <1>10, <1>11, <1>12, StillGood

LEMMA ReadsKeep ==
  ASSUME InOrder, NEW texts, NEW a, Disciplined(texts, a), Reads, NEW b, b = After(a, S)
  PROVE  InOrder' /\ Disciplined(texts, b)'
<1>1. Takes("read") /\ Assigned(S.x, roots[S.n]) /\ SameHeap /\ UNCHANGED <<roots, payload, setup, sloppy>>
  BY DEF Reads, call_vars
<1>2. /\ S.op = "read" /\ Allowed(a, S) /\ Calm /\ Models(a)
  BY <1>1, Taken
<1>3. S.x \in Locals /\ S.n \in Handles /\ Unowed(a, S.x)
  BY <1>2 DEF Allowed
<1> DEFINE Y == IF S.n \in a.ryoung THEN {S.x} ELSE {}
<1>4. b = Assign(a, S.x, Y, Without(a.last, S.x))
  BY <1>2 DEF After
<1>5. roots[S.n] \in Live \cup {Null} /\ (S.n \in a.ryoung => roots[S.n] \in YoungCells)
  BY <1>2, <1>3, Numbers DEF Calm, Closed, Models, RootsKnown
<1>6. \A p \in Without(a.last, S.x) : p \in a.last /\ p[1] # S.x /\ p[2] # S.x
  BY DEF Without
<1>7. Y \subseteq {S.x} /\ (Y # {} => roots[S.n] \in YoungCells)
  BY <1>5
<1> HIDE DEF Y
<1> QED BY <1>1, <1>3, <1>4, <1>5, <1>6, <1>7, Receives

LEMMA LoadsKeep ==
  ASSUME InOrder, NEW texts, NEW a, Disciplined(texts, a), Loads, NEW b, b = After(a, S)
  PROVE  InOrder' /\ Disciplined(texts, b)'
<1> DEFINE v == IF NullUsed THEN Null ELSE kid[local[S.y]][S.n]
<1>1. Takes("load") /\ Assigned(S.x, v) /\ SameHeap /\ UNCHANGED <<roots, payload, setup, sloppy>>
  BY DEF Loads, call_vars
<1>2. /\ S.op = "load" /\ Allowed(a, S) /\ Calm /\ Models(a)
  BY <1>1, Taken
<1>3. S.x \in Locals /\ S.y \in a.fresh /\ S.n \in Fields /\ Unowed(a, S.x)
  BY <1>2 DEF Allowed
<1>4. S.y \in Locals /\ local[S.y] \in Live \cup {Null} /\ local \in [Locals -> Ptr]
  BY <1>2, <1>3 DEF Models, LocalsKnown, InOrder
<1>5. v = IF local[S.y] = Null THEN Null ELSE kid[local[S.y]][S.n]
  BY <1>2 DEF NullUsed
<1> DEFINE Y == IF S.y \in a.box /\ S.n = 1 THEN {S.x} ELSE {}
           L == IF S.x # S.y /\ a.owed = {} THEN {<<S.y, S.x>>} ELSE {}
<1>6. b = Assign(a, S.x, Y, L)
  BY <1>2 DEF After
<1>7. v \in Live \cup {Null}
  BY <1>2, <1>3, <1>4, <1>5 DEF Calm, Closed
<1>8. Null \notin Live /\ OldCells \subseteq Live
  BY Cells DEF InOrder
<1>9. S.y \in a.box /\ S.n = 1 => v \in YoungCells
  BY <1>2, <1>5, <1>8 DEF Models, LocalsKnown
<1>10. ASSUME a.strict, S.x # S.y, a.owed = {}, local'[S.y] \in OldCells, local'[S.x] \in YoungCells
       PROVE  local'[S.y] \in SetOf(remembered)
  <2>1. local'[S.x] = v /\ local'[S.y] = local[S.y]
    BY <1>1, <1>3, <1>4, <1>10 DEF Assigned
  <2>2. local[S.y] \in OldCells /\ kid[local[S.y]][S.n] \in YoungCells
    BY <1>5, <1>8, <1>10, <2>1
  <2> QED BY <1>2, <1>3, <1>10, <2>1, <2>2 DEF Models, EdgesKnown
<1>11. Y \subseteq {S.x} /\ (Y # {} => v \in YoungCells)
  BY <1>9
<1>12. a.strict => \A p \in L : local'[p[1]] \in OldCells /\ local'[p[2]] \in YoungCells
                                  => local'[p[1]] \in SetOf(remembered)
  BY <1>10
<1> HIDE DEF v, Y, L
<1> QED BY <1>1, <1>3, <1>6, <1>7, <1>11, <1>12, Receives

\* A step that changes only roots, or a payload.
LEMMA Reroots ==
  ASSUME InOrder, NEW texts, NEW a, Disciplined(texts, a), NEW op, op # "new", Takes(op),
         NEW b, b = After(a, S), NEW R, NEW Y, b = [a EXCEPT !.rlone = R, !.ryoung = Y],
         SameHeap, UNCHANGED <<local, fresh, setup, sloppy>>, payload' \in [Id -> Payloads(texts)],
         roots' \in [Roots -> Live \cup {Null}], roots'[T] = Null,
         \A r \in R : Lone(roots'[r]), \A r \in Y : roots'[r] \in YoungCells
  PROVE  InOrder' /\ Disciplined(texts, b)'
<1>1. /\ phase = "run" /\ Calm /\ Models(a) /\ a \in States
  BY Taken
<1>2. /\ TypeOK /\ IdInv /\ local \in [Locals -> Ptr] /\ fresh \subseteq Locals
      /\ \A l \in fresh : local[l] \in Live \cup {Null}
  BY DEF InOrder
<1>3. UNCHANGED <<space, kid, age, fwd, mark, remembered, remembered_next, over_cap, phase, pending, minor, major,
                  stale, id>>
  BY DEF SameHeap, object, remset
<1>4. /\ TypeOK' /\ IdInv' /\ Calm'
      /\ YoungCells' = YoungCells /\ OldCells' = OldCells /\ Live' = Live
  <2>1. kid' \in [Addr -> [Fields -> Ptr]]
    BY <1>2, <1>3, Cells
  <2>2. \A c \in Live : \A f \in Fields : kid'[c][f] \in Live \cup {Null}
    BY <1>1, <1>3 DEF Calm, Closed
  <2>3. remembered' \in Seq(OldAddr) /\ SetOf(remembered') \subseteq OldCells
    BY <1>1, <1>2, <1>3, Cells DEF Calm
  <2> QED BY <1>1, <1>2, <1>3, <2>1, <2>2, <2>3, QuietStep
<1>5. /\ b.strict = a.strict /\ b.fresh = a.fresh /\ b.young = a.young /\ b.lone = a.lone /\ b.box = a.box
      /\ b.last = a.last /\ b.owed = a.owed /\ b.rlone = R /\ b.ryoung = Y
  BY <1>1 DEF States
<1>6. LocalsKnown(b)'
  BY <1>1, <1>3, <1>4, <1>5 DEF Models, LocalsKnown, Lone
<1>7. RootsKnown(b)'
  BY <1>3, <1>4, <1>5 DEF RootsKnown, Lone
<1>8. EdgesKnown(b)'
  BY <1>1, <1>3, <1>4, <1>5 DEF Models, EdgesKnown
<1>9. phase' = "run" /\ \A l \in fresh' : local'[l] \in Live' \cup {Null}
  BY <1>1, <1>2, <1>3, <1>4
<1> QED BY <1>2, <1>4, <1>6, <1>7, <1>8, <1>9, StillGood

LEMMA PushesRootKeep ==
  ASSUME InOrder, NEW texts, NEW a, Disciplined(texts, a), PushesRoot, NEW b, b = After(a, S)
  PROVE  InOrder' /\ Disciplined(texts, b)'
<1>1. Takes("root") /\ roots' = [roots EXCEPT ![S.n] = local[S.x]] /\ SameHeap
      /\ UNCHANGED <<payload, local, fresh, setup, sloppy>>
  BY DEF PushesRoot, call_vars
<1>2. /\ S.op = "root" /\ Allowed(a, S) /\ Calm /\ Models(a) /\ roots[T] = Null
  BY <1>1, Taken
<1>3. S.x \in a.fresh /\ S.n \in Handles
  BY <1>2 DEF Allowed
<1> DEFINE R == IF S.x \in a.lone THEN a.rlone \cup {S.n} ELSE a.rlone \ {S.n}
           Y == IF S.x \in a.young THEN a.ryoung \cup {S.n} ELSE a.ryoung \ {S.n}
<1>4. b = [a EXCEPT !.rlone = R, !.ryoung = Y]
  BY <1>2 DEF After
<1>5. /\ TypeOK /\ roots \in [Roots -> Ptr] /\ local[S.x] \in Live \cup {Null}
      /\ \A r \in Roots : roots[r] \in Live \cup {Null}
  BY <1>2, <1>3, Cells DEF InOrder, Models, LocalsKnown, Calm, Closed
<1>6. S.n \in Roots /\ T \in Roots /\ S.n # T /\ Handles \subseteq Roots
  BY <1>3, Numbers
<1>7. /\ roots' \in [Roots -> Live \cup {Null}] /\ roots'[T] = Null
      /\ roots'[S.n] = local[S.x] /\ \A r \in Roots : r # S.n => roots'[r] = roots[r]
  BY <1>1, <1>2, <1>5, <1>6
<1>8. a.rlone \subseteq Roots /\ a.ryoung \subseteq Roots
  BY <1>1, <1>6, Taken DEF States
<1>9. \A r \in R : Lone(roots'[r])
  BY <1>2, <1>7, <1>8 DEF Models, LocalsKnown, RootsKnown
<1>10. \A r \in Y : roots'[r] \in YoungCells
  BY <1>2, <1>7, <1>8 DEF Models, LocalsKnown, RootsKnown
<1>11. payload' \in [Id -> Payloads(texts)]
  BY <1>1 DEF Disciplined
<1> HIDE DEF R, Y
<1> QED BY <1>1, <1>4, <1>7, <1>9, <1>10, <1>11, Reroots

LEMMA PopsRootsKeep ==
  ASSUME InOrder, NEW texts, NEW a, Disciplined(texts, a), PopsRoots, NEW b, b = After(a, S)
  PROVE  InOrder' /\ Disciplined(texts, b)'
<1>1. Takes("drop") /\ roots' = [r \in Roots |-> IF r >= S.n THEN Null ELSE roots[r]] /\ SameHeap
      /\ UNCHANGED <<payload, local, fresh, setup, sloppy>>
  BY DEF PopsRoots, call_vars
<1>2. /\ S.op = "drop" /\ Calm /\ Models(a) /\ roots[T] = Null /\ a \in States /\ S \in Micro(texts)
  BY <1>1, Taken
<1> DEFINE R == {r \in a.rlone : r < S.n}
           Y == {r \in a.ryoung : r < S.n}
<1>3. b = [a EXCEPT !.rlone = R, !.ryoung = Y]
  BY <1>2 DEF After
<1>4. /\ roots' \in [Roots -> Live \cup {Null}] /\ roots'[T] = Null
  BY <1>1, <1>2, Numbers DEF Calm, Closed
<1>5. \A r \in Handles : r < S.n => roots'[r] = roots[r]
  <2>1. S.n \in Nat
    BY <1>2 DEF Micro
  <2>2. \A r \in Handles : r \in Nat /\ r \in Roots
    BY Numbers
  <2> QED BY <1>1, <2>1, <2>2
<1>6. a.rlone \subseteq Handles /\ a.ryoung \subseteq Handles
  BY <1>2 DEF States
<1>7. (\A r \in R : Lone(roots'[r])) /\ \A r \in Y : roots'[r] \in YoungCells
  BY <1>2, <1>5, <1>6 DEF Models, RootsKnown
<1>8. payload' \in [Id -> Payloads(texts)]
  BY <1>1 DEF Disciplined
<1> HIDE DEF R, Y
<1> QED BY <1>1, <1>3, <1>4, <1>7, <1>8, Reroots

LEMMA ReturnsKeep ==
  ASSUME InOrder, NEW texts, NEW a, Disciplined(texts, a), Returns, NEW b, b = After(a, S)
  PROVE  InOrder' /\ Disciplined(texts, b)'
<1>1. Takes("ret") /\ roots' = (IF S.n = 0 THEN roots ELSE [roots EXCEPT ![S.n] = local[S.x]]) /\ SameHeap
      /\ UNCHANGED <<payload, local, fresh, setup, sloppy>>
  BY DEF Returns, call_vars
<1>2. /\ S.op = "ret" /\ Allowed(a, S) /\ Calm /\ Models(a) /\ roots[T] = Null /\ a \in States
  BY <1>1, Taken
<1>3. S.x \in a.fresh /\ S.n \in 0 .. NRegs
  BY <1>2 DEF Allowed
<1> DEFINE R == a.rlone \ {S.n}
           Y == a.ryoung \ {S.n}
<1>4. b = [a EXCEPT !.rlone = R, !.ryoung = Y]
  BY <1>2 DEF After
<1>5. /\ TypeOK /\ roots \in [Roots -> Ptr] /\ local[S.x] \in Live \cup {Null}
      /\ \A r \in Roots : roots[r] \in Live \cup {Null}
  BY <1>2, <1>3, Cells DEF InOrder, Models, LocalsKnown, Calm, Closed
<1>6. S.n # 0 => S.n \in Handles
  BY <1>3, Numbers DEF Regs
<1>7. T \in Roots /\ T \notin Handles /\ Handles \subseteq Roots
  BY Numbers
<1>8. /\ roots' \in [Roots -> Live \cup {Null}] /\ roots'[T] = Null
      /\ \A r \in Roots : r # S.n => roots'[r] = roots[r]
  BY <1>1, <1>2, <1>5, <1>6, <1>7
<1>9. a.rlone \subseteq Roots /\ a.ryoung \subseteq Roots
  BY <1>2, <1>7 DEF States
<1>10. (\A r \in R : Lone(roots'[r])) /\ \A r \in Y : roots'[r] \in YoungCells
  BY <1>2, <1>8, <1>9 DEF Models, RootsKnown
<1>11. payload' \in [Id -> Payloads(texts)]
  BY <1>1 DEF Disciplined
<1> HIDE DEF R, Y
<1> QED BY <1>1, <1>4, <1>8, <1>10, <1>11, Reroots

LEMMA UpdatesKeep ==
  ASSUME InOrder, NEW texts, NEW a, Disciplined(texts, a), Updates, NEW b, b = After(a, S)
  PROVE  InOrder' /\ Disciplined(texts, b)'
<1>1. /\ Takes("len") \/ Takes("cap")
      /\ SameHeap /\ UNCHANGED <<roots, local, fresh, setup, sloppy>>
  BY DEF Updates, call_vars
<1>2. PICK op \in {"len", "cap"} : Takes(op)
  BY <1>1
<1>3. op # "new"
  OBVIOUS
<1>4. /\ S.op = op /\ Allowed(a, S) /\ Calm /\ Models(a) /\ roots[T] = Null /\ a \in States /\ S \in Micro(texts)
  BY <1>2, <1>3, Taken
<1>5. b = [a EXCEPT !.rlone = a.rlone, !.ryoung = a.ryoung]
  <2>1. b = a
    BY <1>4 DEF After
  <2> QED BY <1>4, <2>1 DEF States
<1>6. payload' \in [Id -> Payloads(texts)]
  <2>1. payload \in [Id -> Payloads(texts)] /\ S.n \in Nat /\ (op = "len" => S.n \in 0 .. NFields)
    BY <1>4 DEF Disciplined, Micro, Allowed
  <2>2. \A p \in Payloads(texts) : /\ [p EXCEPT !.cap = S.n] \in Payloads(texts)
                                   /\ op = "len" => [p EXCEPT !.len = S.n] \in Payloads(texts)
    BY <2>1 DEF Payloads
  <2>3. CASE payload' = payload
    BY <2>1, <2>3
  <2>4. CASE op = "len" /\ payload' = [payload EXCEPT ![id[local[S.x]]].len = S.n]
    BY <2>1, <2>2, <2>4
  <2>5. CASE payload' = [payload EXCEPT ![id[local[S.x]]].cap = S.n]
    BY <2>1, <2>2, <2>5
  <2> QED BY <1>4, <2>3, <2>4, <2>5 DEF Updates
<1>7. roots' \in [Roots -> Live \cup {Null}] /\ roots'[T] = Null
  BY <1>1, <1>4, Cells DEF InOrder, Calm, Closed
<1>8. (\A r \in a.rlone : Lone(roots'[r])) /\ \A r \in a.ryoung : roots'[r] \in YoungCells
  BY <1>1, <1>4 DEF Models, RootsKnown
<1> QED BY <1>1, <1>2, <1>3, <1>5, <1>6, <1>7, <1>8, Reroots

LEMMA StoresKeep ==
  ASSUME InOrder, NEW texts, NEW a, Disciplined(texts, a), Stores, NEW b, b = After(a, S)
  PROVE  InOrder' /\ Disciplined(texts, b)'
<1>1. /\ Takes("store") /\ kid' = (IF NullUsed THEN kid ELSE [kid EXCEPT ![local[S.x]][S.n] = local[S.y]])
      /\ UNCHANGED <<space, age, fwd, mark, remembered, remembered_next, over_cap, phase, pending, minor, major,
                     stale, id>>
      /\ UNCHANGED <<roots, payload, local, fresh, setup, sloppy>>
  BY DEF Stores, call_vars, remset
<1>2. /\ S.op = "store" /\ Allowed(a, S) /\ phase = "run" /\ Calm /\ Models(a) /\ roots[T] = Null /\ a \in States
  BY <1>1, Taken
<1>3. S.x \in a.fresh /\ S.y \in a.fresh /\ S.n \in Fields
  BY <1>2 DEF Allowed
<1>4. /\ TypeOK /\ IdInv /\ local \in [Locals -> Ptr] /\ fresh \subseteq Locals
      /\ \A l \in fresh : local[l] \in Live \cup {Null}
  BY DEF InOrder
<1>5. S.x \in Locals /\ S.y \in Locals /\ local[S.x] \in Live \cup {Null} /\ local[S.y] \in Live \cup {Null}
  BY <1>2, <1>3, <1>4 DEF Models, LocalsKnown
<1>6. /\ Live = YoungCells \cup OldCells /\ YoungCells \cap OldCells = {} /\ Null \notin Live
      /\ Live \subseteq Addr /\ Live \cup {Null} \subseteq Ptr
      /\ kid \in [Addr -> [Fields -> Ptr]] /\ roots \in [Roots -> Ptr] /\ remembered \in Seq(OldAddr)
  BY <1>4, Cells
<1>7. kid' = IF local[S.x] = Null THEN kid ELSE [kid EXCEPT ![local[S.x]][S.n] = local[S.y]]
  BY <1>1, <1>2 DEF NullUsed
<1>8. /\ kid' \in [Addr -> [Fields -> Ptr]]
      /\ \A c \in Addr : \A f \in Fields :
           kid'[c][f] = IF c = local[S.x] /\ f = S.n /\ local[S.x] # Null THEN local[S.y] ELSE kid[c][f]
  BY <1>3, <1>5, <1>6, <1>7
<1>9. \A c \in Live : \A f \in Fields : kid'[c][f] \in Live \cup {Null}
  BY <1>2, <1>5, <1>6, <1>8 DEF Calm, Closed
<1>10. /\ TypeOK' /\ IdInv' /\ Calm'
       /\ YoungCells' = YoungCells /\ OldCells' = OldCells /\ Live' = Live
  <2>1. roots' \in [Roots -> Live \cup {Null}]
    BY <1>1, <1>2, <1>6 DEF Calm, Closed
  <2>2. remembered' \in Seq(OldAddr) /\ SetOf(remembered') \subseteq OldCells
    BY <1>1, <1>2, <1>6 DEF Calm
  <2> QED BY <1>1, <1>2, <1>4, <1>8, <1>9, <2>1, <2>2, QuietStep
<1> DEFINE B == IF S.n = 1 /\ S.x \in a.young /\ S.y \in a.young THEN {S.x} ELSE {}
           O == IF ~a.strict \/ S.x \in a.young \/ <<S.x, S.y>> \in a.last THEN a.owed
                ELSE a.owed \cup {<<S.x, S.y>>}
<1>11. b = [a EXCEPT !.lone = {}, !.rlone = {}, !.box = B, !.owed = O]
  BY <1>2 DEF After
<1>12. /\ b.strict = a.strict /\ b.fresh = a.fresh /\ b.young = a.young /\ b.lone = {} /\ b.box = B
       /\ b.last = a.last /\ b.owed = O /\ b.rlone = {} /\ b.ryoung = a.ryoung
  BY <1>2, <1>11 DEF States
<1>13. LocalsKnown(b)'
  <2>1. \A l \in B : local'[l] \in Live' /\ kid'[local'[l]][1] \in YoungCells'
    <3>1. SUFFICES ASSUME S.n = 1, S.x \in a.young, S.y \in a.young
                   PROVE  local[S.x] \in Live /\ kid'[local[S.x]][1] \in YoungCells
      BY <1>1, <1>10
    <3>2. local[S.x] \in YoungCells /\ local[S.y] \in YoungCells
      BY <1>2, <3>1 DEF Models, LocalsKnown
    <3> QED BY <1>3, <1>6, <1>8, <3>1, <3>2
  <2>2. \A l \in b.young : local'[l] \in YoungCells'
    BY <1>1, <1>2, <1>10, <1>12 DEF Models, LocalsKnown
  <2>3. b.fresh \subseteq fresh'
    BY <1>1, <1>2, <1>12 DEF Models, LocalsKnown
  <2> HIDE DEF B
  <2> QED BY <1>12, <2>1, <2>2, <2>3 DEF LocalsKnown
<1>14. RootsKnown(b)'
  BY <1>1, <1>2, <1>10, <1>12 DEF Models, RootsKnown
<1>15. EdgesKnown(b)'
  <2> SUFFICES ASSUME a.strict
               PROVE  /\ \A p \in a.last : local[p[1]] \in OldCells /\ local[p[2]] \in YoungCells
                                             => local[p[1]] \in SetOf(remembered)
                      /\ \A o \in OldCells : \A f \in Fields : kid'[o][f] \in YoungCells =>
                           o \in SetOf(remembered)
                             \/ \E p \in O : local[p[1]] = o /\ local[p[2]] = kid'[o][f]
    <3> HIDE DEF O
    <3> QED BY <1>1, <1>10, <1>12 DEF EdgesKnown
  <2>1. EdgesKnown(a)
    BY <1>2 DEF Models
  <2>2. ASSUME NEW o \in OldCells, NEW f \in Fields, kid'[o][f] \in YoungCells
        PROVE  o \in SetOf(remembered) \/ \E p \in O : local[p[1]] = o /\ local[p[2]] = kid'[o][f]
    <3>1. CASE o = local[S.x] /\ f = S.n /\ local[S.x] # Null
      <4>1. kid'[o][f] = local[S.y] /\ local[S.y] \in YoungCells /\ local[S.x] \in OldCells
        BY <1>6, <1>8, <2>2, <3>1
      <4>2. S.x \notin a.young
        BY <1>2, <1>6, <4>1 DEF Models, LocalsKnown
      <4>3. CASE <<S.x, S.y>> \in a.last
        <5>1. local[S.x] \in SetOf(remembered)
          <6> DEFINE p == <<S.x, S.y>>
          <6>1. p[1] = S.x /\ p[2] = S.y
            OBVIOUS
          <6> HIDE DEF p
          <6>2. p \in a.last
            BY <4>3 DEF p
          <6> QED BY <2>1, <4>1, <6>1, <6>2 DEF EdgesKnown
        <5> QED BY <3>1, <5>1
      <4>4. CASE <<S.x, S.y>> \notin a.last
        <5>1. <<S.x, S.y>> \in O
          BY <4>2, <4>4
        <5> QED BY <3>1, <4>1, <5>1
      <4> QED BY <4>3, <4>4
    <3>2. CASE ~(o = local[S.x] /\ f = S.n /\ local[S.x] # Null)
      <4>1. kid'[o][f] = kid[o][f]
        BY <1>6, <1>8, <3>2
      <4>2. a.owed \subseteq O
        OBVIOUS
      <4> HIDE DEF O
      <4> QED BY <2>1, <2>2, <4>1, <4>2 DEF EdgesKnown
    <3> QED BY <3>1, <3>2
  <2> QED BY <2>1, <2>2 DEF EdgesKnown
<1>16. /\ phase' = "run" /\ roots'[T] = Null /\ local' \in [Locals -> Ptr] /\ fresh' \subseteq Locals
       /\ \A l \in fresh' : local'[l] \in Live' \cup {Null}
       /\ payload' \in [Id -> Payloads(texts)]
  BY <1>1, <1>2, <1>4, <1>10 DEF Disciplined
<1> QED BY <1>1, <1>10, <1>13, <1>14, <1>15, <1>16, StillGood

LEMMA BarrierKeeps ==
  ASSUME InOrder, NEW texts, NEW a, Disciplined(texts, a), write_barrier, NEW b, b = After(a, S)
  PROVE  InOrder' /\ Disciplined(texts, b)'
<1>1. /\ Takes("barrier")
      /\ remembered' = (IF local[S.y] # Null /\ is_old(local[S.x]) /\ is_young(local[S.y])
                        THEN Append(remembered, local[S.x]) ELSE remembered)
      /\ UNCHANGED <<space, kid, age, fwd, mark, roots, remembered_next, over_cap, phase, pending, minor, major,
                     stale, id>>
      /\ UNCHANGED <<payload, local, fresh, setup, sloppy>>
  BY DEF write_barrier, call_vars, object
<1>2. /\ S.op = "barrier" /\ Allowed(a, S) /\ phase = "run" /\ Calm /\ Models(a) /\ roots[T] = Null /\ a \in States
  BY <1>1, Taken
<1>3. S.x \in a.fresh /\ S.y \in a.fresh
  BY <1>2 DEF Allowed
<1>4. /\ TypeOK /\ IdInv /\ local \in [Locals -> Ptr] /\ fresh \subseteq Locals
      /\ \A l \in fresh : local[l] \in Live \cup {Null}
  BY DEF InOrder
<1>5. S.x \in Locals /\ S.y \in Locals /\ local[S.x] \in Live \cup {Null} /\ local[S.y] \in Live \cup {Null}
  BY <1>2, <1>3, <1>4 DEF Models, LocalsKnown
<1>6. /\ Live = YoungCells \cup OldCells /\ YoungCells \cap OldCells = {} /\ Null \notin Live
      /\ Live \subseteq Addr /\ Live \cup {Null} \subseteq Ptr /\ OldCells \subseteq OldAddr
      /\ \A p \in Ptr : is_old(p) <=> p \in OldCells
      /\ \A p \in YoungCells : is_young(p)
      /\ kid \in [Addr -> [Fields -> Ptr]] /\ roots \in [Roots -> Ptr] /\ remembered \in Seq(OldAddr)
  BY <1>4, Cells
<1>7. /\ remembered' \in Seq(OldAddr) /\ SetOf(remembered') \subseteq OldCells
      /\ SetOf(remembered) \subseteq SetOf(remembered')
      /\ local[S.x] \in OldCells /\ local[S.y] \in YoungCells => local[S.x] \in SetOf(remembered')
  <2>1. CASE local[S.y] # Null /\ is_old(local[S.x]) /\ is_young(local[S.y])
    <3>1. local[S.x] \in OldCells /\ remembered' = Append(remembered, local[S.x])
      BY <1>1, <1>5, <1>6, <2>1
    <3>2. remembered' \in Seq(OldAddr) /\ SetOf(remembered') = SetOf(remembered) \cup {local[S.x]}
      BY <1>6, <3>1, SetOfAppend, AppendProperties
    <3> QED BY <1>2, <3>1, <3>2 DEF Calm
  <2>2. CASE ~(local[S.y] # Null /\ is_old(local[S.x]) /\ is_young(local[S.y]))
    <3>1. remembered' = remembered
      BY <1>1, <2>2
    <3>2. ~(local[S.x] \in OldCells /\ local[S.y] \in YoungCells)
      BY <1>5, <1>6, <2>2
    <3> QED BY <1>2, <1>6, <3>1, <3>2 DEF Calm
  <2> QED BY <2>1, <2>2
<1>8. /\ TypeOK' /\ IdInv' /\ Calm'
      /\ YoungCells' = YoungCells /\ OldCells' = OldCells /\ Live' = Live
  <2>1. roots' \in [Roots -> Live \cup {Null}] /\ kid' \in [Addr -> [Fields -> Ptr]]
        /\ \A c \in Live : \A f \in Fields : kid'[c][f] \in Live \cup {Null}
    BY <1>1, <1>2, <1>6 DEF Calm, Closed
  <2> QED BY <1>1, <1>2, <1>4, <1>7, <2>1, QuietStep
<1> DEFINE O == a.owed \ {<<S.x, S.y>>}
<1>9. b = [a EXCEPT !.owed = O]
  BY <1>2 DEF After
<1>10. /\ b.strict = a.strict /\ b.fresh = a.fresh /\ b.young = a.young /\ b.lone = a.lone /\ b.box = a.box
       /\ b.last = a.last /\ b.owed = O /\ b.rlone = a.rlone /\ b.ryoung = a.ryoung
  BY <1>2, <1>9 DEF States
<1>11. LocalsKnown(b)'
  BY <1>1, <1>2, <1>8, <1>10 DEF Models, LocalsKnown, Lone
<1>12. RootsKnown(b)'
  BY <1>1, <1>2, <1>8, <1>10 DEF Models, RootsKnown, Lone
<1>13. EdgesKnown(b)'
  <2> SUFFICES ASSUME a.strict
               PROVE  /\ \A p \in a.last : local[p[1]] \in OldCells /\ local[p[2]] \in YoungCells
                                             => local[p[1]] \in SetOf(remembered')
                      /\ \A o \in OldCells : \A f \in Fields : kid[o][f] \in YoungCells =>
                           o \in SetOf(remembered')
                             \/ \E p \in O : local[p[1]] = o /\ local[p[2]] = kid[o][f]
    <3>1. (SetOf(remembered))' = SetOf(remembered')
      BY DEF SetOf
    <3> HIDE DEF O
    <3> QED BY <1>1, <1>8, <1>10, <3>1 DEF EdgesKnown
  <2>1. EdgesKnown(a)
    BY <1>2 DEF Models
  <2>2. ASSUME NEW o \in OldCells, NEW f \in Fields, kid[o][f] \in YoungCells
        PROVE  o \in SetOf(remembered') \/ \E p \in O : local[p[1]] = o /\ local[p[2]] = kid[o][f]
    <3>1. CASE o \in SetOf(remembered)
      BY <1>7, <3>1
    <3>2. CASE o \notin SetOf(remembered)
      <4>1. PICK p \in a.owed : local[p[1]] = o /\ local[p[2]] = kid[o][f]
        BY <2>1, <2>2, <3>2 DEF EdgesKnown
      <4>2. CASE p = <<S.x, S.y>>
        BY <1>7, <2>2, <4>1, <4>2
      <4>3. CASE p # <<S.x, S.y>>
        BY <4>1, <4>3
      <4> QED BY <4>2, <4>3
    <3> QED BY <3>1, <3>2
  <2> QED BY <1>7, <2>1, <2>2 DEF EdgesKnown
<1>14. /\ phase' = "run" /\ roots'[T] = Null /\ local' \in [Locals -> Ptr] /\ fresh' \subseteq Locals
       /\ \A l \in fresh' : local'[l] \in Live' \cup {Null}
       /\ payload' \in [Id -> Payloads(texts)]
  BY <1>1, <1>2, <1>4, <1>8 DEF Disciplined
<1> QED BY <1>1, <1>8, <1>11, <1>12, <1>13, <1>14, StillGood

-----------------------------------------------------------------------------
(***************************************************************************)
(* An allocation: bump() finds room, or collects and tries again.          *)
(***************************************************************************)
LEMMA CalmIs == TypeOK /\ PhaseInv /\ phase = "run" => Calm
BY DEF PhaseInv, Calm, Steady, MinorPhases

\* Where a collection may begin, the heap is as it is between two calls.
LEMMA BeforeNew ==
  ASSUME InOrder, NEW texts, NEW a, Disciplined(texts, a), Doing("new"), roots[T] = Null, OldToYoungRemembered
  PROVE  PhaseInv /\ Steady /\ Calm /\ Models(a) /\ a \in States /\ phase = "run"
<1>1. phase = "run" /\ Calm
  BY DEF Doing, InOrder
<1>2. Models(a) /\ a \in States
  BY <1>1 DEF Waiting, Disciplined
<1>3. Steady
  BY <1>1 DEF Calm, Steady
<1> QED BY <1>1, <1>2, <1>3 DEF PhaseInv, Calm, MinorPhases

\* A new object is young, and nothing points to it but T.
LEMMA PlaceEffect ==
  ASSUME TypeOK, Steady, top < Semi, Place(T), UNCHANGED <<from, old_top>>
  PROVE  /\ Lone(roots[T])' /\ roots'[T] # Null
         /\ YoungCells \subseteq YoungCells' /\ Live \subseteq Live'
         /\ \A r \in Handles : roots'[r] = roots[r]
<1> DEFINE p == from + top
<1>1. /\ kid' = [kid EXCEPT ![p] = Blank] /\ age' = [age EXCEPT ![p] = 0]
      /\ top' = top + 1 /\ roots' = [roots EXCEPT ![T] = p]
  BY DEF Place
<1>2. /\ Semi \in Nat \ {0} /\ from \in {0, Semi} /\ top \in 0 .. Semi /\ old_top \in 0 .. Semi
      /\ kid \in [Addr -> [Fields -> Ptr]] /\ roots \in [Roots -> Ptr] /\ age \in [Addr -> 0 .. MaxAge]
      /\ Live \subseteq Addr /\ Null \notin Live
  BY MajorTypes, Cells DEF TypeOK, ObjectType
<1>3. p \in Addr /\ p # Null /\ p \in YoungCells' /\ YoungCells \subseteq YoungCells'
      /\ YoungCells' \subseteq YoungCells \cup {p} /\ p \notin YoungCells
  BY <1>1, <1>2 DEF YoungCells, Addr, Null
<1>4. OldCells' = OldCells /\ p \notin OldCells
  BY <1>2 DEF OldCells, OldBase
<1>5. Live \subseteq Live' /\ Live' \subseteq Live \cup {p} /\ p \notin Live
  BY <1>3, <1>4 DEF Live
<1>6. T \in Roots /\ T \notin Handles /\ Handles \subseteq Roots
  BY Numbers
<1> HIDE DEF p
<1>7. roots'[T] = p /\ \A r \in Handles : roots'[r] = roots[r]
  BY <1>1, <1>2, <1>6
<1>8. \A b \in Live' : \A f \in Fields : kid'[b][f] # p
  <2>1. ASSUME NEW b \in Live', NEW f \in Fields PROVE kid'[b][f] # p
    <3>1. CASE b = p
      <4>1. kid'[b] = Blank
        BY <1>1, <1>2, <1>3, <3>1
      <4> QED BY <1>3, <4>1 DEF Blank
    <3>2. CASE b # p
      <4>1. b \in Live /\ kid'[b] = kid[b]
        BY <1>1, <1>2, <1>5, <3>2
      <4>2. kid[b][f] \in Live \cup {Null}
        BY <4>1 DEF Steady, Closed
      <4> QED BY <1>3, <1>5, <4>1, <4>2
    <3> QED BY <3>1, <3>2
  <2> QED BY <2>1
<1>9. Lone(roots[T])'
  BY <1>1, <1>2, <1>3, <1>7, <1>8 DEF Lone
<1> QED BY <1>3, <1>5, <1>7, <1>9

LEMMA AllocatesKeep ==
  ASSUME InOrder, NEW texts, NEW a, Disciplined(texts, a), Allocates, OldToYoungRemembered
  PROVE  InOrder' /\ Disciplined(texts, a)'
<1>1. /\ Doing("new") /\ roots[T] = Null /\ Alloc(T) /\ IdStep
      /\ UNCHANGED <<payload, local, fresh, todo, setup, sloppy>>
  BY DEF Allocates, call_vars
<1>2. PhaseInv /\ Steady /\ Calm /\ Models(a) /\ a \in States /\ phase = "run"
  BY <1>1, BeforeNew
<1>3. TypeOK /\ IdInv /\ T \in Roots
  BY Numbers DEF InOrder
<1>4. top < Semi /\ Place(T) /\ UNCHANGED <<from, old_top, phase>>
  BY <1>1 DEF Alloc
<1>5. Mutator
  BY <1>1, <1>3 DEF Mutator
<1>6. TypeOK'
  BY <1>3, <1>5, TypeStep DEF Next
<1>7. PhaseInv'
  BY <1>2, <1>3, <1>5, MutatorStep
<1>8. IdInv'
  BY <1>1, <1>2, <1>3, <1>5, <1>6, <1>7, MutatorSteps
<1>9. phase' = "run" /\ Calm'
  <2>1. phase' = "run"
    BY <1>2, <1>4
  <2>2. (TypeOK /\ PhaseInv /\ phase = "run" => Calm)'
    BY CalmIs, PTL
  <2> QED BY <1>6, <1>7, <2>1, <2>2
<1>10. /\ Lone(roots[T])' /\ roots'[T] # Null
       /\ YoungCells \subseteq YoungCells' /\ Live \subseteq Live'
       /\ \A r \in Handles : roots'[r] = roots[r]
  BY <1>2, <1>3, <1>4, PlaceEffect
<1>11. todo' # <<>> /\ Head(todo').op = "new"
  BY <1>1 DEF Doing
<1>12. InOrder'
  BY <1>1, <1>6, <1>7, <1>8, <1>9, <1>10, <1>11 DEF InOrder
<1>13. \A r \in a.rlone : MinorLone(r)'
  <2>1. \A r \in a.rlone : roots[r] \in YoungCells /\ r \in Handles
    BY <1>2 DEF Models, RootsKnown, Lone, States
  <2> QED BY <1>9, <1>10, <2>1 DEF MinorLone, MinorPhases
<1>14. Waiting'
  BY <1>10 DEF Waiting
<1>15. Disciplined(texts, a)'
  <2>1. /\ payload \in [Id -> Payloads(texts)] /\ todo \in Seq(Micro(texts))
        /\ a \in States /\ Safe(todo, a) /\ (~sloppy => a.strict)
    BY DEF Disciplined
  <2> QED BY <1>1, <1>13, <1>14, <2>1 DEF Disciplined
<1> QED BY <1>12, <1>15

LEMMA CollectingKeeps ==
  ASSUME InOrder, NEW texts, NEW a, Disciplined(texts, a), Collecting, OldToYoungRemembered
  PROVE  InOrder' /\ Disciplined(texts, a)'
<1>1. /\ Doing("new") /\ roots[T] = Null /\ AllocCollects(T) /\ IdStep /\ fresh' = {}
      /\ UNCHANGED <<payload, local, todo, setup, sloppy>>
  BY DEF Collecting, call_vars
<1>2. PhaseInv /\ Steady /\ Calm /\ Models(a) /\ a \in States /\ phase = "run"
  BY <1>1, BeforeNew
<1>3. TypeOK /\ IdInv /\ T \in Roots
  BY Numbers DEF InOrder
<1>4. /\ phase' = "remset" /\ pending' = T /\ to_top' = 0
      /\ UNCHANGED <<from, top, old_top, kid, age, fwd, roots>>
  BY <1>1 DEF AllocCollects, object
<1>5. Mutator
  BY <1>1, <1>3 DEF Mutator
<1>6. TypeOK'
  BY <1>3, <1>5, TypeStep DEF Next
<1>7. PhaseInv'
  BY <1>2, <1>3, <1>5, MutatorStep
<1>8. IdInv'
  BY <1>1, <1>2, <1>3, <1>5, <1>6, <1>7, MutatorSteps
<1>9. todo' # <<>> /\ Head(todo').op = "new"
  BY <1>1 DEF Doing
<1>10. InOrder'
  BY <1>1, <1>4, <1>6, <1>7, <1>8, <1>9 DEF InOrder
<1>11. YoungCells' = YoungCells /\ OldCells' = OldCells /\ ToCells' = {}
  <2>1. from \in {0, Semi} /\ Semi \in Nat
    BY <1>3, MajorTypes
  <2> QED BY <1>4, <2>1, SameCells DEF ToCells, to
<1>12. \A r \in a.rlone : MinorLone(r)'
  <2>1. ASSUME NEW r \in a.rlone
        PROVE  /\ roots'[r] \in YoungCells' /\ age'[roots'[r]] = 0 /\ fwd'[roots'[r]] = Null
               /\ \A b \in YoungCells' \cup ToCells' \cup OldCells' : \A f \in Fields : kid'[b][f] # roots'[r]
    <3>1. Lone(roots[r])
      BY <1>2 DEF Models, RootsKnown
    <3> QED BY <1>2, <1>4, <1>11, <3>1 DEF Lone, Calm, Live
  <2> QED BY <1>4, <2>1 DEF MinorLone, MinorPhases
<1>13. Waiting'
  BY <1>4 DEF Waiting
<1>14. Disciplined(texts, a)'
  <2>1. /\ payload \in [Id -> Payloads(texts)] /\ todo \in Seq(Micro(texts))
        /\ a \in States /\ Safe(todo, a) /\ (~sloppy => a.strict)
    BY DEF Disciplined
  <2> QED BY <1>1, <1>12, <1>13, <2>1 DEF Disciplined
<1> QED BY <1>10, <1>14

LEMMA DeliversKeep ==
  ASSUME InOrder, NEW texts, NEW a, Disciplined(texts, a), Delivers, NEW b, b = After(a, S)
  PROVE  InOrder' /\ Disciplined(texts, b)'
<1>1. /\ phase = "run" /\ todo # <<>> /\ S.op = "new" /\ roots[T] # Null
      /\ payload' = [payload EXCEPT ![id[roots[T]]] = S.p]
      /\ local' = [local EXCEPT ![S.x] = roots[T]] /\ fresh' = fresh \cup {S.x}
      /\ roots' = [roots EXCEPT ![T] = Null] /\ todo' = Tail(todo)
      /\ UNCHANGED <<space, kid, age, fwd, mark, remembered, remembered_next, over_cap, phase, pending, minor, major,
                     stale, id, setup, sloppy>>
  BY DEF Delivers, Doing, S, object, remset, call_vars
<1>2. /\ TypeOK /\ IdInv /\ local \in [Locals -> Ptr] /\ fresh \subseteq Locals /\ PhaseInv /\ Calm
      /\ Lone(roots[T]) /\ \A l \in fresh : local[l] \in Live \cup {Null}
  BY <1>1 DEF InOrder, Waiting
<1>3. /\ payload \in [Id -> Payloads(texts)] /\ todo \in Seq(Micro(texts)) /\ a \in States /\ Safe(todo, a)
      /\ (~sloppy => a.strict) /\ \A r \in a.rlone : MinorLone(r)
  BY <1>1 DEF Disciplined, Waiting
<1>4. S \in Micro(texts) /\ todo' \in Seq(Micro(texts)) /\ Allowed(a, S) /\ Safe(todo', b)
  BY <1>1, <1>3, SafeTake DEF S
<1>5. b \in States /\ b.strict = a.strict
  BY <1>3, <1>4, AfterType
<1>6. S.x \in Locals
  BY <1>1, <1>4 DEF Allowed
<1>7. b = [a EXCEPT !.fresh = {S.x}, !.young = {S.x}, !.lone = {S.x}, !.box = {}, !.rlone = {},
                    !.ryoung = a.rlone, !.last = {}, !.owed = {}]
  BY <1>1 DEF After
<1>8. /\ b.fresh = {S.x} /\ b.young = {S.x} /\ b.lone = {S.x} /\ b.box = {} /\ b.rlone = {}
      /\ b.ryoung = a.rlone /\ b.last = {} /\ b.owed = {} /\ a.rlone \subseteq Handles
  BY <1>3, <1>7 DEF States
<1>9. /\ T \in Roots /\ T \notin Handles /\ Handles \subseteq Roots
      /\ roots \in [Roots -> Ptr] /\ kid \in [Addr -> [Fields -> Ptr]] /\ remembered \in Seq(OldAddr)
      /\ Live = YoungCells \cup OldCells /\ Live \subseteq Ptr /\ Null \in Ptr
  BY <1>2, Numbers, Cells
<1>10. roots[T] \in YoungCells
  BY <1>2 DEF Lone
<1>11. /\ local' \in [Locals -> Ptr] /\ local'[S.x] = roots[T] /\ \A l \in Locals : l # S.x => local'[l] = local[l]
       /\ roots' \in [Roots -> Live \cup {Null}] /\ roots'[T] = Null
       /\ \A r \in Handles : roots'[r] = roots[r]
  BY <1>1, <1>2, <1>6, <1>9, <1>10 DEF Calm, Closed
<1>12. /\ TypeOK' /\ IdInv' /\ Calm'
       /\ YoungCells' = YoungCells /\ OldCells' = OldCells /\ Live' = Live
  <2>1. kid' \in [Addr -> [Fields -> Ptr]] /\ \A c \in Live : \A f \in Fields : kid'[c][f] \in Live \cup {Null}
    BY <1>1, <1>2, <1>9 DEF Calm, Closed
  <2>2. remembered' \in Seq(OldAddr) /\ SetOf(remembered') \subseteq OldCells
    BY <1>1, <1>2, <1>9 DEF Calm
  <2> QED BY <1>1, <1>2, <1>11, <2>1, <2>2, QuietStep
<1>13. ~Waiting'
  BY <1>1, <1>11 DEF Waiting
<1>14. InOrder'
  <2>1. \A l \in fresh' : local'[l] \in Live' \cup {Null}
    BY <1>1, <1>2, <1>9, <1>10, <1>11, <1>12
  <2>2. fresh' \subseteq Locals /\ setup' \in Seq(CallSet) /\ sloppy' \in BOOLEAN /\ phase' = "run"
    BY <1>1, <1>2, <1>6 DEF InOrder
  <2> QED BY <1>11, <1>12, <1>13, <2>1, <2>2 DEF InOrder
<1>15. LocalsKnown(b)'
  <2>1. PICK x : x = S.x
    OBVIOUS
  <2>2. Lone(local[x])'
    <3>1. local'[x] = roots[T] /\ kid' = kid /\ age' = age
      BY <1>1, <1>11, <2>1
    <3> QED BY <1>2, <1>12, <3>1 DEF Lone
  <2>3. b.fresh = {x} /\ b.young = {x} /\ b.lone = {x} /\ b.box = {} /\ x \in fresh' /\ local'[x] \in YoungCells'
    BY <1>1, <1>8, <1>10, <1>11, <1>12, <2>1
  <2> QED BY <2>2, <2>3 DEF LocalsKnown
<1>16. RootsKnown(b)'
  BY <1>1, <1>3, <1>8, <1>11, <1>12 DEF RootsKnown, MinorLone, MinorPhases
<1>17. EdgesKnown(b)'
  BY <1>1, <1>2, <1>8, <1>12 DEF EdgesKnown, PhaseInv, Steady, OldToYoungRemembered
<1>18. payload' \in [Id -> Payloads(texts)]
  <2>1. S.p \in Payloads(texts)
    BY <1>4 DEF Micro
  <2> QED BY <1>1, <1>3, <2>1
<1>19. Disciplined(texts, b)'
  <2>1. Models(b)'
    BY <1>15, <1>16, <1>17 DEF Models
  <2>2. ~sloppy' => b.strict
    BY <1>1, <1>3, <1>5
  <2> QED BY <1>4, <1>5, <1>13, <1>18, <2>1, <2>2 DEF Disciplined
<1> QED BY <1>14, <1>19

-----------------------------------------------------------------------------
(***************************************************************************)
(* A call begins.                                                          *)
(***************************************************************************)
LEMMA CallKeeps ==
  ASSUME InOrder, NEW texts, NEW a, Disciplined(texts, a), Call
  PROVE  InOrder' /\ \E more : \E b : Disciplined(more, b)'
<1>1. phase = "run" /\ todo = <<>>
  BY DEF Call, Between
<1>2. ~Waiting
  BY <1>1 DEF InOrder
<1>3. Calm /\ Models(a) /\ roots[T] = Null
  BY <1>1, <1>2 DEF InOrder, Disciplined, Waiting
<1>4. /\ TypeOK /\ IdInv /\ setup \in Seq(CallSet) /\ sloppy \in BOOLEAN
      /\ payload \in [Id -> Payloads(texts)] /\ Safe(todo, a) /\ (~sloppy => a.strict)
  BY DEF InOrder, Disciplined
<1>5. PICK c \in CallSet : Begin(c) /\ setup' \in Seq(CallSet)
  <2>1. CASE setup # <<>>
    <3>1. Head(setup) \in CallSet /\ Tail(setup) \in Seq(CallSet)
      BY <1>4, <2>1
    <3> QED BY <2>1, <3>1 DEF Call
  <2>2. CASE setup = <<>>
    BY <1>4, <2>2, CallsAssumption DEF Call
  <2> QED BY <2>1, <2>2
<1>6. /\ RightArguments(c) /\ todo' = Code(c) /\ sloppy' = (sloppy \/ c.fn \in Unbarriered)
      /\ local' = [l \in Locals |-> Null] /\ fresh' = {} /\ UNCHANGED <<vars, id, payload>>
  BY <1>5 DEF Begin, gvars
<1>7. UNCHANGED <<space, kid, age, fwd, mark, roots, remembered, remembered_next, over_cap, phase, pending, minor,
                  major, stale, id, payload>>
  BY <1>6 DEF vars, object, remset
<1>8. /\ roots \in [Roots -> Live \cup {Null}] /\ kid \in [Addr -> [Fields -> Ptr]] /\ remembered \in Seq(OldAddr)
      /\ \A f \in Live : \A g \in Fields : kid[f][g] \in Live \cup {Null}
      /\ SetOf(remembered) \subseteq OldCells /\ Live \subseteq Addr /\ Null \in Ptr
  BY <1>3, <1>4, Cells DEF Calm, Closed
<1>9. /\ TypeOK' /\ IdInv' /\ Calm'
      /\ YoungCells' = YoungCells /\ OldCells' = OldCells /\ Live' = Live
  BY <1>1, <1>3, <1>4, <1>7, <1>8, QuietStep
<1>10. \A r \in Regs : roots[r] # Null => PayloadAt(roots[r]) \in Payloads(texts)
  <2>1. \A p \in Live : id[p] # 0 /\ id[p] \in 0 .. 2 * Semi
    BY <1>1, <1>4, <1>8 DEF IdInv, IdSteady
  <2>2. \A p \in Live : id[p] \in Id
    BY <1>4, <2>1, MajorTypes DEF Id
  <2>3. \A r \in Regs : roots[r] \in Live \cup {Null}
    BY <1>8, Numbers
  <2> QED BY <1>4, <2>2, <2>3 DEF PayloadAt
<1>11. PICK more : texts \subseteq more /\ Ready(more, c)
  BY <1>5, <1>6, <1>10, ReadyTexts
<1>12. sloppy' \in BOOLEAN /\ (c.fn \in Unbarriered => sloppy' = TRUE)
  BY <1>4, <1>6
<1>13. PICK st \in BOOLEAN : st = ~sloppy'
  BY <1>12
<1>14. PICK b : b = Start(st)
  OBVIOUS
<1>15. todo' \in Seq(Micro(more)) /\ Safe(todo', b) /\ b \in States
  <2>1. c.fn \in Unbarriered => st = FALSE
    BY <1>12, <1>13
  <2> QED BY <1>6, <1>11, <1>14, <2>1, SafeCode
<1>16. /\ b.strict = st /\ b.fresh = {} /\ b.young = {} /\ b.lone = {} /\ b.box = {} /\ b.rlone = {}
       /\ b.ryoung = {} /\ b.last = {} /\ b.owed = {}
  BY <1>14 DEF Start
<1>17. ~Waiting'
  BY <1>1, <1>3, <1>7 DEF Waiting
<1>18. InOrder'
  BY <1>1, <1>3, <1>5, <1>6, <1>7, <1>8, <1>9, <1>12, <1>17 DEF InOrder
<1>19. EdgesKnown(b)'
  <2>1. a.owed = {}
    <3>1. PICK A : A[1] = a /\ A[Len(<<>>) + 1].owed = {}
      BY <1>1, <1>4 DEF Safe
    <3> QED BY <3>1
  <2>2. b.strict => a.strict
    BY <1>4, <1>6, <1>13, <1>16
  <2> QED BY <1>3, <1>7, <1>9, <1>16, <2>1, <2>2 DEF Models, EdgesKnown
<1>20. LocalsKnown(b)' /\ RootsKnown(b)'
  BY <1>16 DEF LocalsKnown, RootsKnown
<1>21. payload' \in [Id -> Payloads(more)]
  <2>1. Payloads(texts) \subseteq Payloads(more)
    BY <1>11 DEF Payloads
  <2> QED BY <1>4, <1>7, <2>1
<1>22. Disciplined(more, b)'
  <2>1. ~sloppy' => b.strict
    BY <1>13, <1>16
  <2> QED BY <1>15, <1>17, <1>19, <1>20, <1>21, <2>1 DEF Disciplined, Models
<1> QED BY <1>18, <1>22

-----------------------------------------------------------------------------
(***************************************************************************)
(* A collection runs while new_* waits.                                    *)
(***************************************************************************)
LEMMA FreeTarget ==
  ASSUME TypeOK, NEW p \in Source, NEW t, FreeCell(p, t), NeedsCopy(p)
  PROVE  t \in Addr /\ t \notin YoungCells /\ t # p /\ p \in YoungCells
<1>1. /\ Semi \in Nat \ {0} /\ from \in {0, Semi} /\ to \in {0, Semi} /\ from # to
      /\ top \in 0 .. Semi /\ to_top \in 0 .. Semi /\ old_top \in 0 .. Semi
  BY MinorTypes DEF to
<1>2. p \in YoungCells
  BY Cells DEF Source, NeedsCopy
<1>3. t \in Addr /\ t \notin YoungCells
  BY <1>1 DEF FreeCell, YoungCells, Addr, OldBase
<1> QED BY <1>2, <1>3

LEMMA RemsetLone ==
  ASSUME TypeOK, TypeOK', PhaseInv, TraceRemembered, Sound', NEW r \in Handles, MinorLone(r)
  PROVE  MinorLone(r)'
<1> DEFINE h == Head(rem)
           p == kid[h][slot]
           t == PromoteTarget(p)
<1>1. /\ phase = "remset" /\ rem # <<>> /\ TraceFieldFromOld(h)
      /\ UNCHANGED <<from, top, roots, phase>>
  BY DEF TraceRemembered
<1>2. /\ Evacuate(p, t) /\ kid' = [KidsWithCopy(p, t) EXCEPT ![h][slot] = Forwarded(p, t)]
      /\ over_cap' = (over_cap \/ PromoteSpills(p))
  BY <1>1 DEF TraceFieldFromOld
<1>3. MinorInv /\ slot \in Fields
  BY <1>1, MinorTypes DEF PhaseInv, MinorPhases
<1>4. p \in Source /\ ~PromoteSpills(p)
  BY <1>1, <1>2, <1>3, ForwardsSource DEF Sound
<1>5. NeedsCopy(p) => FreeCell(p, t) /\ t = OldBase + old_top
  BY <1>4, PromoteIntoFree
<1>6. h \in OldCells
  <2>1. rem \in Seq(OldAddr) /\ SetOf(rem) \subseteq OldCells
    BY <1>3 DEF MinorInv, TypeOK, RemsetType
  <2> QED BY <1>1, <2>1, SetOfTail
<1> DEFINE q == roots[r]
<1>7. /\ q \in YoungCells /\ age[q] = 0 /\ fwd[q] = Null
      /\ \A b \in YoungCells \cup ToCells \cup OldCells : \A f \in Fields : kid[b][f] # q
  BY <1>1 DEF MinorLone
<1>8. p # q /\ roots'[r] = q
  BY <1>1, <1>3, <1>6, <1>7
<1> HIDE DEF p, q, t, h
<1>9. /\ YoungCells' = YoungCells /\ ToCells \subseteq ToCells' /\ OldCells \subseteq OldCells'
      /\ Forwarded(p, t) \in Done'
      /\ \A a \in YoungCells \cup ToCells \cup OldCells : KidsWithCopy(p, t)[a] = kid[a]
      /\ KidsWithCopy(p, t) \in [Addr -> [Fields -> Ptr]]
      /\ \A a \in ToCells' \ ToCells : a = to + to_top
      /\ \A a \in OldCells' \ OldCells : a = OldBase + old_top
      /\ ((ToCells' \ ToCells) \cup (OldCells' \ OldCells)) \cap (ToCells \cup OldCells) = {}
  BY <1>1, <1>2, <1>3, <1>4, <1>5, Evacuation DEF MinorInv, ToInv
<1>10. /\ YoungCells \subseteq Addr /\ ToCells \subseteq Addr /\ OldCells \subseteq Addr
       /\ YoungCells \cap ToCells = {} /\ YoungCells \cap OldCells = {}
       /\ Null \notin YoungCells
  BY Geometry
<1>11. /\ YoungCells' \cap ToCells' = {} /\ YoungCells' \cap OldCells' = {}
       /\ ToCells' \subseteq Addr /\ OldCells' \subseteq Addr
  <2>1. (TypeOK => /\ YoungCells \cap ToCells = {} /\ YoungCells \cap OldCells = {}
                   /\ ToCells \subseteq Addr /\ OldCells \subseteq Addr)'
    BY Geometry, PTL
  <2> QED BY <2>1 DEF Addr
<1>12. Forwarded(p, t) # q
  BY <1>7, <1>9, <1>10, <1>11 DEF Done
<1>13. CASE ~NeedsCopy(p)
  <2>1. KidsWithCopy(p, t) = kid /\ UNCHANGED <<age, fwd, old_top, to_top>>
    BY <1>2, <1>13 DEF KidsWithCopy, Evacuate, Evacuates
  <2>2. YoungCells' = YoungCells /\ ToCells' = ToCells /\ OldCells' = OldCells
    BY <1>1, <2>1 DEF YoungCells, ToCells, OldCells, to
  <2>3. \A b \in Addr : \A f \in Fields : kid'[b][f] = IF b = h /\ f = slot THEN Forwarded(p, t) ELSE kid[b][f]
    BY <1>2, <1>3, <1>6, <1>9, <1>10, <2>1
  <2>4. \A b \in YoungCells' \cup ToCells' \cup OldCells' : \A f \in Fields : kid'[b][f] # q
    BY <1>7, <1>10, <1>12, <2>2, <2>3
  <2> QED BY <1>1, <1>7, <1>8, <2>1, <2>2, <2>4 DEF MinorLone, MinorPhases
<1>14. CASE NeedsCopy(p)
  <2>1. t \in Addr /\ t \notin YoungCells /\ t # p /\ p \in YoungCells
    BY <1>4, <1>5, <1>14, FreeTarget
  <2>2. /\ KidsWithCopy(p, t) = [kid EXCEPT ![t] = kid[p]]
        /\ fwd' = [fwd EXCEPT ![t] = Null, ![p] = t]
        /\ \E n : age' = [age EXCEPT ![t] = n]
    BY <1>2, <1>14, <2>1 DEF KidsWithCopy, Evacuate, Evacuates
  <2>3. age'[q] = 0 /\ fwd'[q] = Null
    <3>1. q \in Addr /\ age \in [Addr -> 0 .. MaxAge] /\ fwd \in [Addr -> Ptr]
      BY <1>7, <1>10 DEF TypeOK, ObjectType
    <3> QED BY <1>7, <1>8, <2>1, <2>2, <3>1
  <2>4. ASSUME NEW b \in YoungCells' \cup ToCells' \cup OldCells', NEW f \in Fields PROVE kid'[b][f] # q
    <3>0. b \in Addr
      BY <1>9, <1>10, <1>11
    <3>1. kid'[b][f] = IF b = h /\ f = slot THEN Forwarded(p, t) ELSE KidsWithCopy(p, t)[b][f]
      BY <1>2, <1>3, <1>6, <1>9, <1>10, <3>0
    <3>2. CASE b \in YoungCells \cup ToCells \cup OldCells
      BY <1>7, <1>9, <1>12, <3>1, <3>2
    <3>3. CASE b \notin YoungCells \cup ToCells \cup OldCells
      <4>1. KidsWithCopy(p, t)[b] = kid[p]
        <5>1. kid \in [Addr -> [Fields -> Ptr]]
          BY Cells
        <5>2. b = to + to_top \/ b = OldBase + old_top
          BY <1>9, <3>3
        <5>3. CASE b = t
          BY <2>1, <2>2, <5>1, <5>3
        <5>4. CASE b # t
          <6>1. t = OldBase + old_top
            BY <1>5, <1>14
          <6>2. t >= OldBase
            BY <6>1, MinorTypes DEF OldBase
          <6>3. ToCells' = ToCells
            BY <1>1, <1>2, <1>14, <2>1, <6>2 DEF Evacuate, Evacuates, ToCells, to
          <6>4. b \in OldCells' \ OldCells
            BY <1>9, <3>3, <6>3
          <6> QED BY <1>9, <5>4, <6>1, <6>4
        <5> QED BY <5>3, <5>4
      <4> QED BY <1>6, <1>7, <2>1, <3>1, <3>3, <4>1
    <3> QED BY <3>2, <3>3
  <2> QED BY <1>1, <1>7, <1>8, <1>9, <2>3, <2>4 DEF MinorLone, MinorPhases
<1> QED BY <1>13, <1>14

\* An object of age 0 is copied into the next young space.
LEMMA RootLone ==
  ASSUME TypeOK, TypeOK', PhaseInv, ForwardRoot, Sound', NEW r \in Handles, MinorLone(r)
  PROVE  MinorLone(r)'
<1> DEFINE p == roots[slot]
           t == CopyTarget(p)
<1>1. /\ phase = "roots" /\ Evacuate(p, t) /\ UNCHANGED <<from, top>>
      /\ roots' = [roots EXCEPT ![slot] = Forwarded(p, t)]
      /\ over_cap' = (over_cap \/ CopyFails(p))
      /\ slot' = NextSlot(NRoots) /\ phase' = IF slot = NRoots THEN "young" ELSE "roots"
  BY DEF ForwardRoot
<1>2. MinorInv /\ slot \in Roots
  BY <1>1, MinorTypes DEF PhaseInv, MinorPhases
<1>3. p \in Source /\ ~CopyFails(p)
  BY <1>1, <1>2, ForwardsSource DEF Sound
<1>4. NeedsCopy(p) => FreeCell(p, t)
  BY <1>3, CopyIntoFree
<1>5. YoungCells' = YoungCells /\ ToCells \subseteq ToCells'
  BY <1>1, <1>2, <1>3, <1>4, Evacuation DEF MinorInv, ToInv
<1>6. /\ roots \in [Roots -> Ptr] /\ age \in [Addr -> 0 .. MaxAge] /\ fwd \in [Addr -> Ptr]
      /\ YoungCells \subseteq Addr /\ Null \notin YoungCells /\ Null \notin ToCells
      /\ \A c \in YoungCells : ~is_old(c)
  BY Geometry DEF TypeOK, ObjectType, Ptr
<1>7. r \in Roots /\ r \in Nat /\ slot \in Nat /\ NRoots \in Nat /\ slot <= NRoots /\ r <= NRoots
  BY <1>2, Numbers, MinorTypes DEF Roots
<1>8. ASSUME NeedsCopy(p), age[p] = 0
      PROVE  /\ t \in ToCells' /\ t \in Addr /\ t \notin YoungCells /\ t # p
             /\ fwd' = [fwd EXCEPT ![t] = Null, ![p] = t]
  <2>1. t \in Addr /\ t \notin YoungCells /\ t # p /\ p \in YoungCells
    BY <1>3, <1>4, <1>8, FreeTarget
  <2>2. /\ Semi \in Nat \ {0} /\ from \in {0, Semi} /\ from' = from /\ to = Semi - from
        /\ to_top \in 0 .. Semi
    BY <1>1, MinorTypes DEF to
  <2>3. t = to + to_top /\ to_top < Semi
    BY <1>8, <2>1 DEF CopyTarget, PROMOTE_THRESHOLD
  <2>4. ~(t >= OldBase)
    BY <2>2, <2>3 DEF OldBase
  <2>5. to_top' = to_top + 1 /\ fwd' = [fwd EXCEPT ![t] = Null, ![p] = t]
    BY <1>1, <1>8, <2>1, <2>4 DEF Evacuate, Evacuates
  <2>6. ToCells' = Semi - from .. Semi - from + to_top' - 1
    BY <2>2 DEF ToCells, to
  <2>7. t \in ToCells'
    BY <2>2, <2>3, <2>5, <2>6
  <2> QED BY <2>1, <2>5, <2>7
<1> HIDE DEF p, t
<1>9. CASE r < slot
  <2>1. roots[r] \in ToCells /\ roots'[r] = roots[r]
    BY <1>1, <1>6, <1>7, <1>9 DEF MinorLone
  <2>2. phase' = "roots" => ~(slot' <= r)
    BY <1>1, <1>7, <1>9 DEF NextSlot
  <2> QED BY <1>1, <1>5, <2>1, <2>2 DEF MinorLone, MinorPhases
<1>10. CASE r = slot
  <2>1. p \in YoungCells /\ age[p] = 0 /\ fwd[p] \in ToCells \cup {Null} /\ roots'[r] = Forwarded(p, t)
    BY <1>1, <1>6, <1>7, <1>10 DEF MinorLone, p
  <2>2. p # Null /\ ~is_old(p)
    BY <1>6, <2>1
  <2>3. Forwarded(p, t) \in ToCells'
    <3>1. CASE fwd[p] = Null
      BY <1>8, <2>1, <2>2, <3>1 DEF Forwarded, NeedsCopy
    <3>2. CASE fwd[p] \in ToCells
      BY <1>5, <1>6, <2>2, <3>2 DEF Forwarded, NeedsCopy
    <3> QED BY <2>1, <3>1, <3>2
  <2>4. phase' = "roots" => ~(slot' <= r)
    BY <1>1, <1>7, <1>10 DEF NextSlot
  <2> QED BY <1>1, <2>1, <2>3, <2>4 DEF MinorLone, MinorPhases
<1>11. CASE slot < r
  <2> DEFINE q == roots[r]
  <2>1. q \in YoungCells /\ age[q] = 0 /\ fwd[q] \in ToCells \cup {Null} /\ roots'[r] = q
    BY <1>1, <1>6, <1>7, <1>11 DEF MinorLone
  <2>2. phase' = "roots" /\ slot' = slot + 1 /\ slot' <= r
    BY <1>1, <1>7, <1>11 DEF NextSlot
  <2> HIDE DEF q
  <2>3. age'[q] = 0 /\ fwd'[q] \in ToCells' \cup {Null}
    <3>1. CASE ~NeedsCopy(p)
      <4>1. age' = age /\ fwd' = fwd
        BY <1>1, <3>1 DEF Evacuate, Evacuates
      <4> QED BY <1>5, <2>1, <4>1
    <3>2. CASE NeedsCopy(p)
      <4>1. t \in Addr /\ t \notin YoungCells /\ t # p /\ p \in YoungCells
        BY <1>3, <1>4, <3>2, FreeTarget
      <4>2. fwd' = [fwd EXCEPT ![t] = Null, ![p] = t] /\ \E n : age' = [age EXCEPT ![t] = n]
        BY <1>1, <3>2, <4>1 DEF Evacuate, Evacuates
      <4>3. age'[q] = 0
        BY <1>6, <2>1, <4>1, <4>2
      <4>4. ASSUME q = p PROVE fwd'[q] \in ToCells' \cup {Null}
        BY <1>6, <1>8, <2>1, <3>2, <4>1, <4>4
      <4>5. ASSUME q # p PROVE fwd'[q] \in ToCells' \cup {Null}
        BY <1>5, <1>6, <2>1, <4>1, <4>2, <4>5
      <4>6. fwd'[q] \in ToCells' \cup {Null}
        BY <4>4, <4>5
      <4> QED BY <4>3, <4>6
    <3> QED BY <3>1, <3>2
  <2>4. roots'[r] = q /\ q \in YoungCells'
    BY <1>5, <2>1
  <2> QED BY <2>2, <2>3, <2>4 DEF MinorLone, MinorPhases
<1> QED BY <1>7, <1>9, <1>10, <1>11

LEMMA ScanLone ==
  ASSUME TypeOK, PhaseInv, ScanYoung \/ ScanOld, Sound', NEW r \in Handles, MinorLone(r)
  PROVE  MinorLone(r)'
<1>1. UNCHANGED <<from, top, roots, phase>> /\ phase \in {"young", "old"}
  BY DEF ScanYoung, ScanOld
<1>2. MinorInv
  BY <1>1 DEF PhaseInv, MinorPhases
<1>3. PICK p \in Source : \E t : (NeedsCopy(p) => FreeCell(p, t)) /\ Evacuate(p, t)
  <2>1. CASE ScanYoung
    <3> DEFINE p == kid[to + yscan][slot]
    <3>1. Evacuate(p, CopyTarget(p)) /\ p \in Source /\ ~CopyFails(p)
      BY <1>2, <2>1, ForwardsSource DEF ScanYoung, TraceField, Sound
    <3> QED BY <3>1, CopyIntoFree
  <2>2. CASE ScanOld
    <3> DEFINE p == kid[OldBase + old_scan][slot]
    <3>1. Evacuate(p, PromoteTarget(p)) /\ p \in Source /\ ~PromoteSpills(p)
      BY <1>2, <2>2, ForwardsSource DEF ScanOld, TraceFieldFromOld, Sound
    <3> QED BY <3>1, PromoteIntoFree
  <2> QED BY <2>1, <2>2
<1>4. ToCells \subseteq ToCells'
  BY <1>1, <1>2, <1>3, Evacuation DEF MinorInv, ToInv
<1> QED BY <1>1, <1>4 DEF MinorLone, MinorPhases

LEMMA MinorKeepsLone ==
  ASSUME TypeOK, TypeOK', PhaseInv, Minor, Sound', NEW r \in Handles, MinorLone(r)
  PROVE  MinorLone(r)'
<1>1. CASE TraceRemembered
  BY <1>1, RemsetLone
<1>2. CASE RememberedDone
  <2>1. r \in Nat /\ 1 <= r
    BY Numbers DEF Roots
  <2>2. /\ phase = "remset" /\ phase' = "roots" /\ slot' = 1
        /\ UNCHANGED <<from, top, to_top, age, fwd, roots>>
    BY <1>2 DEF RememberedDone, space, object
  <2>3. YoungCells' = YoungCells
    BY <2>2 DEF YoungCells
  <2> QED BY <2>1, <2>2, <2>3 DEF MinorLone, MinorPhases
<1>3. CASE ForwardRoot
  BY <1>3, RootLone
<1>4. CASE ScanYoung \/ ScanOld
  BY <1>4, ScanLone
<1>5. CASE YoungDrained \/ OldDrainedYoungNot
  <2>1. /\ phase \in {"young", "old"} /\ phase' \in {"young", "old"} /\ UNCHANGED <<from, to_top, roots>>
    BY <1>5 DEF YoungDrained, OldDrainedYoungNot, space
  <2>2. ToCells' = ToCells
    BY <2>1 DEF ToCells, to
  <2> QED BY <2>1, <2>2 DEF MinorLone, MinorPhases
<1>6. CASE FinishMinor
  <2>1. /\ phase = "old" /\ phase' \in {"major", "resume"} /\ from' = to /\ top' = to_top /\ roots' = roots
    BY <1>6 DEF FinishMinor
  <2>2. YoungCells' = ToCells
    BY <2>1 DEF YoungCells, ToCells
  <2> QED BY <2>1, <2>2 DEF MinorLone, MinorPhases
<1> QED BY <1>1, <1>2, <1>3, <1>4, <1>5, <1>6 DEF Minor

\* A compaction moves no young object.
LEMMA MajorKeepsLone ==
  ASSUME TypeOK, Major, NEW r \in Handles, MinorLone(r)
  PROVE  MinorLone(r)'
<1>1. UNCHANGED <<from, top>> /\ phase \in MajorPhases /\ phase' \in MajorPhases \cup {"resume"}
  BY DEF Major, MarkRoots, MarkChildren, MarkDone, ComputeForward, UpdatePointers, Slide, FinishMajor,
         space, MajorPhases
<1>2. roots[r] \in YoungCells /\ YoungCells' = YoungCells /\ r \in Roots
  BY <1>1, Numbers DEF MinorLone, MinorPhases, MajorPhases, YoungCells
<1>3. roots'[r] = roots[r]
  <2>1. CASE UpdatePointers
    <3>1. roots' = [i \in Roots |-> forward_old(roots[i])]
      BY <2>1 DEF UpdatePointers
    <3>2. ~is_old(roots[r])
      BY <1>2, Cells, Geometry
    <3> QED BY <1>2, <3>1, <3>2 DEF forward_old
  <2>2. CASE ~UpdatePointers
    BY <2>2 DEF Major, MarkRoots, MarkChildren, MarkDone, ComputeForward, Slide, FinishMajor
  <2> QED BY <2>1, <2>2
<1> QED BY <1>1, <1>2, <1>3 DEF MinorLone, MinorPhases, MajorPhases

LEMMA CollectionGoesOn ==
  ASSUME TypeOK, Minor \/ Major, roots[T] = Null
  PROVE  phase # "run" /\ phase' # "run" /\ pending' = pending /\ roots'[T] = Null
<1>1. phase # "run" /\ phase' # "run" /\ pending' = pending
  BY DEF Minor, Major, TraceRemembered, RememberedDone, ForwardRoot, ScanYoung, YoungDrained, ScanOld,
         OldDrainedYoungNot, FinishMinor, MarkRoots, MarkChildren, MarkDone, ComputeForward, UpdatePointers,
         Slide, FinishMajor
<1>2. T \in Roots /\ ~is_old(Null) /\ roots \in [Roots -> Ptr]
  BY Numbers, Cells
<1>3. CASE ForwardRoot
  <2>1. roots' = [roots EXCEPT ![slot] = Forwarded(roots[slot], CopyTarget(roots[slot]))]
    BY <1>3 DEF ForwardRoot
  <2>2. \A t : Forwarded(Null, t) = Null
    BY DEF Forwarded, NeedsCopy
  <2> QED BY <1>1, <1>2, <2>1, <2>2
<1>4. CASE UpdatePointers
  <2>1. roots' = [i \in Roots |-> forward_old(roots[i])]
    BY <1>4 DEF UpdatePointers
  <2> QED BY <1>1, <1>2, <2>1 DEF forward_old
<1>5. CASE ~ForwardRoot /\ ~UpdatePointers
  <2>1. roots' = roots
    BY <1>5 DEF Minor, Major, TraceRemembered, RememberedDone, ScanYoung, YoungDrained, ScanOld,
                OldDrainedYoungNot, FinishMinor, MarkRoots, MarkChildren, MarkDone, ComputeForward,
                Slide, FinishMajor
  <2> QED BY <1>1, <2>1
<1> QED BY <1>3, <1>4, <1>5

LEMMA CollectsKeep ==
  ASSUME InOrder, NEW texts, NEW a, Disciplined(texts, a), Collects, Sound'
  PROVE  InOrder' /\ Disciplined(texts, a)'
<1>1. Collector /\ IdStep /\ UNCHANGED <<payload, local, fresh, todo, setup, sloppy>>
  BY DEF Collects, call_vars
<1>2. TypeOK /\ IdInv
  BY DEF InOrder
<1>3. phase # "run"
  <2>1. CASE Resume
    BY <2>1 DEF Resume
  <2>2. CASE Minor \/ Major
    BY <2>2 DEF Minor, Major, TraceRemembered, RememberedDone, ForwardRoot, ScanYoung, YoungDrained, ScanOld,
           OldDrainedYoungNot, FinishMinor, MarkRoots, MarkChildren, MarkDone, ComputeForward, UpdatePointers,
           Slide, FinishMajor
  <2> QED BY <1>1, <2>1, <2>2 DEF Collector
<1>4. /\ PhaseInv /\ fresh = {} /\ pending = T /\ roots[T] = Null /\ todo # <<>> /\ Head(todo).op = "new"
      /\ local \in [Locals -> Ptr] /\ setup \in Seq(CallSet) /\ sloppy \in BOOLEAN
  BY <1>3 DEF InOrder, Waiting
<1>5. /\ payload \in [Id -> Payloads(texts)] /\ todo \in Seq(Micro(texts))
      /\ a \in States /\ Safe(todo, a) /\ (~sloppy => a.strict)
      /\ \A r \in a.rlone : MinorLone(r)
  BY <1>3 DEF Disciplined, Waiting
<1>6. a.rlone \subseteq Handles
  BY <1>5 DEF States
<1>7. TypeOK'
  BY <1>1, <1>2, TypeStep DEF Next
<1>8. PhaseInv'
  BY <1>1, <1>2, <1>4, <1>7, MinorStep, MajorStep DEF Collector
<1>9. IdInv'
  BY <1>1, <1>2, <1>4, <1>7, <1>8, CollectorSteps
<1>10. CASE Minor \/ Major
  <2>1. phase' # "run" /\ pending' = T /\ roots'[T] = Null
    BY <1>2, <1>4, <1>10, CollectionGoesOn
  <2>2. InOrder'
    BY <1>1, <1>4, <1>7, <1>8, <1>9, <2>1 DEF InOrder
  <2>3. ASSUME NEW r \in a.rlone PROVE MinorLone(r)'
    <3>1. r \in Handles /\ MinorLone(r)
      BY <1>5, <1>6
    <3> QED BY <1>2, <1>4, <1>7, <1>10, <3>1, MinorKeepsLone, MajorKeepsLone
  <2>4. Waiting'
    BY <2>1 DEF Waiting
  <2> QED BY <1>1, <1>5, <2>2, <2>3, <2>4 DEF Disciplined
<1>11. CASE Resume
  <2>1. /\ phase = "resume" /\ phase' = "run" /\ top < Semi /\ Place(T) /\ UNCHANGED <<from, old_top>>
    BY <1>4, <1>11 DEF Resume, Sound
  <2>2. Steady
    BY <1>4, <2>1 DEF PhaseInv
  <2>3. /\ Lone(roots[T])' /\ roots'[T] # Null
        /\ YoungCells \subseteq YoungCells' /\ Live \subseteq Live'
        /\ \A r \in Handles : roots'[r] = roots[r]
    BY <1>2, <2>1, <2>2, PlaceEffect
  <2>4. Calm'
    <3>1. (TypeOK /\ PhaseInv /\ phase = "run" => Calm)'
      BY CalmIs, PTL
    <3> QED BY <1>7, <1>8, <2>1, <3>1
  <2>5. InOrder'
    BY <1>1, <1>4, <1>7, <1>8, <1>9, <2>1, <2>3, <2>4 DEF InOrder
  <2>6. ASSUME NEW r \in a.rlone PROVE MinorLone(r)'
    <3>1. roots[r] \in YoungCells /\ r \in Handles
      BY <1>5, <1>6, <2>1 DEF MinorLone, MinorPhases
    <3> QED BY <2>1, <2>3, <3>1 DEF MinorLone, MinorPhases
  <2>7. Waiting'
    BY <2>3 DEF Waiting
  <2> QED BY <1>1, <1>5, <2>5, <2>6, <2>7 DEF Disciplined
<1> QED BY <1>1, <1>10, <1>11 DEF Collector

-----------------------------------------------------------------------------
(***************************************************************************)
(* Every step keeps Good, where the heap keeps its promises.               *)
(***************************************************************************)
LEMMA GoodStep ==
  ASSUME Good, BNext, Sound, Sound', EveryStoreHasBarrier
  PROVE  Good'
<1>1. PICK texts : \E a : InOrder /\ Disciplined(texts, a)
  BY DEF Good
<1>2. PICK a : InOrder /\ Disciplined(texts, a)
  BY <1>1
<1>3. CASE Call
  <2>1. InOrder' /\ \E more : \E b : Disciplined(more, b)'
    BY <1>2, <1>3, CallKeeps
  <2> QED BY <2>1 DEF Good
<1>4. CASE Allocates \/ Collecting
  <2>1. Safepoint /\ Sound
    BY <1>4 DEF Allocates, Collecting, Doing, Safepoint
  <2>2. OldToYoungRemembered
    BY <2>1 DEF EveryStoreHasBarrier
  <2>3. InOrder' /\ Disciplined(texts, a)'
    BY <1>2, <1>4, <2>2, AllocatesKeep, CollectingKeeps
  <2> QED BY <2>3 DEF Good
<1>5. CASE Collects
  <2>1. InOrder' /\ Disciplined(texts, a)'
    BY <1>2, <1>5, CollectsKeep
  <2> QED BY <2>1 DEF Good
<1>6. ~Fails
  BY DEF Fails, Sound
<1>7. CASE Delivers \/ Reads \/ Loads \/ PushesRoot \/ PopsRoots \/ Returns \/ Stores \/ write_barrier \/ Updates
  <2>1. PICK b : b = After(a, S)
    OBVIOUS
  <2>2. InOrder' /\ Disciplined(texts, b)'
    BY <1>2, <1>7, <2>1, DeliversKeep, ReadsKeep, LoadsKeep, PushesRootKeep, PopsRootsKeep, ReturnsKeep,
       StoresKeep, BarrierKeeps, UpdatesKeep
  <2> QED BY <2>2 DEF Good
<1> QED BY <1>3, <1>4, <1>5, <1>6, <1>7 DEF BNext

LEMMA GoodInit == BInit => Good
<1> SUFFICES ASSUME BInit PROVE Good
  OBVIOUS
<1>1. /\ payload = [x \in Id |-> Blanks] /\ local = [l \in Locals |-> Null] /\ fresh = {} /\ todo = <<>>
      /\ setup \in Setups /\ sloppy = FALSE /\ phase = "run" /\ roots = [r \in Roots |-> Null]
      /\ over_cap = FALSE /\ stale = FALSE
  BY DEF BInit, GInit, Init
<1>2. GraphInv
  BY GraphInit DEF BInit
<1>3. TypeOK /\ IdInv /\ PhaseInv
  BY <1>1, <1>2 DEF GraphInv, IInv, HeapInvariant, PhaseInv, Sound, NotStale
<1>4. Calm /\ OldToYoungRemembered
  BY <1>1, <1>3, CalmIs DEF PhaseInv, Steady
<1>5. setup \in Seq(CallSet)
  BY <1>1, CallsAssumption
<1>6. ~Waiting /\ roots[T] = Null
  BY <1>1, Numbers DEF Waiting
<1>7. Null \in Ptr
  BY <1>3, Cells
<1>8. InOrder
  BY <1>1, <1>3, <1>4, <1>5, <1>6, <1>7 DEF InOrder
<1>9. PICK a : a = Start(TRUE)
  OBVIOUS
<1>10. /\ a.strict = TRUE /\ a.fresh = {} /\ a.young = {} /\ a.lone = {} /\ a.box = {} /\ a.rlone = {}
       /\ a.ryoung = {} /\ a.last = {} /\ a.owed = {} /\ a \in States
  BY <1>9 DEF Start, States
<1>11. Safe(todo, a)
  BY <1>1, <1>10, SafeEnd
<1>12. Models(a)
  BY <1>4, <1>10 DEF Models, LocalsKnown, RootsKnown, EdgesKnown, OldToYoungRemembered
<1>13. payload \in [Id -> Payloads({})] /\ todo \in Seq(Micro({}))
  BY <1>1, BlanksType
<1>14. Disciplined({}, a)
  BY <1>1, <1>6, <1>10, <1>11, <1>12, <1>13 DEF Disciplined
<1> QED BY <1>8, <1>14 DEF Good

\* No step uses a local that a collection may have moved the object of.
LEMMA UsesFresh ==
  ASSUME Good, NEW op, op # "new", Takes(op)
  PROVE  ~Outdated
<1>1. PICK texts : \E a : InOrder /\ Disciplined(texts, a)
  BY DEF Good
<1>2. PICK a : InOrder /\ Disciplined(texts, a)
  BY <1>1
<1>3. Allowed(a, S) /\ Models(a)
  BY <1>2, Taken
<1>4. Used \subseteq a.fresh
  BY <1>3 DEF Used, Allowed
<1>5. a.fresh \subseteq fresh
  BY <1>3 DEF Models, LocalsKnown
<1> QED BY <1>4, <1>5 DEF Outdated

\* Where a collection may begin no store is owed its barrier.
LEMMA StrictRemembers == Good /\ ~sloppy => EveryStoreHasBarrier
<1> SUFFICES ASSUME Good, ~sloppy, Safepoint PROVE OldToYoungRemembered
  BY DEF EveryStoreHasBarrier
<1>1. PICK texts : \E a : InOrder /\ Disciplined(texts, a)
  BY DEF Good
<1>2. PICK a : InOrder /\ Disciplined(texts, a)
  BY <1>1
<1>3. ~Waiting
  BY <1>2 DEF Safepoint, InOrder, Waiting
<1>4. Models(a) /\ a.strict /\ Safe(todo, a) /\ todo \in Seq(Micro(texts))
  BY <1>2, <1>3 DEF Disciplined
<1>5. a.owed = {}
  <2>1. CASE todo = <<>>
    <3>1. PICK A : A[1] = a /\ A[Len(<<>>) + 1].owed = {}
      BY <1>4, <2>1 DEF Safe
    <3> QED BY <3>1
  <2>2. CASE todo # <<>>
    <3>1. Head(todo).op = "new" /\ Allowed(a, Head(todo))
      BY <1>4, <2>2, SafeTake DEF Safepoint
    <3> QED BY <3>1 DEF Allowed
  <2> QED BY <2>1, <2>2
<1> QED BY <1>4, <1>5 DEF Models, EdgesKnown, OldToYoungRemembered

\* Between two steps of a call everything within reach is alive.
LEMMA GoodIsClosed == Good /\ phase = "run" => Closed
BY DEF Good, InOrder, Calm

-----------------------------------------------------------------------------
(***************************************************************************)
(* The ghosts that say what went wrong never say it again is well.         *)
(***************************************************************************)
Flags == over_cap \in BOOLEAN /\ stale \in BOOLEAN /\ sloppy \in BOOLEAN /\ stale_use \in BOOLEAN

LEMMA FlagsGrow ==
  ASSUME Flags, [BNext]_bvars
  PROVE  \E X, Y, Z \in BOOLEAN :
           over_cap' = (over_cap \/ X) /\ stale' = (stale \/ Y) /\ sloppy' = (sloppy \/ Z)
<1>0. /\ over_cap = (over_cap \/ FALSE) /\ stale = (stale \/ FALSE) /\ sloppy = (sloppy \/ FALSE)
      /\ over_cap \in BOOLEAN /\ stale \in BOOLEAN
  BY DEF Flags
<1>1. CASE Call
  <2>1. PICK c : Begin(c)
    BY <1>1 DEF Call
  <2>2. sloppy' = (sloppy \/ c.fn \in Unbarriered) /\ over_cap' = over_cap /\ stale' = stale
    BY <2>1 DEF Begin, gvars, vars
  <2> QED BY <1>0, <2>2
<1>2. CASE Allocates \/ Collecting \/ Collects
  <2>1. Next /\ sloppy' = sloppy
    BY <1>2, Numbers DEF Allocates, Collecting, Collects, Next, Mutator, call_vars
  <2>2. \E X, Y \in BOOLEAN : over_cap' = (over_cap \/ X) /\ stale' = (stale \/ Y)
    BY <1>0, <2>1, FlagsStep
  <2> QED BY <1>0, <2>1, <2>2
<1>3. CASE Delivers \/ Fails
  <2>1. UNCHANGED <<over_cap, stale, sloppy>>
    BY <1>3 DEF Delivers, Fails, call_vars, gvars, vars
  <2> QED BY <1>0, <2>1
<1>4. CASE Reads \/ Loads \/ PushesRoot \/ PopsRoots \/ Returns \/ Stores \/ write_barrier \/ Updates
  <2>1. UNCHANGED <<over_cap, stale, sloppy>>
    BY <1>4 DEF Reads, Loads, PushesRoot, PopsRoots, Returns, Stores, write_barrier, Updates, SameHeap, call_vars
  <2> QED BY <1>0, <2>1
<1>5. CASE UNCHANGED bvars
  <2>1. UNCHANGED <<over_cap, stale, sloppy>>
    BY <1>5 DEF bvars, gvars, vars
  <2> QED BY <1>0, <2>1
<1> QED BY <1>1, <1>2, <1>3, <1>4, <1>5 DEF BNext

LEMMA StaleUse ==
  ASSUME Flags, [BNext]_bvars
  PROVE  \/ stale_use' = stale_use
         \/ \E op : op # "new" /\ Takes(op) /\ stale_use' = (stale_use \/ Outdated)
<1>1. CASE Call
  <2>1. PICK c : Begin(c)
    BY <1>1 DEF Call
  <2> QED BY <2>1 DEF Begin, misuse
<1>2. CASE Allocates \/ Collecting \/ Collects \/ Delivers \/ Fails
  BY <1>2 DEF Allocates, Collecting, Collects, Delivers, Fails, misuse
<1>3. CASE Reads \/ Loads \/ PushesRoot \/ PopsRoots \/ Returns \/ Stores \/ write_barrier \/ Updates
  <2>1. PICK op \in {"read", "load", "root", "drop", "ret", "store", "barrier", "len", "cap"} : Takes(op)
    BY <1>3 DEF Reads, Loads, PushesRoot, PopsRoots, Returns, Stores, write_barrier, Updates
  <2> QED BY <2>1 DEF Takes
<1>4. CASE UNCHANGED bvars
  BY <1>4 DEF bvars
<1> QED BY <1>1, <1>2, <1>3, <1>4 DEF BNext

LEMMA Unmoved ==
  ASSUME InOrder, NEW texts, NEW a, Disciplined(texts, a), Sound,
         UNCHANGED <<gvars, payload, local, fresh, todo, setup, sloppy>>
  PROVE  InOrder' /\ Disciplined(texts, a)'
<1>1. /\ UNCHANGED <<space, kid, age, fwd, mark, roots, remembered, remembered_next, over_cap, phase, pending, minor,
                     major, stale, id>>
      /\ UNCHANGED <<from, top, to_top, old_top, slot, rem, young_child, payload, local, fresh, todo, setup, sloppy>>
  BY DEF gvars, vars, space, object, remset, minor, major
<1>2. TypeOK /\ IdInv
  BY DEF InOrder
<1>3. TypeOK' /\ IdInv'
  <2>1. UNCHANGED vars
    BY DEF gvars
  <2>2. TypeOK'
    BY <1>2, <2>1, TypeStep
  <2>3. IdInv'
    BY <1>2, Stutter
  <2> QED BY <2>2, <2>3
<1>4. YoungCells' = YoungCells /\ OldCells' = OldCells /\ Live' = Live /\ ToCells' = ToCells
  BY <1>1, SameCells DEF ToCells, to
<1>5. Calm => Calm'
  BY <1>1, <1>4 DEF Calm, Closed
<1>6. PhaseInv => PhaseInv'
  <2>1. ASSUME PhaseInv PROVE PhaseInv'
    <3>1. IInv
      BY <1>2, <2>1 DEF IInv, HeapInvariant, PhaseInv
    <3>2. IInv'
      BY <3>1, InvStep DEF gvars
    <3>3. Sound'
      BY <1>1 DEF Sound, NotStale
    <3> QED BY <3>2, <3>3 DEF IInv, HeapInvariant, PhaseInv
  <2> QED BY <2>1
<1>7. \A p : Lone(p) => Lone(p)'
  BY <1>1, <1>4 DEF Lone
<1>8. \A r : MinorLone(r) => MinorLone(r)'
  BY <1>1, <1>4 DEF MinorLone
<1>9. Waiting' <=> Waiting
  BY <1>1 DEF Waiting
<1>10. InOrder'
  <2>1. roots'[T] # Null => Lone(roots[T])'
    BY <1>1, <1>4 DEF InOrder, Lone
  <2> QED BY <1>1, <1>3, <1>4, <1>5, <1>6, <1>9, <2>1 DEF InOrder
<1>11. Models(a) => Models(a)'
  <2>1. LocalsKnown(a) => LocalsKnown(a)'
    BY <1>1, <1>4 DEF LocalsKnown, Lone
  <2>2. RootsKnown(a) => RootsKnown(a)'
    BY <1>1, <1>4 DEF RootsKnown, Lone
  <2>3. EdgesKnown(a) => EdgesKnown(a)'
    BY <1>1, <1>4 DEF EdgesKnown
  <2> QED BY <2>1, <2>2, <2>3 DEF Models
<1>12. Disciplined(texts, a)'
  BY <1>1, <1>8, <1>9, <1>11 DEF Disciplined
<1> QED BY <1>10, <1>12

LEMMA GoodUnlessStutter ==
  ASSUME Good, [BNext]_bvars, Sound, Sound', EveryStoreHasBarrier
  PROVE  Good'
<1>1. CASE BNext
  BY <1>1, GoodStep
<1>2. CASE UNCHANGED bvars
  <2>1. PICK texts : \E a : InOrder /\ Disciplined(texts, a)
    BY DEF Good
  <2>2. PICK a : InOrder /\ Disciplined(texts, a)
    BY <2>1
  <2>3. UNCHANGED <<gvars, payload, local, fresh, todo, setup, sloppy>>
    BY <1>2 DEF bvars
  <2>4. InOrder' /\ Disciplined(texts, a)'
    BY <2>2, <2>3, Unmoved
  <2> QED BY <2>4 DEF Good
<1> QED BY <1>1, <1>2

-----------------------------------------------------------------------------
(***************************************************************************)
(* The theorems.                                                           *)
(***************************************************************************)
Obeyed == Flags /\ ~stale_use /\ (Sound => Good)

LEMMA ObeyedInit == BInit => Obeyed
BY GoodInit DEF BInit, GInit, Init, Obeyed, Flags

LEMMA ObeyedStep == Obeyed /\ Intact /\ Intact' /\ [BNext]_bvars => Obeyed'
<1> SUFFICES ASSUME Obeyed, Intact, Intact', [BNext]_bvars PROVE Obeyed'
  OBVIOUS
<1>1. PICK X, Y, Z \in BOOLEAN :
        over_cap' = (over_cap \/ X) /\ stale' = (stale \/ Y) /\ sloppy' = (sloppy \/ Z)
  BY FlagsGrow DEF Obeyed
<1>2. Sound' => Sound
  BY <1>1 DEF Sound, NotStale, Obeyed, Flags
<1>3. stale_use' = FALSE
  <2>1. CASE stale_use' = stale_use
    BY <2>1 DEF Obeyed, Flags
  <2>2. ASSUME NEW op, op # "new", Takes(op), stale_use' = (stale_use \/ Outdated) PROVE stale_use' = FALSE
    <3>1. Good
      BY <2>2 DEF Takes, Doing, Obeyed, Intact, Sound
    <3>2. ~Outdated
      BY <2>2, <3>1, UsesFresh
    <3> QED BY <2>2, <3>2 DEF Obeyed, Flags
  <2> QED BY <2>1, <2>2, StaleUse DEF Obeyed
<1>4. Sound' => Good'
  BY <1>2, GoodUnlessStutter DEF Obeyed, Intact
<1>5. Flags'
  BY <1>1, <1>3 DEF Obeyed, Flags
<1> QED BY <1>3, <1>4, <1>5 DEF Obeyed

LEMMA ObeyedAlways == BSpec /\ []Intact => []Obeyed
BY ObeyedInit, ObeyedStep, PTL DEF BSpec

\* heap.h:17: while every store is remembered where a collection may begin and no
\* compaction has lost an entry, no builtin uses a pointer it held across a call
\* that may have collected, unless it read it again from a root.
THEOREM NoStalePointerUsed == BSpec /\ []Intact => []NoStaleUse
<1>1. Obeyed => NoStaleUse
  BY DEF Obeyed, NoStaleUse
<1> QED BY <1>1, ObeyedAlways, PTL

\* Under the same proviso the collections that run inside the builtins reclaim
\* nothing that a register, a handle or an object can reach.
THEOREM NothingReclaimed == BSpec /\ []Intact => []NothingDangles
<1>1. Obeyed => NothingDangles
  BY GoodIsClosed DEF Obeyed, NothingDangles, Safepoint
<1> QED BY <1>1, ObeyedAlways, PTL

\* What the builtins keep without any proviso until one of Unbarriered runs.
Strict ==
  /\ Flags
  /\ NotStale /\ ~sloppy => ~stale_use
  /\ Sound /\ ~sloppy => Good

LEMMA StrictInit == BInit => Strict
BY GoodInit DEF BInit, GInit, Init, Strict, Flags

LEMMA StrictStep == Strict /\ [BNext]_bvars => Strict'
<1> SUFFICES ASSUME Strict, [BNext]_bvars PROVE Strict'
  OBVIOUS
<1>1. PICK X, Y, Z \in BOOLEAN :
        over_cap' = (over_cap \/ X) /\ stale' = (stale \/ Y) /\ sloppy' = (sloppy \/ Z)
  BY FlagsGrow DEF Strict
<1>2. (Sound' => Sound) /\ (NotStale' => NotStale) /\ (~sloppy' => ~sloppy)
  BY <1>1 DEF Sound, NotStale, Strict, Flags
<1>3. \/ stale_use' = stale_use
      \/ \E op : op # "new" /\ Takes(op) /\ stale_use' = (stale_use \/ Outdated)
  BY StaleUse DEF Strict
<1>4. NotStale' /\ ~sloppy' => ~stale_use'
  <2>1. ASSUME NotStale', ~sloppy', NEW op, op # "new", Takes(op), stale_use' = (stale_use \/ Outdated)
        PROVE  ~stale_use'
    <3>1. Good /\ ~stale_use
      BY <1>2, <2>1 DEF Takes, Doing, Strict, Sound
    <3>2. ~Outdated
      BY <2>1, <3>1, UsesFresh
    <3> QED BY <2>1, <3>1, <3>2
  <2> QED BY <1>2, <1>3, <2>1 DEF Strict
<1>5. Sound' /\ ~sloppy' => Good'
  BY <1>2, StrictRemembers, GoodUnlessStutter DEF Strict
<1>6. Flags'
  <2>1. stale_use' \in BOOLEAN
    BY <1>3 DEF Strict, Flags
  <2> QED BY <1>1, <2>1 DEF Strict, Flags
<1> QED BY <1>4, <1>5, <1>6 DEF Strict

LEMMA StrictAlways == BSpec => []Strict
BY StrictInit, StrictStep, PTL DEF BSpec

\* heap.h:58: until one of the builtins that have no barrier runs, every old-to-young
\* pointer that the builtins and the instructions have stored is remembered wherever
\* a collection may begin.
THEOREM BarriersSuffice == BSpec => []StoresRemembered
<1>1. Strict => StoresRemembered
  BY StrictRemembers DEF Strict, StoresRemembered, EveryStoreHasBarrier
<1> QED BY <1>1, StrictAlways, PTL

\* So a program that runs only builtins with a barrier uses no stale pointer and
\* loses no object, whatever it calls and in whatever order, until a compaction
\* leaves a remembered entry behind.
THEOREM BarrieredCallsAreSafe == BSpec => [](NotStale /\ ~sloppy => NoStaleUse /\ NothingDangles)
<1>1. Strict => (NotStale /\ ~sloppy => NoStaleUse /\ NothingDangles)
  BY GoodIsClosed DEF Strict, NoStaleUse, NothingDangles, Safepoint
<1> QED BY <1>1, StrictAlways, PTL
=============================================================================
