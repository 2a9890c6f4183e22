----------------------------- MODULE BuiltinCalls -----------------------------
(***************************************************************************)
(* Sequences of the calls of module Builtins, run on the heap, and what    *)
(* they must leave behind: OP_CALL_NATIVE and the container instructions   *)
(* of the dispatch loop (src/src/interp.cc).                               *)
(***************************************************************************)
EXTENDS Builtins

-----------------------------------------------------------------------------
(***************************************************************************)
(* One call: when its arguments are right, its steps, and what it means.   *)
(***************************************************************************)
Fits(n) == n <= NFields                  \* bound on the length of a container
Within(c, j) == c.i \in 1 .. P(c, j).len

\* A container is never put into itself: what a register shows stays a tree.
Apart(c) == Kind(c, 2) \in {"Nil", "String"}

RightArguments(c) ==
  CASE c.fn \in {"new_string", "new_map"} -> TRUE
    [] c.fn \in {"new_array", "fill", "split"} -> Fits(c.n)
    [] c.fn = "closure"    -> Fits(Len(c.a))
    [] c.fn = "push"       -> Kind(c, 1) = "Array" /\ Apart(c) /\ Fits(P(c, 1).len + 1)
    [] c.fn = "insert"     -> Kind(c, 1) = "Array" /\ Apart(c) /\ Fits(P(c, 1).len + 1) /\ c.i \in 1 .. P(c, 1).len + 1
    [] c.fn = "set_elem"   -> Kind(c, 1) = "Array" /\ Apart(c) /\ Within(c, 1)
    [] c.fn = "pop"        -> Kind(c, 1) = "Array" /\ P(c, 1).len > 0
    [] c.fn = "remove"     -> Kind(c, 1) = "Array" /\ Within(c, 1)
    [] c.fn = "set"        -> Kind(c, 1) = "Map" /\ Apart(c) /\ (c.key \in ToSet(Keys(c, 1)) \/ Fits(P(c, 1).len + 1))
    [] c.fn = "remove_key" -> Kind(c, 1) = "Map" /\ c.key \in ToSet(Keys(c, 1))
    [] c.fn = "slice"      -> Kind(c, 1) = "Array" /\ c.i >= 1 /\ c.i + c.n - 1 <= P(c, 1).len
    [] c.fn \in {"iter", "chunk"} -> Kind(c, 1) = "Array"
    [] c.fn \in {"keys", "values", "entries"} -> Kind(c, 1) = "Map"
    [] c.fn = "next"       -> Kind(c, 1) = "Iter" /\ P(c, 1).cap < P(c, 1).len
    [] c.fn = "concat_arr" -> Kind(c, 1) = "Array" /\ Kind(c, 2) = "Array" /\ Fits(P(c, 1).len + P(c, 2).len)
    [] c.fn = "zip"        -> Kind(c, 1) = "Array" /\ Kind(c, 2) = "Array"
    [] c.fn = "format_join" -> Kind(c, 1) = "Array" /\ Kind(c, 2) = "String"
    [] c.fn = "merge"      -> Kind(c, 1) = "Map" /\ Kind(c, 2) = "Map"
                                /\ Fits(Cardinality(ToSet(Keys(c, 1)) \cup ToSet(Keys(c, 2))))
    [] c.fn = "invert"     -> Kind(c, 1) = "Map" /\ \A i \in 1 .. P(c, 1).len :
                                LET v == SlotAt(roots[c.a[1]], 2, i) IN
                                IF v = Null THEN FALSE ELSE PayloadAt(v).kind = "String"
    [] c.fn = "unzip"      -> Kind(c, 1) = "Array" /\ \A i \in 1 .. P(c, 1).len :
                                LET v == SlotAt(roots[c.a[1]], 1, i) IN
                                IF v = Null THEN FALSE ELSE PayloadAt(v).kind = "Array" /\ PayloadAt(v).len >= 2

Code(c) ==
  CASE c.fn = "new_string" -> new_string("x", H(1), c.key) \o << Ret(c.dst, "x") >>
    [] c.fn = "new_array"  -> new_array("x", H(1), c.n) \o << Ret(c.dst, "x") >>
    [] c.fn = "new_map"    -> new_map("x") \o << Ret(c.dst, "x") >>
    [] c.fn = "push"       -> Push(c)
    [] c.fn = "insert"     -> insert_fn(c)
    [] c.fn = "set_elem"   -> SetElement(c)
    [] c.fn = "pop"        -> pop_fn(c)
    [] c.fn = "remove"     -> remove_fn(c)
    [] c.fn = "set"        -> SetProperty(c)
    [] c.fn = "remove_key" -> remove_key_fn(c)
    [] c.fn = "closure"    -> Closure(c)
    [] c.fn = "slice"      -> slice_fn(c)
    [] c.fn = "fill"       -> fill_fn(c)
    [] c.fn = "concat_arr" -> concat_arr_fn(c)
    [] c.fn = "keys"       -> KeysOrValues(c, 1)
    [] c.fn = "values"     -> KeysOrValues(c, 2)
    [] c.fn = "iter"       -> iter_fn(c)
    [] c.fn = "next"       -> next_fn(c)
    [] c.fn = "format_join" -> format_join_fn(c)
    [] c.fn = "merge"      -> merge_fn(c)
    [] c.fn = "invert"     -> invert_fn(c)
    [] c.fn = "split"      -> split_fn(c)
    [] c.fn = "zip"        -> zip_fn(c)
    [] c.fn = "entries"    -> entries_fn(c)
    [] c.fn = "chunk"      -> chunk_fn(c)
    [] c.fn = "unzip"      -> unzip_fn(c)

\* The builtins that store fresh objects into a rooted container without a barrier.
Unbarriered == {"split", "zip", "entries", "chunk", "unzip"}

\* Map entries after m[key] = v.
PutT(e, key, v) ==
  IF \E j \in DOMAIN e : e[j][1] = key
  THEN [j \in DOMAIN e |-> IF e[j][1] = key THEN << key, v >> ELSE e[j]]
  ELSE Append(e, << key, v >>)

\* The value the result register must show.
Result(c) ==
  LET A(j) == Shown[roots[c.a[j]]].e IN
  CASE c.fn = "new_string" -> StrT(c.key)
    [] c.fn = "new_array"  -> ArrT([i \in 1 .. c.n |-> NilT])
    [] c.fn = "new_map"    -> MapT(<<>>)
    [] c.fn = "pop"        -> Last(A(1))
    [] c.fn = "remove"     -> A(1)[c.i]
    [] c.fn = "closure"    -> Tree("Closure", None, 0, [j \in DOMAIN c.a |-> Shown[roots[c.a[j]]]])
    [] c.fn = "slice"      -> ArrT(SubSeq(A(1), c.i, c.i + c.n - 1))
    [] c.fn = "fill"       -> ArrT([i \in 1 .. c.n |-> Shown[roots[c.a[1]]]])
    [] c.fn = "concat_arr" -> ArrT(A(1) \o A(2))
    [] c.fn = "keys"       -> ArrT([i \in DOMAIN A(1) |-> StrT(A(1)[i][1])])
    [] c.fn = "values"     -> ArrT([i \in DOMAIN A(1) |-> A(1)[i][2]])
    [] c.fn = "iter"       -> Tree("Iter", None, 0, << ArrT(A(1)) >>)
    [] c.fn = "next"       -> A(1)[1].e[P(c, 1).cap + 1]
    [] c.fn = "format_join" -> StrT("j")
    [] c.fn = "merge"      -> MapT(FoldLeft(LAMBDA e, b : PutT(e, b[1], b[2]), A(1), A(2)))
    [] c.fn = "invert"     ->
         MapT(FoldLeft(LAMBDA e, b : PutT(e, b[2].s, StrT(b[1])), <<>>, A(1)))
    [] c.fn = "split"      -> ArrT([i \in 1 .. c.n |-> StrT(c.key)])
    [] c.fn = "zip"        ->
         ArrT([i \in 1 .. (IF Len(A(1)) < Len(A(2)) THEN Len(A(1)) ELSE Len(A(2))) |-> ArrT(<< A(1)[i], A(2)[i] >>)])
    [] c.fn = "entries"    -> ArrT([i \in DOMAIN A(1) |-> ArrT(<< StrT(A(1)[i][1]), A(1)[i][2] >>)])
    [] c.fn = "chunk"      -> ArrT([i \in DOMAIN A(1) |-> ArrT(<< A(1)[i] >>)])
    [] c.fn = "unzip"      -> ArrT([f \in 1 .. 2 |-> ArrT([i \in DOMAIN A(1) |-> A(1)[i].e[f]])])

\* What the changed container must hold.
Elements(c) ==
  LET e == Shown[roots[c.a[1]]].e
      V == Shown[roots[c.a[2]]]
  IN
  CASE c.fn = "push"       -> Append(e, V)
    [] c.fn = "insert"     -> InsertAt(e, c.i, V)
    [] c.fn = "set_elem"   -> [e EXCEPT ![c.i] = V]
    [] c.fn = "pop"        -> Front(e)
    [] c.fn = "remove"     -> RemoveAt(e, c.i)
    [] c.fn = "set"        -> PutT(e, c.key, V)
    [] c.fn = "remove_key" -> SelectSeq(e, LAMBDA b : b[1] # c.key)
Changing == {"push", "insert", "set_elem", "pop", "remove", "set", "remove_key"}

\* The tree of q once the container o, if any, holds the elements new.
Changed(q, o, new) ==
  LET Tr[p \in Ptr] ==
        IF p = Null THEN NilT
        ELSE IF p = o THEN [Shown[p] EXCEPT !.e = new]
        ELSE LET t == Shown[p] IN
             CASE t.k = "Iter" -> [t EXCEPT !.e = << Tr[kid[p][1]] >>]
               [] t.k \in {"Array", "Closure"} -> [t EXCEPT !.e = [i \in DOMAIN t.e |-> Tr[SlotAt(p, 1, i)]]]
               [] t.k = "Map"  -> [t EXCEPT !.e = [i \in DOMAIN t.e |-> << t.e[i][1], Tr[SlotAt(p, 2, i)] >>]]
               [] OTHER -> t
  IN  Tr[q]

\* An iterator outlives elements popped from its array: next() then delivers what
\* the slot still holds, which nothing specifies.
Unspecified(c) == c.fn = "next" /\ P(c, 1).cap >= Len(Shown[roots[c.a[1]]].e[1].e)

Expected(c) ==
  [r \in Regs |->
     IF r = c.dst THEN (IF Unspecified(c) THEN Tree("Any", None, 0, <<>>) ELSE Result(c))
     ELSE IF c.fn \in Changing THEN Changed(roots[r], roots[c.a[1]], Elements(c))
     ELSE IF c.fn = "next" /\ roots[r] = roots[c.a[1]] THEN [Shown[roots[r]] EXCEPT !.n = @ + 1]
     ELSE Shown[roots[r]]]

-----------------------------------------------------------------------------
(***************************************************************************)
(* Running them.                                                           *)
(***************************************************************************)
CallNames == {"new_string", "new_array", "new_map", "push", "insert", "set_elem", "pop", "remove", "set",
              "remove_key", "closure", "slice", "fill", "concat_arr", "keys", "values", "iter", "next",
              "format_join", "merge", "invert", "split", "zip", "entries", "chunk", "unzip"}
Arity(fn) == IF fn \in {"new_string", "new_array", "new_map", "closure", "split"} THEN 0
             ELSE IF fn \in {"push", "insert", "set_elem", "set", "concat_arr", "zip", "format_join", "merge"}
             THEN 2 ELSE 1
CallSet == {c \in [fn : CallNames, a : Seq(Regs), dst : 0 .. NRegs, key : STRING, i : Nat, n : Nat] :
              Len(c.a) >= Arity(c.fn)}
ASSUME CallsAssumption == Calls \subseteq CallSet /\ Setups \subseteq Seq(CallSet)

BInit ==
  /\ GInit
  /\ payload = [x \in Id |-> Blanks]
  /\ local = [l \in Locals |-> Null] /\ fresh = {}
  /\ todo = <<>> /\ setup \in Setups /\ ncalls = 0
  /\ expect = [r \in Regs |-> NilT]
  /\ sloppy = FALSE /\ stale_use = FALSE /\ null_use = FALSE

Between == phase = "run" /\ todo = <<>> /\ ~over_cap

Begin(c) ==
  /\ RightArguments(c)
  /\ todo' = Code(c) /\ expect' = Expected(c)
  /\ sloppy' = (sloppy \/ c.fn \in Unbarriered)
  /\ local' = [l \in Locals |-> Null] /\ fresh' = {}
  /\ UNCHANGED <<gvars, payload, misuse>>

\* A call of the set-up, or any call after it.
Call ==
  /\ Between
  /\ IF setup # <<>>
     THEN Begin(Head(setup)) /\ setup' = Tail(setup) /\ UNCHANGED ncalls
     ELSE /\ ncalls < MaxCalls /\ ncalls' = ncalls + 1 /\ UNCHANGED setup
          /\ \E c \in Calls : Begin(c)

Doing(op) == phase = "run" /\ ~over_cap /\ todo # <<>> /\ Head(todo).op = op
S == Head(todo)

\* bump(): the object is constructed, or a collection comes first.
Allocates ==
  /\ Doing("new") /\ roots[T] = Null
  /\ Alloc(T) /\ IdStep
  /\ UNCHANGED <<payload, local, fresh, todo, call_vars, misuse>>
Collecting ==
  /\ Doing("new") /\ roots[T] = Null
  /\ AllocCollects(T) /\ IdStep
  /\ fresh' = {}
  /\ UNCHANGED <<payload, local, todo, call_vars, misuse>>
Collects ==
  /\ Collector /\ IdStep
  /\ UNCHANGED <<payload, local, fresh, todo, call_vars, misuse>>
\* new_* returns the pointer it got.
Delivers ==
  /\ Doing("new") /\ roots[T] # Null
  /\ payload' = [payload EXCEPT ![id[roots[T]]] = S.p]
  /\ local' = [local EXCEPT ![S.x] = roots[T]] /\ fresh' = fresh \cup {S.x}
  /\ roots' = [roots EXCEPT ![T] = Null]
  /\ todo' = Tail(todo)
  /\ UNCHANGED <<space, object, remset, over_cap, phase, pending, minor, major, stale, id,
                 call_vars, misuse>>
\* Out of memory: the call fails and the run ends.
Fails ==
  /\ phase = "run" /\ over_cap /\ todo # <<>>
  /\ todo' = <<>>
  /\ UNCHANGED <<gvars, payload, local, fresh, call_vars, misuse>>

\* The locals a step uses as pointers.
Used == CASE S.op \in {"root", "ret", "len", "cap"} -> {S.x}
          [] S.op = "load" -> {S.y}
          [] S.op \in {"store", "barrier"} -> {S.x, S.y}
          [] OTHER -> {}
Outdated == \E l \in Used : local[l] # Null /\ l \notin fresh
NullUsed == \/ S.op = "load" /\ local[S.y] = Null
            \/ S.op \in {"store", "len", "cap"} /\ local[S.x] = Null
Takes(op) ==
  /\ Doing(op) /\ todo' = Tail(todo)
  /\ stale_use' = (stale_use \/ Outdated) /\ null_use' = (null_use \/ NullUsed)
SameHeap == UNCHANGED <<space, object, remset, over_cap, phase, pending, minor, major, stale, id>>

Assigned(x, p) == local' = [local EXCEPT ![x] = p] /\ fresh' = fresh \cup {x}

Reads ==
  /\ Takes("read") /\ Assigned(S.x, roots[S.n])
  /\ SameHeap /\ UNCHANGED <<roots, payload, call_vars>>
Loads ==
  /\ Takes("load")
  /\ Assigned(S.x, IF NullUsed THEN Null ELSE kid[local[S.y]][S.n])
  /\ SameHeap /\ UNCHANGED <<roots, payload, call_vars>>
PushesRoot ==
  /\ Takes("root") /\ roots' = [roots EXCEPT ![S.n] = local[S.x]]
  /\ SameHeap /\ UNCHANGED <<payload, local, fresh, call_vars>>
PopsRoots ==
  /\ Takes("drop") /\ roots' = [r \in Roots |-> IF r >= S.n THEN Null ELSE roots[r]]
  /\ SameHeap /\ UNCHANGED <<payload, local, fresh, call_vars>>
Returns ==
  /\ Takes("ret") /\ roots' = IF S.n = 0 THEN roots ELSE [roots EXCEPT ![S.n] = local[S.x]]
  /\ SameHeap /\ UNCHANGED <<payload, local, fresh, call_vars>>
Stores ==
  /\ Takes("store")
  /\ kid' = IF NullUsed THEN kid ELSE [kid EXCEPT ![local[S.x]][S.n] = local[S.y]]
  /\ UNCHANGED <<space, age, fwd, mark, remset, over_cap, phase, pending, minor, major, stale, id>>
  /\ UNCHANGED <<roots, payload, local, fresh, call_vars>>
write_barrier ==
  /\ Takes("barrier")
  /\ remembered' = IF local[S.y] # Null /\ is_old(local[S.x]) /\ is_young(local[S.y])
                   THEN Append(remembered, local[S.x]) ELSE remembered
  /\ UNCHANGED <<space, object, remembered_next, over_cap, phase, pending, minor, major, stale, id>>
  /\ UNCHANGED <<roots, payload, local, fresh, call_vars>>
Updates ==
  /\ Takes("len") \/ Takes("cap")
  /\ payload' = IF NullUsed THEN payload
                ELSE IF S.op = "len" THEN [payload EXCEPT ![id[local[S.x]]].len = S.n]
                ELSE [payload EXCEPT ![id[local[S.x]]].cap = S.n]
  /\ SameHeap /\ UNCHANGED <<roots, local, fresh, call_vars>>

BNext ==
  \/ Call \/ Allocates \/ Collecting \/ Collects \/ Delivers \/ Fails
  \/ Reads \/ Loads \/ PushesRoot \/ PopsRoots \/ Returns \/ Stores \/ write_barrier \/ Updates
BSpec == BInit /\ [][BNext]_bvars

-----------------------------------------------------------------------------
(***************************************************************************)
(* Properties.                                                             *)
(***************************************************************************)
\* Where a collection may begin, and between calls.
Safepoint == phase = "run" /\ (todo = <<>> \/ (Head(todo).op = "new" /\ roots[T] = Null))

\* heap.h:17: no raw pointer is used after a call that may have collected, unless it
\* was read again from a root.
NoStaleUse == ~stale_use

\* No call follows a null pointer; and whatever collections ran meanwhile, a finished
\* call has the effect it has on values, and changed nothing else a register shows.
CallsMeanWhatTheySay ==
  /\ ~null_use
  /\ Between => \A r \in Regs : expect[r].k = "Any" \/ Shown[roots[r]] = expect[r]

\* Nothing reachable was reclaimed.
NothingDangles == (Safepoint /\ Sound) => Closed

\* heap.h:58: write_barrier is "called by every store of a Value into a live container":
\* at every safepoint each old-to-young pointer the calls have stored is remembered.
EveryStoreHasBarrier == (Safepoint /\ Sound) => OldToYoungRemembered

\* The same as long as none of the builtins that have no barrier has run.
StoresRemembered == ~sloppy => EveryStoreHasBarrier

\* Where the heap still keeps its promises (after a store that was not remembered the
\* next collection may lose an object).
Intact == NotStale /\ EveryStoreHasBarrier

\* A cursor opened on an array stays within its slots, however the array is changed.
CursorWithinSlots ==
  Between => \A a \in Live : PayloadAt(a).kind = "Iter" =>
    PayloadAt(a).cap <= PayloadAt(a).len /\ PayloadAt(a).len <= PayloadAt(kid[a][1]).cap
=============================================================================
