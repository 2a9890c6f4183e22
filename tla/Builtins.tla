------------------------------ MODULE Builtins -------------------------------
(***************************************************************************)
(* The instructions and builtins that allocate, build or change containers *)
(* (src/src/interp.cc, src/src/native.cc) on the moving heap.  Each is a   *)
(* sequence of micro-steps on C++ locals, registers and handles, in the    *)
(* order of the code; a collection may run inside any "new" and moves      *)
(* every object, updating the roots but not the locals.                    *)
(*                                                                         *)
(* Numbers, and the bytes of a string, are left out: a value that is no    *)
(* object is Null, a string is told from another by its text.  Key copies  *)
(* in std::string never move, so the generated steps name keys directly.   *)
(***************************************************************************)
EXTENDS HeapGraph, SequencesExt

CONSTANTS
  NRegs,      \* registers of the frame
  NHandles,   \* bound on the depth of handles_
  kInitCap,   \* capacity of a container that grows for the first time (4 in the code)
  Setups,     \* sequences of calls: one of them is made first,
  Calls,      \* then any of these,
  MaxCalls    \* so many times

ASSUME BuiltinsAssumption ==
  /\ NRegs \in Nat \ {0} /\ NHandles \in Nat /\ NHandles >= 6  \* the deepest use: a map that grows
  /\ NRoots = NRegs + NHandles + 1
  /\ NFields >= 2                  \* a map has two slots
  /\ kInitCap \in Nat \ {0}

Regs == 1 .. NRegs
H(k) == NRegs + k        \* the k-th handle
T    == NRoots           \* the pointer a new_* has just returned

VARIABLES
  payload,    \* what an object holds besides pointers: kind, len, cap, text
  local,      \* C++ locals that hold object pointers
  fresh,      \* ghost: the locals assigned since the last collection
  todo,       \* micro-steps left of the call
  setup,      \* calls left of the first sequence
  ncalls,     \* calls begun after it
  expect,     \* ghost: what the registers must show when the call is over
  sloppy,     \* ghost: a builtin of Unbarriered has run
  stale_use,  \* ghost: a local from before a collection was used as a pointer
  null_use    \* ghost: a null local was followed

bvars == <<gvars, payload, local, fresh, todo, setup, ncalls, expect, sloppy, stale_use, null_use>>
call_vars == <<setup, ncalls, expect, sloppy>>
misuse    == <<stale_use, null_use>>

Locals == {"m", "v", "nk", "nv", "k", "s", "d", "e", "x", "arr", "ns", "b", "it"}
None   == ""                  \* no operand, no kind, the empty text
Blanks == [kind |-> None, len |-> 0, cap |-> 0, text |-> None]

-----------------------------------------------------------------------------
(***************************************************************************)
(* Micro-steps: operands are locals x and y, a field, root or length n.    *)
(***************************************************************************)
Step(op, x, y, n) == [op |-> op, x |-> x, y |-> y, n |-> n, p |-> Blanks]
New(x, kind, len, text) ==      \* x = new_*(): a safepoint
  [Step("new", x, None, 0) EXCEPT !.p = [kind |-> kind, len |-> len, cap |-> len, text |-> text]]
Read(x, r)     == Step("read", x, None, r)     \* x = a[r], or hs.get(r)
Root(r, x)     == Step("root", x, None, r)     \* hs.root(x), in slot r
Drop(r)        == Step("drop", None, None, r)    \* ~HandleScope
Load(x, y, f)  == Step("load", x, y, f)      \* x = y->f
Store(x, f, y) == Step("store", x, y, f)     \* x->f = y
Barrier(x, y)  == Step("barrier", x, y, 0)   \* write_barrier(x, y)
SetLen(x, n)   == Step("len", x, None, n)
SetCap(x, n)   == Step("cap", x, None, n)
Ret(r, x)      == Step("ret", x, None, r)      \* fr.regs[r] = out

Steps(n, step(_)) == FlattenSeq([i \in 1 .. n |-> step(i)])

\* Two allocations, the first one rooted across the second; b is the next free handle.
new_string(x, b, text) ==
  << New("b", "Bytes", 0, None), Root(b, "b"), New(x, "String", 0, text), Read("b", b),
     Store(x, 1, "b"), Drop(b) >>
new_array(x, b, len) ==
  << New("s", "Slots", 0, None), Root(b, "s"), New(x, "Array", len, None), Read("s", b),
     Store(x, 1, "s"), Drop(b) >>
new_closure(x, b, n) ==
  << New("s", "Slots", 0, None), Root(b, "s"), New(x, "Closure", n, None), Read("s", b),
     Store(x, 1, "s"), Drop(b) >>
new_map(x) == << New(x, "Map", 0, None) >>
new_iter(x, b, len) ==
  << Root(b, "arr"), New(x, "Iter", len, None), Read("arr", b), Store(x, 1, "arr"),
     SetCap(x, 0), Drop(b) >>

Grown(cap) == IF cap = 0 THEN kInitCap ELSE 2 * cap
\* Faulty: the last element is left behind.
CopiedShort(d, s, n) == Steps(n - 1, LAMBDA i : << Load("e", s, i), Store(d, i, "e") >>)
Copied(d, s, n) == Steps(n, LAMBDA i : << Load("e", s, i), Store(d, i, "e") >>)

\* Faulty: no barrier for the new slots.
GrowArrayUnrecorded(r, len, cap) ==
  << New("ns", "Slots", 0, None), Read("arr", r), Load("s", "arr", 1) >> \o Copied("ns", "s", len)
    \o << Store("arr", 1, "ns"), SetCap("arr", Grown(cap)) >>

\* ns = new_slots(newcap) for the full array in register r.
GrowArray(r, len, cap) ==
  << New("ns", "Slots", 0, None), Read("arr", r), Load("s", "arr", 1) >> \o Copied("ns", "s", len)
    \o << Store("arr", 1, "ns"), Barrier("arr", "ns"), SetCap("arr", Grown(cap)) >>

\* Faulty: the map is not re-read after the new slots were allocated.
GrowMapStale(b, len, cap) ==
  << New("nk", "Slots", 0, None), Root(b, "nk"), New("nv", "Slots", 0, None), Root(b + 1, "nv"),
     Read("nk", b), Read("nv", b + 1), Load("s", "m", 1), Load("d", "m", 2) >>
    \o Copied("nk", "s", len) \o Copied("nv", "d", len)
    \o << Store("m", 1, "nk"), Store("m", 2, "nv"), Barrier("m", "nk"), Barrier("m", "nv"),
          SetCap("m", Grown(cap)) >>

\* Both slots of the full map m, which is rooted in b - 2.
GrowMap(b, len, cap) ==
  << New("nk", "Slots", 0, None), Root(b, "nk"), New("nv", "Slots", 0, None), Root(b + 1, "nv"),
     Read("m", b - 2), Read("nk", b), Read("nv", b + 1), Load("s", "m", 1), Load("d", "m", 2) >>
    \o Copied("nk", "s", len) \o Copied("nv", "d", len)
    \o << Store("m", 1, "nk"), Store("m", 2, "nv"), Barrier("m", "nk"), Barrier("m", "nv"),
          SetCap("m", Grown(cap)) >>

\* Faulty: the value is not read again after the new slots and the key were allocated.
map_putStale(ks, cap, key, b) ==
  IF \E j \in DOMAIN ks : ks[j] = key
  THEN << Load("d", "m", 2), Store("d", CHOOSE j \in DOMAIN ks : ks[j] = key, "v"), Barrier("d", "v") >>
  ELSE << Root(b, "m") >>
         \o (IF Len(ks) = cap THEN GrowMap(b + 2, Len(ks), cap) ELSE <<>>)
         \o new_string("k", IF Len(ks) = cap THEN b + 4 ELSE b + 2, key)
         \o << Read("m", b), Load("s", "m", 1), Store("s", Len(ks) + 1, "k"),
               Barrier("s", "k"), Load("d", "m", 2), Store("d", Len(ks) + 1, "v"), Barrier("d", "v"),
               SetLen("m", Len(ks) + 1), Drop(b) >>

\* map_put and map_set: m[key] = v, where m has the keys ks and capacity cap.
map_put(ks, cap, key, b) ==
  IF \E j \in DOMAIN ks : ks[j] = key
  THEN << Load("d", "m", 2), Store("d", CHOOSE j \in DOMAIN ks : ks[j] = key, "v"), Barrier("d", "v") >>
  ELSE << Root(b, "m"), Root(b + 1, "v") >>
         \o (IF Len(ks) = cap THEN GrowMap(b + 2, Len(ks), cap) ELSE <<>>)
         \o new_string("k", IF Len(ks) = cap THEN b + 4 ELSE b + 2, key)
         \o << Read("m", b), Read("v", b + 1), Load("s", "m", 1), Store("s", Len(ks) + 1, "k"),
               Barrier("s", "k"), Load("d", "m", 2), Store("d", Len(ks) + 1, "v"), Barrier("d", "v"),
               SetLen("m", Len(ks) + 1), Drop(b) >>

-----------------------------------------------------------------------------
(***************************************************************************)
(* What the registers show: the value a pointer stands for, as a tree.     *)
(***************************************************************************)
Tree(k, s, n, e) == [k |-> k, s |-> s, n |-> n, e |-> e]
NilT == Tree("Nil", None, 0, <<>>)
StrT(s) == Tree("String", s, 0, <<>>)
ArrT(e) == Tree("Array", None, 0, e)
MapT(e) == Tree("Map", None, 0, e)

PayloadAt(p) == payload[id[p]]
SlotAt(p, f, i) == kid[kid[p][f]][i]

Shown[p \in Ptr] ==
  IF p = Null THEN NilT
  ELSE LET o == PayloadAt(p) IN
       CASE o.kind = "String" -> StrT(o.text)
         [] o.kind = "Array"   -> ArrT([i \in 1 .. o.len |-> Shown[SlotAt(p, 1, i)]])
         [] o.kind = "Closure" -> Tree("Closure", None, 0, [i \in 1 .. o.len |-> Shown[SlotAt(p, 1, i)]])
         [] o.kind = "Map"     ->
              MapT([i \in 1 .. o.len |-> << PayloadAt(SlotAt(p, 1, i)).text, Shown[SlotAt(p, 2, i)] >>])
         [] o.kind = "Iter"    -> Tree("Iter", None, o.cap, << Shown[kid[p][1]] >>)

-----------------------------------------------------------------------------
(***************************************************************************)
(* The calls.  c.a are the argument registers, c.dst the result's (0: it   *)
(* is dropped), c.key a text and c.i, c.n numbers.                         *)
(***************************************************************************)
P(c, j)   == PayloadAt(roots[c.a[j]])
Kind(c, j) == IF roots[c.a[j]] = Null THEN "Nil" ELSE P(c, j).kind
Keys(c, j) == [i \in 1 .. P(c, j).len |-> PayloadAt(SlotAt(roots[c.a[j]], 1, i)).text]

\* v = a[j]'s i-th element; x = its slots in field f.
Element(v, r, f, i) == << Read("e", r), Load("e", "e", f), Load(v, "e", i) >>

\* A container filled with children x that allocate: the result is rooted in H(1)
\* and read again after each; the store has no write barrier.
Filled(n, dst, children) ==
  new_array("arr", H(1), n) \o << Root(H(1), "arr") >>
    \o Steps(n, LAMBDA i : children[i] \o << Read("arr", H(1)), Load("d", "arr", 1), Store("d", i, "x") >>)
    \o << Read("arr", H(1)), Drop(H(1)), Ret(dst, "arr") >>

\* A child [a, b] of two elements.
PairOf(first, second) ==
  new_array("x", H(2), 2) \o << Load("d", "x", 1) >>
    \o first \o << Store("d", 1, "v") >> \o second \o << Store("d", 2, "v") >>

\* The keys and the capacity of a map after m[key] = v.
Put(m, key) ==
  IF \E j \in DOMAIN m.ks : m.ks[j] = key THEN m
  ELSE [ks |-> Append(m.ks, key), cap |-> IF Len(m.ks) = m.cap THEN Grown(m.cap) ELSE m.cap]

\* A new map after each of its entries << key, steps that read the value into v >>.
Filling(entries) ==
  LET map[i \in 0 .. Len(entries)] ==
        IF i = 0 THEN [ks |-> <<>>, cap |-> 0] ELSE Put(map[i - 1], entries[i][1])
  IN  map
Puts(entries) ==
  LET map == Filling(entries) IN
  Steps(Len(entries), LAMBDA i :
    entries[i][2] \o << Read("m", H(1)) >>
      \o map_put(map[i - 1].ks, map[i - 1].cap, entries[i][1], H(2)))
NewMapOf(entries, dst) ==
  new_map("m") \o << Root(H(1), "m") >> \o Puts(entries)
    \o << Read("m", H(1)), Drop(H(1)), Ret(dst, "m") >>
EntriesOf(c, j) == [i \in 1 .. P(c, j).len |-> << Keys(c, j)[i], Element("v", c.a[j], 2, i) >>]

\* What changes an array or a map.
Push(c) ==
  LET n == P(c, 1).len IN
  << Read("arr", c.a[1]) >> \o (IF n = P(c, 1).cap THEN GrowArray(c.a[1], n, n) ELSE <<>>)
    \o << Load("s", "arr", 1), Read("v", c.a[2]), Store("s", n + 1, "v"), Barrier("s", "v"),
          SetLen("arr", n + 1) >>
SetElement(c) ==
  << Read("arr", c.a[1]), Load("s", "arr", 1), Read("v", c.a[2]), Store("s", c.i, "v"), Barrier("s", "v") >>
insert_fn(c) ==
  LET n == P(c, 1).len IN
  << Read("arr", c.a[1]) >> \o (IF n = P(c, 1).cap THEN GrowArray(c.a[1], n, n) ELSE <<>>)
    \o << Read("arr", c.a[1]), Read("v", c.a[2]), Load("s", "arr", 1) >>
    \o Steps(n + 1 - c.i, LAMBDA k : << Load("e", "s", n + 1 - k), Store("s", n + 2 - k, "e") >>)
    \o << Store("s", c.i, "v"), Barrier("s", "v"), SetLen("arr", n + 1) >>
\* Faulty: the capacity shrinks with the length.
pop_fnShrinking(c) ==
  LET n == P(c, 1).len IN
  << Read("arr", c.a[1]), Load("s", "arr", 1), Load("x", "s", n), SetLen("arr", n - 1), SetCap("arr", n - 1),
     Ret(c.dst, "x") >>
pop_fn(c) ==
  LET n == P(c, 1).len IN
  << Read("arr", c.a[1]), Load("s", "arr", 1), Load("x", "s", n), SetLen("arr", n - 1), Ret(c.dst, "x") >>
remove_fn(c) ==
  LET n == P(c, 1).len IN
  << Read("arr", c.a[1]), Load("s", "arr", 1), Load("x", "s", c.i) >>
    \o Steps(n - c.i, LAMBDA k : << Load("e", "s", c.i + k), Store("s", c.i + k - 1, "e") >>)
    \o << SetLen("arr", n - 1), Ret(c.dst, "x") >>
SetProperty(c) ==
  << Read("m", c.a[1]), Read("v", c.a[2]) >> \o map_put(Keys(c, 1), P(c, 1).cap, c.key, H(1))
remove_key_fn(c) ==
  LET n == P(c, 1).len
      j == CHOOSE i \in 1 .. n : Keys(c, 1)[i] = c.key
  IN  << Read("m", c.a[1]), Load("s", "m", 1), Load("d", "m", 2) >>
        \o Steps(n - j, LAMBDA k : << Load("e", "s", j + k), Store("s", j + k - 1, "e"),
                                      Load("e", "d", j + k), Store("d", j + k - 1, "e") >>)
        \o << SetLen("m", n - 1) >>

\* What builds one object and fills it before anything else is allocated.
Closure(c) ==
  new_closure("x", H(1), Len(c.a)) \o << Load("d", "x", 1) >>
    \o Steps(Len(c.a), LAMBDA j : << Read("v", c.a[j]), Store("d", j, "v") >>) \o << Ret(c.dst, "x") >>
slice_fn(c) ==
  new_array("x", H(1), c.n) \o << Read("arr", c.a[1]), Load("s", "arr", 1), Load("d", "x", 1) >>
    \o Steps(c.n, LAMBDA j : << Load("e", "s", c.i + j - 1), Store("d", j, "e") >>) \o << Ret(c.dst, "x") >>
fill_fn(c) ==
  new_array("x", H(1), c.n) \o << Read("v", c.a[1]), Load("d", "x", 1) >>
    \o Steps(c.n, LAMBDA j : << Store("d", j, "v") >>) \o << Barrier("d", "v"), Ret(c.dst, "x") >>
concat_arr_fn(c) ==
  LET n == P(c, 1).len IN
  new_array("x", H(1), n + P(c, 2).len) \o << Load("d", "x", 1) >>
    \o Steps(n, LAMBDA j : Element("v", c.a[1], 1, j) \o << Store("d", j, "v"), Barrier("d", "v") >>)
    \o Steps(P(c, 2).len, LAMBDA j : Element("v", c.a[2], 1, j) \o << Store("d", n + j, "v"), Barrier("d", "v") >>)
    \o << Ret(c.dst, "x") >>
KeysOrValues(c, f) ==
  new_array("x", H(1), P(c, 1).len) \o << Load("d", "x", 1) >>
    \o Steps(P(c, 1).len, LAMBDA j : Element("v", c.a[1], f, j) \o << Store("d", j, "v") >>) \o << Ret(c.dst, "x") >>
iter_fn(c) == << Read("arr", c.a[1]) >> \o new_iter("it", H(1), P(c, 1).len) \o << Ret(c.dst, "it") >>
next_fn(c) ==
  << Read("it", c.a[1]), Load("arr", "it", 1), Load("s", "arr", 1), Load("x", "s", P(c, 1).cap + 1),
     SetCap("it", P(c, 1).cap + 1), Ret(c.dst, "x") >>

\* What builds several objects.
format_join_fn(c) ==
  << Read("arr", c.a[1]), Root(H(1), "arr"), Read("x", c.a[2]), Root(H(2), "x") >>
    \o Steps(P(c, 1).len, LAMBDA j :
         << Read("x", H(2)), Load("b", "x", 1), Read("arr", H(1)), Load("s", "arr", 1), Load("e", "s", j) >>
           \o new_string("v", H(3), "t") \o << Load("b", "v", 1) >>)
    \o new_string("x", H(3), "j") \o << Drop(H(1)), Ret(c.dst, "x") >>
merge_fn(c) == NewMapOf(EntriesOf(c, 1) \o EntriesOf(c, 2), c.dst)
invert_fn(c) ==
  NewMapOf([i \in 1 .. P(c, 1).len |->
              << PayloadAt(SlotAt(roots[c.a[1]], 2, i)).text, Element("v", c.a[1], 1, i) >>], c.dst)
split_fn(c) == Filled(c.n, c.dst, [i \in 1 .. c.n |-> new_string("x", H(2), c.key)])
zip_fn(c) ==
  LET n == IF P(c, 1).len < P(c, 2).len THEN P(c, 1).len ELSE P(c, 2).len IN
  Filled(n, c.dst, [i \in 1 .. n |-> PairOf(Element("v", c.a[1], 1, i), Element("v", c.a[2], 1, i))])
entries_fn(c) ==
  Filled(P(c, 1).len, c.dst,
         [i \in 1 .. P(c, 1).len |-> PairOf(Element("v", c.a[1], 1, i), Element("v", c.a[1], 2, i))])
chunk_fn(c) ==      \* chunks of one element
  Filled(P(c, 1).len, c.dst,
         [i \in 1 .. P(c, 1).len |->
            new_array("x", H(2), 1) \o << Load("s", "x", 1) >> \o Element("v", c.a[1], 1, i) \o << Store("s", 1, "v") >>])
unzip_fn(c) ==
  LET n == P(c, 1).len
      Half(f) == new_array("x", H(2), n) \o << Read("arr", H(1)), Load("d", "arr", 1), Store("d", f, "x") >>
  IN  new_array("arr", H(1), 2) \o << Root(H(1), "arr") >> \o Half(1) \o Half(2)
        \o Steps(n, LAMBDA i :
             FlattenSeq([f \in 1 .. 2 |->
               Element("v", c.a[1], 1, i) \o << Load("v", "v", 1), Load("v", "v", f), Read("arr", H(1)),
                 Load("s", "arr", 1), Load("d", "s", f), Load("d", "d", 1), Store("d", i, "v") >>]))
        \o << Read("arr", H(1)), Drop(H(1)), Ret(c.dst, "arr") >>
=============================================================================
