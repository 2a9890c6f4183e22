----------------------------- MODULE BuiltinSteps -----------------------------
(***************************************************************************)
(* The discipline the builtins keep, found by reading their micro-steps    *)
(* alone: what is known of the locals and handles before each step, which  *)
(* steps that allows, and that every call keeps to it.  BuiltinProofs      *)
(* shows what the discipline is worth on the heap.                         *)
(***************************************************************************)
EXTENDS BuiltinCalls, FiniteSetTheorems, Induction

USE DEF Roots, Fields, Ptr, Null

-----------------------------------------------------------------------------
(***************************************************************************)
(* What is known between two steps.  fresh: the locals assigned since the  *)
(* last allocation; young, lone: those of them whose object is young, and  *)
(* just allocated and in no field yet; box: whose first field is young;    *)
(* ryoung, rlone: the same of handles; last: a container and the local     *)
(* just loaded from it; owed: stores that a write barrier must follow.     *)
(***************************************************************************)
Handles == 1 .. NRoots - 1               \* registers and handles: all roots but T
States == [strict : BOOLEAN, fresh : SUBSET Locals, young : SUBSET Locals, lone : SUBSET Locals,
           box : SUBSET Locals, rlone : SUBSET Handles, ryoung : SUBSET Handles,
           last : SUBSET (Locals \X Locals), owed : SUBSET (Locals \X Locals)]

Without(pairs, x) == {p \in pairs : p[1] # x /\ p[2] # x}
Unowed(a, x) == \A p \in a.owed : p[1] # x /\ p[2] # x

Assign(a, x, young, last) ==
  [a EXCEPT !.fresh = @ \cup {x}, !.young = (@ \ {x}) \cup young, !.lone = @ \ {x}, !.box = @ \ {x},
            !.last = last]

\* Only fresh locals are used, fields and roots exist, and no store is owed its
\* barrier when an allocation may collect.
Allowed(a, s) ==
  \/ s.op = "new"     /\ s.x \in Locals /\ a.owed = {}
  \/ s.op = "read"    /\ s.x \in Locals /\ s.n \in Handles /\ Unowed(a, s.x)
  \/ s.op = "load"    /\ s.x \in Locals /\ s.y \in a.fresh /\ s.n \in Fields /\ Unowed(a, s.x)
  \/ s.op = "store"   /\ s.x \in a.fresh /\ s.y \in a.fresh /\ s.n \in Fields
  \/ s.op = "barrier" /\ s.x \in a.fresh /\ s.y \in a.fresh
  \/ s.op = "root"    /\ s.x \in a.fresh /\ s.n \in Handles
  \/ s.op = "drop"
  \/ s.op = "ret"     /\ s.x \in a.fresh /\ s.n \in 0 .. NRegs
  \/ s.op = "len"     /\ s.x \in a.fresh /\ s.n \in 0 .. NFields
  \/ s.op = "cap"     /\ s.x \in a.fresh

\* A store needs no barrier into a young object, nor of what was loaded from the
\* same container: that edge was there before.
After(a, s) ==
  IF s.op = "new"
  THEN [a EXCEPT !.fresh = {s.x}, !.young = {s.x}, !.lone = {s.x}, !.box = {}, !.rlone = {},
                 !.ryoung = a.rlone, !.last = {}, !.owed = {}]
  ELSE IF s.op = "read"
  THEN Assign(a, s.x, IF s.n \in a.ryoung THEN {s.x} ELSE {}, Without(a.last, s.x))
  ELSE IF s.op = "load"
  THEN Assign(a, s.x, IF s.y \in a.box /\ s.n = 1 THEN {s.x} ELSE {},
              IF s.x # s.y /\ a.owed = {} THEN {<<s.y, s.x>>} ELSE {})
  ELSE IF s.op = "store"
  THEN [a EXCEPT !.lone = {}, !.rlone = {},
                 !.box = IF s.n = 1 /\ s.x \in a.young /\ s.y \in a.young THEN {s.x} ELSE {},
                 !.owed = IF ~a.strict \/ s.x \in a.young \/ <<s.x, s.y>> \in a.last THEN a.owed
                          ELSE a.owed \cup {<<s.x, s.y>>}]
  ELSE IF s.op = "barrier" THEN [a EXCEPT !.owed = @ \ {<<s.x, s.y>>}]
  ELSE IF s.op = "root"
  THEN [a EXCEPT !.rlone = IF s.x \in a.lone THEN @ \cup {s.n} ELSE @ \ {s.n},
                 !.ryoung = IF s.x \in a.young THEN @ \cup {s.n} ELSE @ \ {s.n}]
  ELSE IF s.op = "drop"
  THEN [a EXCEPT !.rlone = {r \in @ : r < s.n}, !.ryoung = {r \in @ : r < s.n}]
  ELSE IF s.op = "ret"
  THEN [a EXCEPT !.rlone = @ \ {s.n}, !.ryoung = @ \ {s.n}]
  ELSE a

\* The steps q are allowed one after the other, a known before the first, and
\* nothing is owed at the end.
Safe(q, a) ==
  \E A : /\ A[1] = a
         /\ \A k \in 1 .. Len(q) : Allowed(A[k], q[k]) /\ A[k + 1] = After(A[k], q[k])
         /\ A[Len(q) + 1].owed = {}

-----------------------------------------------------------------------------
(***************************************************************************)
(* Steps as values.  texts is any set of texts that covers the keys.       *)
(***************************************************************************)
Ops      == {"new", "read", "load", "store", "barrier", "root", "drop", "ret", "len", "cap"}
Kinds    == {None, "Bytes", "String", "Slots", "Array", "Closure", "Map", "Iter"}
Operands == Locals \cup {None}
Payloads(texts) == [kind : Kinds, len : 0 .. NFields, cap : Nat, text : texts \cup {None}]
Micro(texts) == [op : Ops, x : Operands, y : Operands, n : Nat, p : Payloads(texts)]

\* The steps q lead from what is known in A to what is known in B: whatever is
\* safe after B is safe after q.
Lead(texts, q, A, B) ==
  /\ q \in Seq(Micro(texts))
  /\ \A r \in Seq(Micro(texts)) : (\A z \in B : Safe(r, z)) => \A a \in A : Safe(q \o r, a)

LEMMA SafeEnd == ASSUME NEW a, a.owed = {} PROVE Safe(<<>>, a)
<1> DEFINE A == [k \in {1} |-> a]
<1>1. A[1] = a /\ Len(<<>>) = 0 /\ 1 .. 0 = {} /\ 0 + 1 = 1
  OBVIOUS
<1> HIDE DEF A
<1> QED BY <1>1 DEF Safe

LEMMA SafeCons ==
  ASSUME NEW texts, NEW s \in Micro(texts), NEW r \in Seq(Micro(texts)), NEW a,
         Allowed(a, s), Safe(r, After(a, s))
  PROVE  Safe(<<s>> \o r, a)
<1> DEFINE q == <<s>> \o r
<1>1. PICK B : /\ B[1] = After(a, s)
               /\ \A k \in 1 .. Len(r) : Allowed(B[k], r[k]) /\ B[k + 1] = After(B[k], r[k])
               /\ B[Len(r) + 1].owed = {}
  BY DEF Safe
<1>2. /\ Len(q) = Len(r) + 1 /\ q[1] = s /\ Len(r) \in Nat
      /\ \A k \in 1 .. Len(q) : k # 1 => q[k] = r[k - 1] /\ k - 1 \in 1 .. Len(r)
  OBVIOUS
<1> HIDE DEF q
<1> DEFINE A == [k \in 1 .. Len(r) + 2 |-> IF k = 1 THEN a ELSE B[k - 1]]
<1>3. A[1] = a /\ \A k \in 1 .. Len(r) + 1 : A[k + 1] = B[k]
  <2>1. \A k \in 1 .. Len(r) + 1 : k + 1 \in 1 .. Len(r) + 2 /\ k + 1 # 1 /\ (k + 1) - 1 = k
    BY <1>2
  <2>2. 1 \in 1 .. Len(r) + 2
    BY <1>2
  <2> QED BY <2>1, <2>2
<1> HIDE DEF A
<1>4. ASSUME NEW k \in 1 .. Len(q) PROVE Allowed(A[k], q[k]) /\ A[k + 1] = After(A[k], q[k])
  <2>1. CASE k = 1
    BY <1>1, <1>2, <1>3, <2>1
  <2>2. CASE k # 1
    <3>1. q[k] = r[k - 1] /\ k - 1 \in 1 .. Len(r) /\ (k - 1) + 1 = k /\ k - 1 \in 1 .. Len(r) + 1
          /\ k \in 1 .. Len(r) + 1
      BY <1>2, <2>2
    <3>2. A[k] = B[k - 1] /\ A[k + 1] = B[k]
      BY <1>3, <3>1
    <3>3. Allowed(B[k - 1], r[k - 1]) /\ B[(k - 1) + 1] = After(B[k - 1], r[k - 1])
      BY <1>1, <3>1
    <3> QED BY <3>1, <3>2, <3>3
  <2> QED BY <2>1, <2>2
<1>5. A[Len(q) + 1].owed = {}
  <2>1. Len(r) + 1 \in 1 .. Len(r) + 1
    BY <1>2
  <2> QED BY <1>1, <1>2, <1>3, <2>1
<1>6. Safe(q, a)
  BY <1>3, <1>4, <1>5 DEF Safe
<1> QED BY <1>6 DEF q

LEMMA SafeTake ==
  ASSUME NEW texts, NEW q \in Seq(Micro(texts)), q # <<>>, NEW a, Safe(q, a)
  PROVE  Allowed(a, Head(q)) /\ Safe(Tail(q), After(a, Head(q)))
<1>1. PICK A : /\ A[1] = a
               /\ \A k \in 1 .. Len(q) : Allowed(A[k], q[k]) /\ A[k + 1] = After(A[k], q[k])
               /\ A[Len(q) + 1].owed = {}
  BY DEF Safe
<1>2. /\ Len(q) \in Nat /\ Head(q) = q[1] /\ Len(Tail(q)) = Len(q) - 1 /\ 1 \in 1 .. Len(q)
      /\ \A k \in 1 .. Len(Tail(q)) : Tail(q)[k] = q[k + 1] /\ k + 1 \in 1 .. Len(q)
  OBVIOUS
<1>3. Allowed(a, Head(q)) /\ A[1 + 1] = After(a, Head(q))
  BY <1>1, <1>2
<1> DEFINE B == [k \in 1 .. Len(q) |-> A[k + 1]]
<1>4. B[1] = After(a, Head(q)) /\ \A k \in 1 .. Len(q) : B[k] = A[k + 1]
  BY <1>2, <1>3
<1> HIDE DEF B
<1>5. ASSUME NEW k \in 1 .. Len(Tail(q))
      PROVE  Allowed(B[k], Tail(q)[k]) /\ B[k + 1] = After(B[k], Tail(q)[k])
  <2>1. k \in 1 .. Len(q) /\ k + 1 \in 1 .. Len(q) /\ Tail(q)[k] = q[k + 1]
    BY <1>2
  <2>2. B[k] = A[k + 1] /\ B[k + 1] = A[(k + 1) + 1]
    BY <1>4, <2>1
  <2> QED BY <1>1, <2>1, <2>2
<1>6. B[Len(Tail(q)) + 1].owed = {}
  <2>1. Len(Tail(q)) + 1 = Len(q) /\ Len(q) \in 1 .. Len(q)
    BY <1>2
  <2> QED BY <1>1, <1>4, <2>1
<1>7. Safe(Tail(q), After(a, Head(q)))
  BY <1>4, <1>5, <1>6 DEF Safe
<1> QED BY <1>3, <1>7

LEMMA LeadOne ==
  ASSUME NEW texts, NEW s \in Micro(texts), NEW A, NEW B,
         \A a \in A : Allowed(a, s) /\ After(a, s) \in B
  PROVE  Lead(texts, <<s>>, A, B)
<1>1. <<s>> \in Seq(Micro(texts))
  OBVIOUS
<1>2. ASSUME NEW r \in Seq(Micro(texts)), \A z \in B : Safe(r, z), NEW a \in A PROVE Safe(<<s>> \o r, a)
  BY <1>2, SafeCons
<1> QED BY <1>1, <1>2 DEF Lead

LEMMA LeadThen ==
  ASSUME NEW texts, NEW p, NEW q, NEW A, NEW B, NEW C, Lead(texts, p, A, B), Lead(texts, q, B, C)
  PROVE  Lead(texts, p \o q, A, C)
<1>1. p \in Seq(Micro(texts)) /\ q \in Seq(Micro(texts)) /\ p \o q \in Seq(Micro(texts))
  BY DEF Lead
<1>2. ASSUME NEW r \in Seq(Micro(texts)), \A z \in C : Safe(r, z), NEW a \in A PROVE Safe((p \o q) \o r, a)
  <2>1. q \o r \in Seq(Micro(texts)) /\ (p \o q) \o r = p \o (q \o r)
    BY <1>1
  <2>2. \A b \in B : Safe(q \o r, b)
    BY <1>2 DEF Lead
  <2>3. Safe(p \o (q \o r), a)
    BY <2>1, <2>2 DEF Lead
  <2> QED BY <2>1, <2>3
<1> QED BY <1>1, <1>2 DEF Lead

LEMMA LeadNone ==
  ASSUME NEW texts, NEW A PROVE Lead(texts, <<>>, A, A)
<1>1. \A r \in Seq(Micro(texts)) : <<>> \o r = r
  OBVIOUS
<1> QED BY <1>1 DEF Lead

LEMMA LeadWeaker ==
  ASSUME NEW texts, NEW q, NEW A, NEW B, NEW C, NEW D, Lead(texts, q, A, B), C \subseteq A, B \subseteq D
  PROVE  Lead(texts, q, C, D)
BY DEF Lead
-----------------------------------------------------------------------------
(***************************************************************************)
(* Steps that are repeated.                                                *)
(***************************************************************************)
\* The recursion of FlattenSeq, up to k.
IsFlat(f, t, k) == f = [x \in 1 .. k |-> IF x = 1 THEN t[x] ELSE f[x - 1] \o t[x]]

LEMMA FlatExists ==
  ASSUME NEW t PROVE \A k \in Nat : \E f : IsFlat(f, t, k)
<1> DEFINE N == {k \in Nat : \E f : IsFlat(f, t, k)}
<1>1. 0 \in N
  <2> DEFINE f == [x \in 1 .. 0 |-> t[x]]
  <2>1. IsFlat(f, t, 0)
    BY DEF IsFlat
  <2> QED BY <2>1
<1>2. ASSUME NEW k \in Nat, k \in N PROVE k + 1 \in N
  <2>1. PICK f : IsFlat(f, t, k)
    BY <1>2
  <2> DEFINE g == [x \in 1 .. k + 1 |-> IF x <= k THEN f[x] ELSE IF x = 1 THEN t[x] ELSE f[x - 1] \o t[x]]
  <2>2. \A x \in 1 .. k + 1 : g[x] = IF x = 1 THEN t[x] ELSE g[x - 1] \o t[x]
    <3> SUFFICES ASSUME NEW x \in 1 .. k + 1
                 PROVE  g[x] = IF x = 1 THEN t[x] ELSE g[x - 1] \o t[x]
      OBVIOUS
    <3>1. x # 1 => x - 1 \in 1 .. k + 1 /\ x - 1 <= k
      OBVIOUS
    <3>2. x <= k => f[x] = IF x = 1 THEN t[x] ELSE f[x - 1] \o t[x]
      <4>1. f = [y \in 1 .. k |-> IF y = 1 THEN t[y] ELSE f[y - 1] \o t[y]]
        BY <2>1 DEF IsFlat
      <4>2. x <= k => x \in 1 .. k
        OBVIOUS
      <4> QED BY <4>1, <4>2
    <3> QED BY <3>1, <3>2
  <2>3. g = [x \in 1 .. k + 1 |-> g[x]]
    OBVIOUS
  <2> HIDE DEF g
  <2>4. IsFlat(g, t, k + 1)
    BY <2>2, <2>3 DEF IsFlat
  <2> QED BY <2>4
<1>3. \A k \in Nat : k \in N
  <2> HIDE DEF N
  <2> QED BY <1>1, <1>2, Induct
<1> QED BY <1>3

LEMMA FlatStep ==
  ASSUME NEW t, NEW k \in Nat, NEW f, IsFlat(f, t, k)
  PROVE  \A x \in 1 .. k : f[x] = IF x = 1 THEN t[x] ELSE f[x - 1] \o t[x]
<1>1. f = [x \in 1 .. k |-> IF x = 1 THEN t[x] ELSE f[x - 1] \o t[x]]
  BY DEF IsFlat
<1> QED BY ONLY <1>1, Zenon

LEMMA FlatIs ==
  ASSUME NEW t, Len(t) \in Nat, Len(t) # 0
  PROVE  \E f : IsFlat(f, t, Len(t)) /\ FlattenSeq(t) = f[Len(t)]
<1> DEFINE g == CHOOSE f : f = [x \in 1 .. Len(t) |-> IF x = 1 THEN t[x] ELSE f[x - 1] \o t[x]]
<1>1. \E f : f = [x \in 1 .. Len(t) |-> IF x = 1 THEN t[x] ELSE f[x - 1] \o t[x]]
  BY FlatExists DEF IsFlat
<1>2. IsFlat(g, t, Len(t))
  BY ONLY <1>1, Zenon DEF IsFlat
<1>3. FlattenSeq(t) = g[Len(t)]
  BY DEF FlattenSeq
<1> QED BY <1>2, <1>3

LEMMA FlatEmpty == FlattenSeq(<<>>) = <<>>
BY DEF FlattenSeq

\* Flattening, one element at a time.
LEMMA FlatAppend ==
  ASSUME NEW M, NEW t \in Seq(Seq(M)), NEW x \in Seq(M)
  PROVE  FlattenSeq(Append(t, x)) = FlattenSeq(t) \o x
<1> DEFINE u == Append(t, x)
           m == Len(t)
<1>1. m \in Nat /\ Len(u) = m + 1 /\ u[m + 1] = x /\ \A k \in 1 .. m : t[k] = u[k]
  OBVIOUS
<1> HIDE DEF u, m
<1>2. PICK g : IsFlat(g, u, m + 1) /\ FlattenSeq(u) = g[m + 1]
  BY <1>1, FlatIs
<1>3. g[m + 1] = IF m + 1 = 1 THEN u[m + 1] ELSE g[(m + 1) - 1] \o u[m + 1]
  <2>1. m + 1 \in Nat /\ m + 1 \in 1 .. m + 1
    BY <1>1
  <2>2. \A k \in 1 .. m + 1 : g[k] = IF k = 1 THEN u[k] ELSE g[k - 1] \o u[k]
    BY <1>2, <2>1, FlatStep
  <2> QED BY <2>1, <2>2
<1>4. CASE m = 0
  <2>1. t = <<>>
    BY <1>4 DEF m
  <2> QED BY <1>1, <1>2, <1>3, <1>4, <2>1, FlatEmpty DEF u
<1>5. CASE m # 0
  <2>1. PICK f : IsFlat(f, t, m) /\ FlattenSeq(t) = f[m]
    BY <1>1, <1>5, FlatIs DEF m
  <2> DEFINE N == {k \in Nat : k \in 1 .. m => f[k] = g[k]}
  <2>2. ASSUME NEW k \in Nat, k \in N PROVE k + 1 \in N
    <3> SUFFICES ASSUME k + 1 \in 1 .. m PROVE f[k + 1] = g[k + 1]
      OBVIOUS
    <3>1. k + 1 \in 1 .. m + 1 /\ (k + 1) - 1 = k /\ (k + 1 # 1 => k \in 1 .. m) /\ m + 1 \in Nat
      BY <1>1
    <3>2. f[k + 1] = IF k + 1 = 1 THEN t[k + 1] ELSE f[(k + 1) - 1] \o t[k + 1]
      BY <1>1, <2>1, FlatStep
    <3>3. g[k + 1] = IF k + 1 = 1 THEN u[k + 1] ELSE g[(k + 1) - 1] \o u[k + 1]
      BY <1>2, <3>1, FlatStep
    <3>4. t[k + 1] = u[k + 1]
      BY <1>1
    <3>5. k + 1 # 1 => f[k] = g[k]
      BY <2>2, <3>1
    <3> QED BY <3>1, <3>2, <3>3, <3>4, <3>5
  <2>3. \A k \in 1 .. m : f[k] = g[k]
    <3>1. 0 \in N
      BY <1>1
    <3>2. \A k \in Nat : k \in N
      <4> HIDE DEF N
      <4> QED BY <2>2, <3>1, Induct
    <3> QED BY <1>1, <3>2
  <2>4. f[m] = g[m] /\ (m + 1) - 1 = m /\ m + 1 # 1
    BY <1>1, <1>5, <2>3
  <2> QED BY <1>1, <1>2, <1>3, <2>1, <2>4 DEF u
<1> QED BY <1>4, <1>5

\* A function on 1 .. k is a sequence.
LEMMA AsSequence ==
  ASSUME NEW M, NEW k \in Nat, NEW f \in [1 .. k -> M]
  PROVE  f \in Seq(M) /\ Len(f) = k
OBVIOUS

\* What each piece keeps, all of them keep.
LEMMA LeadAll ==
  ASSUME NEW texts, NEW n \in Nat, NEW t, t = [i \in 1 .. n |-> t[i]], NEW A,
         \A i \in 1 .. n : Lead(texts, t[i], A, A)
  PROVE  Lead(texts, FlattenSeq(t), A, A)
<1> DEFINE u(k) == [i \in 1 .. k |-> t[i]]
           N == {k \in Nat : k <= n => Lead(texts, FlattenSeq(u(k)), A, A)}
<1>0. \A i \in 1 .. n : t[i] \in Seq(Micro(texts))
  BY DEF Lead
<1>1. \A k \in 0 .. n : u(k) \in Seq(Seq(Micro(texts)))
  <2> SUFFICES ASSUME NEW k \in 0 .. n PROVE u(k) \in Seq(Seq(Micro(texts)))
    OBVIOUS
  <2>1. u(k) \in [1 .. k -> Seq(Micro(texts))]
    BY <1>0
  <2> HIDE DEF u
  <2> QED BY <2>1, AsSequence
<1>2. 0 \in N
  <2>1. u(0) = <<>>
    OBVIOUS
  <2> QED BY <2>1, FlatEmpty, LeadNone
<1>3. ASSUME NEW k \in Nat, k \in N PROVE k + 1 \in N
  <2> SUFFICES ASSUME k + 1 <= n PROVE Lead(texts, FlattenSeq(u(k + 1)), A, A)
    OBVIOUS
  <2>1. k \in 0 .. n /\ k + 1 \in 0 .. n /\ k + 1 \in 1 .. n
    OBVIOUS
  <2>2. u(k + 1) = Append(u(k), t[k + 1])
    <3>1. Len(u(k)) = k
      OBVIOUS
    <3>2. Append(u(k), t[k + 1]) = [i \in 1 .. k + 1 |-> IF i <= k THEN u(k)[i] ELSE t[k + 1]]
      BY <3>1
    <3>3. \A i \in 1 .. k + 1 : (IF i <= k THEN u(k)[i] ELSE t[k + 1]) = t[i]
      OBVIOUS
    <3> QED BY <3>2, <3>3
  <2>3. u(k) \in Seq(Seq(Micro(texts))) /\ t[k + 1] \in Seq(Micro(texts))
    BY <1>0, <1>1, <2>1
  <2> DEFINE v == u(k)
  <2> HIDE DEF u, v
  <2>4. FlattenSeq(Append(v, t[k + 1])) = FlattenSeq(v) \o t[k + 1]
    BY <2>3, FlatAppend DEF v
  <2>5. Lead(texts, FlattenSeq(v), A, A)
    BY <1>3 DEF v
  <2>6. Lead(texts, t[k + 1], A, A)
    BY <2>1
  <2>7. Lead(texts, FlattenSeq(v) \o t[k + 1], A, A)
    BY <2>5, <2>6, LeadThen
  <2> QED BY <2>2, <2>4, <2>7 DEF v
<1>4. n \in N
  <2> HIDE DEF N
  <2>1. \A k \in Nat : k \in N
    BY <1>2, <1>3, Induct
  <2> QED BY <2>1
<1>5. u(n) = t
  OBVIOUS
<1> QED BY <1>4, <1>5

-----------------------------------------------------------------------------
(***************************************************************************)
(* Sequences written out.                                                  *)
(***************************************************************************)
LEMMA Tuple2 ==
  ASSUME NEW M, NEW a \in M, NEW b \in M PROVE <<a>> \o <<b>> = <<a, b>>
<1>1. <<a>> \in Seq(M)
  OBVIOUS
<1>2. Append(<<a>>, b) = <<a>> \o <<b>>
  OBVIOUS
<1>3. <<a, b>> = Append(<<a>>, b)
  OBVIOUS
<1> QED BY <1>2, <1>3

LEMMA Tuple3 ==
  ASSUME NEW M, NEW a \in M, NEW b \in M, NEW c \in M PROVE <<a, b>> \o <<c>> = <<a, b, c>>
<1>1. <<a, b>> \in Seq(M)
  OBVIOUS
<1>2. Append(<<a, b>>, c) = <<a, b>> \o <<c>>
  BY <1>1
<1>3. <<a, b, c>> = Append(<<a, b>>, c)
  OBVIOUS
<1> QED BY <1>2, <1>3

LEMMA LeadElement ==
  ASSUME NEW texts, NEW s, NEW A, NEW B, Lead(texts, <<s>>, A, B) PROVE s \in Micro(texts)
<1>1. <<s>> \in Seq(Micro(texts))
  BY DEF Lead
<1> QED BY <1>1

LEMMA Lead2 ==
  ASSUME NEW texts, NEW s1, NEW s2, NEW A, NEW B, NEW C,
         Lead(texts, <<s1>>, A, B), Lead(texts, <<s2>>, B, C)
  PROVE  Lead(texts, <<s1, s2>>, A, C)
<1>1. s1 \in Micro(texts) /\ s2 \in Micro(texts)
  BY LeadElement
<1>2. <<s1>> \o <<s2>> = <<s1, s2>>
  BY <1>1, Tuple2, Zenon
<1>3. Lead(texts, <<s1>> \o <<s2>>, A, C)
  BY LeadThen
<1> QED BY <1>2, <1>3

LEMMA Lead3 ==
  ASSUME NEW texts, NEW s1, NEW s2, NEW s3, NEW A, NEW B, NEW C, NEW D,
         Lead(texts, <<s1>>, A, B), Lead(texts, <<s2>>, B, C), Lead(texts, <<s3>>, C, D)
  PROVE  Lead(texts, <<s1, s2, s3>>, A, D)
<1>1. s1 \in Micro(texts) /\ s2 \in Micro(texts) /\ s3 \in Micro(texts)
  BY LeadElement
<1>2. <<s1, s2, s3>> = <<s1>> \o <<s2, s3>>
  BY <1>1
<1>3. Lead(texts, <<s2, s3>>, B, D)
  BY Lead2, Zenon
<1>4. Lead(texts, <<s1>> \o <<s2, s3>>, A, D)
  BY <1>3, LeadThen
<1> QED BY <1>2, <1>4

LEMMA Lead4 ==
  ASSUME NEW texts, NEW s1, NEW s2, NEW s3, NEW s4, NEW A, NEW B, NEW C, NEW D, NEW E,
         Lead(texts, <<s1>>, A, B), Lead(texts, <<s2>>, B, C), Lead(texts, <<s3>>, C, D), Lead(texts, <<s4>>, D, E)
  PROVE  Lead(texts, <<s1, s2, s3, s4>>, A, E)
<1>1. s1 \in Micro(texts) /\ s2 \in Micro(texts) /\ s3 \in Micro(texts) /\ s4 \in Micro(texts)
  BY LeadElement
<1>2. <<s1, s2, s3, s4>> = <<s1>> \o <<s2, s3, s4>>
  BY <1>1
<1>3. Lead(texts, <<s2, s3, s4>>, B, E)
  BY Lead3, Zenon
<1>4. Lead(texts, <<s1>> \o <<s2, s3, s4>>, A, E)
  BY <1>3, LeadThen
<1> QED BY <1>2, <1>4

LEMMA Lead5 ==
  ASSUME NEW texts, NEW s1, NEW s2, NEW s3, NEW s4, NEW s5, NEW A, NEW B, NEW C, NEW D, NEW E, NEW F,
         Lead(texts, <<s1>>, A, B), Lead(texts, <<s2>>, B, C), Lead(texts, <<s3>>, C, D), Lead(texts, <<s4>>, D, E), Lead(texts, <<s5>>, E, F)
  PROVE  Lead(texts, <<s1, s2, s3, s4, s5>>, A, F)
<1>1. s1 \in Micro(texts) /\ s2 \in Micro(texts) /\ s3 \in Micro(texts) /\ s4 \in Micro(texts) /\ s5 \in Micro(texts)
  BY LeadElement
<1>2. <<s1, s2, s3, s4, s5>> = <<s1>> \o <<s2, s3, s4, s5>>
  BY <1>1
<1>3. Lead(texts, <<s2, s3, s4, s5>>, B, F)
  BY Lead4, Zenon
<1>4. Lead(texts, <<s1>> \o <<s2, s3, s4, s5>>, A, F)
  BY <1>3, LeadThen
<1> QED BY <1>2, <1>4

LEMMA Lead6 ==
  ASSUME NEW texts, NEW s1, NEW s2, NEW s3, NEW s4, NEW s5, NEW s6, NEW A, NEW B, NEW C, NEW D, NEW E, NEW F, NEW G,
         Lead(texts, <<s1>>, A, B), Lead(texts, <<s2>>, B, C), Lead(texts, <<s3>>, C, D), Lead(texts, <<s4>>, D, E), Lead(texts, <<s5>>, E, F), Lead(texts, <<s6>>, F, G)
  PROVE  Lead(texts, <<s1, s2, s3, s4, s5, s6>>, A, G)
<1>1. s1 \in Micro(texts) /\ s2 \in Micro(texts) /\ s3 \in Micro(texts) /\ s4 \in Micro(texts) /\ s5 \in Micro(texts) /\ s6 \in Micro(texts)
  BY LeadElement
<1>2. <<s1, s2, s3, s4, s5, s6>> = <<s1>> \o <<s2, s3, s4, s5, s6>>
  BY <1>1
<1>3. Lead(texts, <<s2, s3, s4, s5, s6>>, B, G)
  BY Lead5, Zenon
<1>4. Lead(texts, <<s1>> \o <<s2, s3, s4, s5, s6>>, A, G)
  BY <1>3, LeadThen
<1> QED BY <1>2, <1>4
-----------------------------------------------------------------------------
(***************************************************************************)
(* One step at a time.                                                     *)
(***************************************************************************)
\* At least these locals are fresh, young or boxes, and nothing is owed.
Knows(st, fs, ys, bs, rs) ==
  {a \in States : /\ a.strict = st /\ a.owed = {}
                  /\ fs \subseteq a.fresh /\ ys \subseteq a.young /\ bs \subseteq a.box /\ rs \subseteq a.ryoung}

LEMMA Numbers ==
  /\ NFields \in Nat /\ 1 \in Fields /\ 2 \in Fields /\ 0 \in 0 .. NFields /\ 0 .. NFields \subseteq Nat
  /\ NRoots \in Nat /\ T \in Roots /\ T \notin Handles /\ Handles \subseteq Roots /\ Handles \subseteq Nat
  /\ NRegs \in Nat /\ Regs \subseteq Handles /\ \A k \in 1 .. 6 : H(k) \in Handles /\ H(k) \notin Regs
<1>1. NFields \in Nat /\ NFields >= 2 /\ NRoots \in Nat /\ NRegs \in Nat /\ NHandles \in Nat
      /\ NHandles >= 6 /\ NRoots = NRegs + NHandles + 1
  BY HeapAssumption, BuiltinsAssumption
<1> QED BY <1>1 DEF T, Handles, Regs, H

LEMMA BlanksType == ASSUME NEW texts PROVE Blanks \in Payloads(texts)
BY Numbers DEF Blanks, Payloads, Kinds

LEMMA StepType ==
  ASSUME NEW texts, NEW op \in Ops, NEW x \in Operands, NEW y \in Operands, NEW n \in Nat
  PROVE  /\ Step(op, x, y, n) \in Micro(texts)
         /\ Step(op, x, y, n).op = op /\ Step(op, x, y, n).x = x
         /\ Step(op, x, y, n).y = y /\ Step(op, x, y, n).n = n
BY BlanksType DEF Step, Micro

\* The operands of each step.
LEMMA MicroSteps ==
  ASSUME NEW texts, NEW x \in Locals, NEW y \in Locals, NEW n \in Nat
  PROVE  /\ Read(x, n) \in Micro(texts) /\ Read(x, n).op = "read" /\ Read(x, n).x = x /\ Read(x, n).n = n
         /\ Root(n, x) \in Micro(texts) /\ Root(n, x).op = "root" /\ Root(n, x).x = x /\ Root(n, x).n = n
         /\ Drop(n) \in Micro(texts) /\ Drop(n).op = "drop" /\ Drop(n).n = n
         /\ Ret(n, x) \in Micro(texts) /\ Ret(n, x).op = "ret" /\ Ret(n, x).x = x /\ Ret(n, x).n = n
         /\ SetLen(x, n) \in Micro(texts) /\ SetLen(x, n).op = "len" /\ SetLen(x, n).x = x /\ SetLen(x, n).n = n
         /\ SetCap(x, n) \in Micro(texts) /\ SetCap(x, n).op = "cap" /\ SetCap(x, n).x = x
         /\ Load(x, y, n) \in Micro(texts) /\ Load(x, y, n).op = "load" /\ Load(x, y, n).x = x
         /\ Load(x, y, n).y = y /\ Load(x, y, n).n = n
         /\ Store(x, n, y) \in Micro(texts) /\ Store(x, n, y).op = "store" /\ Store(x, n, y).x = x
         /\ Store(x, n, y).y = y /\ Store(x, n, y).n = n
         /\ Barrier(x, y) \in Micro(texts) /\ Barrier(x, y).op = "barrier" /\ Barrier(x, y).x = x
         /\ Barrier(x, y).y = y
<1>1. Ops \subseteq Ops /\ x \in Operands /\ y \in Operands /\ None \in Operands /\ 0 \in Nat
  BY DEF Operands
<1>2. \A op \in Ops : \A u, v \in Operands : \A m \in Nat :
        /\ Step(op, u, v, m) \in Micro(texts)
        /\ Step(op, u, v, m).op = op /\ Step(op, u, v, m).x = u
        /\ Step(op, u, v, m).y = v /\ Step(op, u, v, m).n = m
  BY StepType
<1>3. "read" \in Ops /\ "root" \in Ops /\ "drop" \in Ops /\ "ret" \in Ops /\ "len" \in Ops /\ "cap" \in Ops
      /\ "load" \in Ops /\ "store" \in Ops /\ "barrier" \in Ops
  BY DEF Ops
<1> QED BY <1>1, <1>2, <1>3 DEF Read, Root, Drop, Ret, SetLen, SetCap, Load, Store, Barrier

LEMMA NewType ==
  ASSUME NEW texts, NEW x \in Locals, NEW kind \in Kinds, NEW len \in 0 .. NFields, NEW text \in texts \cup {None}
  PROVE  New(x, kind, len, text) \in Micro(texts) /\ New(x, kind, len, text).op = "new"
         /\ New(x, kind, len, text).x = x
<1> DEFINE p == [kind |-> kind, len |-> len, cap |-> len, text |-> text]
           w == Step("new", x, None, 0)
<1>1. p \in Payloads(texts)
  BY Numbers DEF Payloads
<1>2. w \in Micro(texts) /\ w.op = "new" /\ w.x = x
  <2>1. "new" \in Ops /\ None \in Operands /\ x \in Operands /\ 0 \in Nat
    BY DEF Ops, Operands
  <2> QED BY <2>1, BlanksType DEF Step, Micro
<1>3. New(x, kind, len, text) = [w EXCEPT !.p = p]
  BY DEF New
<1> HIDE DEF p, w
<1> QED BY <1>1, <1>2, <1>3 DEF Micro
\* The steps that one lemma covers: x, of what the others know.
LEMMA KnowsType ==
  ASSUME NEW st, NEW fs, NEW ys, NEW bs, NEW rs, NEW a \in Knows(st, fs, ys, bs, rs)
  PROVE  /\ a \in States /\ a.strict = st /\ a.owed = {} /\ fs \subseteq a.fresh /\ ys \subseteq a.young
         /\ bs \subseteq a.box /\ rs \subseteq a.ryoung
BY DEF Knows

LEMMA KnowsLess ==
  ASSUME NEW st, NEW fs, NEW ys, NEW bs, NEW rs, NEW fs2, NEW ys2, NEW bs2, NEW rs2,
         fs2 \subseteq fs, ys2 \subseteq ys, bs2 \subseteq bs, rs2 \subseteq rs
  PROVE  Knows(st, fs, ys, bs, rs) \subseteq Knows(st, fs2, ys2, bs2, rs2)
BY DEF Knows

LEMMA LeadRead ==
  ASSUME NEW texts, NEW st, NEW fs, NEW ys, NEW bs, NEW rs, NEW fs2, NEW ys2, NEW bs2, NEW rs2,
         NEW x \in Locals, NEW r \in Handles,
         fs2 \subseteq fs \cup {x}, ys2 \subseteq (ys \ {x}) \cup (IF r \in rs THEN {x} ELSE {}),
         bs2 \subseteq bs \ {x}, rs2 \subseteq rs
  PROVE  Lead(texts, <<Read(x, r)>>, Knows(st, fs, ys, bs, rs), Knows(st, fs2, ys2, bs2, rs2))
<1> DEFINE s == Read(x, r)
<1>1. s \in Micro(texts) /\ s.op = "read" /\ s.x = x /\ s.n = r
  BY Numbers, MicroSteps
<1> HIDE DEF s
<1>2. ASSUME NEW a \in Knows(st, fs, ys, bs, rs)
      PROVE  Allowed(a, s) /\ After(a, s) \in Knows(st, fs2, ys2, bs2, rs2)
  <2>1. /\ a \in States /\ a.strict = st /\ a.owed = {} /\ fs \subseteq a.fresh /\ ys \subseteq a.young
        /\ bs \subseteq a.box /\ rs \subseteq a.ryoung
    BY KnowsType
  <2>2. Allowed(a, s)
    BY <1>1, <2>1 DEF Allowed, Unowed
  <2> DEFINE young == IF r \in a.ryoung THEN {x} ELSE {}
             last == Without(a.last, x)
             b == After(a, s)
  <2>3. young \in SUBSET Locals /\ last \in SUBSET (Locals \X Locals)
    BY <2>1 DEF Without, States
  <2>4. b = Assign(a, x, young, last)
    BY <1>1 DEF After
  <2>5. r \in rs => x \in young
    BY <2>1
  <2> HIDE DEF young, last, b
  <2>6. /\ b \in States /\ b.strict = st /\ b.owed = {} /\ b.fresh = a.fresh \cup {x}
        /\ b.young = (a.young \ {x}) \cup young /\ b.box = a.box \ {x} /\ b.ryoung = a.ryoung
    <3>1. b = [a EXCEPT !.fresh = a.fresh \cup {x}, !.young = (a.young \ {x}) \cup young, !.lone = a.lone \ {x},
                        !.box = a.box \ {x}, !.last = last]
      BY <2>4 DEF Assign
    <3>2. a \in States
      BY <2>1
    <3> QED BY <2>1, <2>3, <3>1, <3>2 DEF States
  <2>7. fs2 \subseteq b.fresh /\ ys2 \subseteq b.young /\ bs2 \subseteq b.box /\ rs2 \subseteq b.ryoung
    BY <2>1, <2>5, <2>6
  <2>8. b \in Knows(st, fs2, ys2, bs2, rs2)
    BY <2>6, <2>7 DEF Knows
  <2> QED BY <2>2, <2>8 DEF b
<1> QED BY <1>1, <1>2, LeadOne DEF s

LEMMA LeadLoad ==
  ASSUME NEW texts, NEW st, NEW fs, NEW ys, NEW bs, NEW rs, NEW fs2, NEW ys2, NEW bs2, NEW rs2,
         NEW x \in Locals, NEW y \in Locals, y \in fs, NEW f \in Fields,
         fs2 \subseteq fs \cup {x}, ys2 \subseteq (ys \ {x}) \cup (IF f = 1 /\ y \in bs THEN {x} ELSE {}),
         bs2 \subseteq bs \ {x}, rs2 \subseteq rs
  PROVE  Lead(texts, <<Load(x, y, f)>>, Knows(st, fs, ys, bs, rs), Knows(st, fs2, ys2, bs2, rs2))
<1> DEFINE s == Load(x, y, f)
<1>1. s \in Micro(texts) /\ s.op = "load" /\ s.x = x /\ s.y = y /\ s.n = f
  <2>1. f \in Nat
    BY Numbers
  <2> QED BY <2>1, MicroSteps
<1> HIDE DEF s
<1>2. ASSUME NEW a \in Knows(st, fs, ys, bs, rs)
      PROVE  Allowed(a, s) /\ After(a, s) \in Knows(st, fs2, ys2, bs2, rs2)
  <2>1. /\ a \in States /\ a.strict = st /\ a.owed = {} /\ fs \subseteq a.fresh /\ ys \subseteq a.young
        /\ bs \subseteq a.box /\ rs \subseteq a.ryoung
    BY KnowsType
  <2>2. Allowed(a, s)
    BY <1>1, <2>1 DEF Allowed, Unowed
  <2> DEFINE young == IF y \in a.box /\ f = 1 THEN {x} ELSE {}
             last == IF x # y /\ a.owed = {} THEN {<<y, x>>} ELSE {}
             b == After(a, s)
  <2>3. young \in SUBSET Locals /\ last \in SUBSET (Locals \X Locals)
    OBVIOUS
  <2>4. b = Assign(a, x, young, last)
    BY <1>1 DEF After
  <2>5. f = 1 /\ y \in bs => x \in young
    BY <2>1
  <2> HIDE DEF young, last, b
  <2>6. /\ b \in States /\ b.strict = st /\ b.owed = {} /\ b.fresh = a.fresh \cup {x}
        /\ b.young = (a.young \ {x}) \cup young /\ b.box = a.box \ {x} /\ b.ryoung = a.ryoung
    <3>1. b = [a EXCEPT !.fresh = a.fresh \cup {x}, !.young = (a.young \ {x}) \cup young, !.lone = a.lone \ {x},
                        !.box = a.box \ {x}, !.last = last]
      BY <2>4 DEF Assign
    <3>2. a \in States
      BY <2>1
    <3> QED BY <2>1, <2>3, <3>1, <3>2 DEF States
  <2>7. fs2 \subseteq b.fresh /\ ys2 \subseteq b.young /\ bs2 \subseteq b.box /\ rs2 \subseteq b.ryoung
    BY <2>1, <2>5, <2>6
  <2>8. b \in Knows(st, fs2, ys2, bs2, rs2)
    BY <2>6, <2>7 DEF Knows
  <2> QED BY <2>2, <2>8 DEF b
<1> QED BY <1>1, <1>2, LeadOne DEF s

\* Steps that assign no local: whatever of ryoung they keep, and the box a store makes.
LEMMA LeadStore ==
  ASSUME NEW texts, NEW st, NEW fs, NEW ys, NEW bs, NEW rs, NEW fs2, NEW ys2, NEW bs2, NEW rs2,
         NEW x \in Locals, NEW y \in Locals, x \in fs, y \in fs, NEW f \in Fields, st = FALSE \/ x \in ys,
         fs2 \subseteq fs, ys2 \subseteq ys, rs2 \subseteq rs,
         bs2 \subseteq IF f = 1 /\ x \in ys /\ y \in ys THEN {x} ELSE {}
  PROVE  Lead(texts, <<Store(x, f, y)>>, Knows(st, fs, ys, bs, rs), Knows(st, fs2, ys2, bs2, rs2))
<1> DEFINE s == Store(x, f, y)
<1>1. s \in Micro(texts) /\ s.op = "store" /\ s.x = x /\ s.y = y /\ s.n = f
  <2>1. f \in Nat
    BY Numbers
  <2> QED BY <2>1, MicroSteps
<1> HIDE DEF s
<1>2. ASSUME NEW a \in Knows(st, fs, ys, bs, rs)
      PROVE  Allowed(a, s) /\ After(a, s) \in Knows(st, fs2, ys2, bs2, rs2)
  <2>1. /\ a \in States /\ a.strict = st /\ a.owed = {} /\ fs \subseteq a.fresh /\ ys \subseteq a.young
        /\ bs \subseteq a.box /\ rs \subseteq a.ryoung
    BY KnowsType
  <2>2. Allowed(a, s)
    BY <1>1, <2>1 DEF Allowed
  <2> DEFINE box == IF f = 1 /\ x \in a.young /\ y \in a.young THEN {x} ELSE {}
             b == After(a, s)
  <2>3. box \in SUBSET Locals /\ bs2 \subseteq box
    BY <2>1
  <2>4. b = [a EXCEPT !.lone = {}, !.rlone = {}, !.box = box, !.owed = {}]
    BY <1>1, <2>1 DEF After
  <2> HIDE DEF box, b
  <2>5. /\ b \in States /\ b.strict = st /\ b.owed = {} /\ b.fresh = a.fresh
        /\ b.young = a.young /\ b.box = box /\ b.ryoung = a.ryoung
    BY <2>1, <2>3, <2>4 DEF States
  <2>6. b \in Knows(st, fs2, ys2, bs2, rs2)
    BY <2>1, <2>3, <2>5 DEF Knows
  <2> QED BY <2>2, <2>6 DEF b
<1> QED BY <1>1, <1>2, LeadOne DEF s

LEMMA LeadRoot ==
  ASSUME NEW texts, NEW st, NEW fs, NEW ys, NEW bs, NEW rs, NEW fs2, NEW ys2, NEW bs2, NEW rs2,
         NEW x \in Locals, x \in fs, NEW r \in Handles,
         fs2 \subseteq fs, ys2 \subseteq ys, bs2 \subseteq bs,
         rs2 \subseteq (rs \ {r}) \cup (IF x \in ys THEN {r} ELSE {})
  PROVE  Lead(texts, <<Root(r, x)>>, Knows(st, fs, ys, bs, rs), Knows(st, fs2, ys2, bs2, rs2))
<1> DEFINE s == Root(r, x)
<1>1. s \in Micro(texts) /\ s.op = "root" /\ s.x = x /\ s.n = r
  BY Numbers, MicroSteps
<1> HIDE DEF s
<1>2. ASSUME NEW a \in Knows(st, fs, ys, bs, rs)
      PROVE  Allowed(a, s) /\ After(a, s) \in Knows(st, fs2, ys2, bs2, rs2)
  <2>1. /\ a \in States /\ a.strict = st /\ a.owed = {} /\ fs \subseteq a.fresh /\ ys \subseteq a.young
        /\ bs \subseteq a.box /\ rs \subseteq a.ryoung
    BY KnowsType
  <2>2. Allowed(a, s)
    BY <1>1, <2>1 DEF Allowed
  <2> DEFINE lone == IF x \in a.lone THEN a.rlone \cup {r} ELSE a.rlone \ {r}
             young == IF x \in a.young THEN a.ryoung \cup {r} ELSE a.ryoung \ {r}
             b == After(a, s)
  <2>3. lone \in SUBSET Handles /\ young \in SUBSET Handles /\ rs2 \subseteq young
    BY <2>1, Numbers DEF States
  <2>4. b = [a EXCEPT !.rlone = lone, !.ryoung = young]
    BY <1>1, <2>1 DEF After
  <2> HIDE DEF lone, young, b
  <2>5. /\ b \in States /\ b.strict = st /\ b.owed = {} /\ b.fresh = a.fresh
        /\ b.young = a.young /\ b.box = a.box /\ b.ryoung = young
    BY <2>1, <2>3, <2>4 DEF States
  <2>6. b \in Knows(st, fs2, ys2, bs2, rs2)
    BY <2>1, <2>3, <2>5 DEF Knows
  <2> QED BY <2>2, <2>6 DEF b
<1> QED BY <1>1, <1>2, LeadOne DEF s

\* The rest: of the young handles nothing need be known afterwards.
LEMMA LeadRest ==
  ASSUME NEW texts, NEW st, NEW fs, NEW ys, NEW bs, NEW rs, NEW fs2, NEW ys2, NEW bs2, NEW s \in Micro(texts),
         \/ s.op = "drop"
         \/ s.x \in fs /\ s.op = "ret" /\ s.n \in 0 .. NRegs
         \/ s.x \in fs /\ s.op = "len" /\ s.n \in 0 .. NFields
         \/ s.x \in fs /\ s.op = "cap",
         fs2 \subseteq fs, ys2 \subseteq ys, bs2 \subseteq bs
  PROVE  Lead(texts, <<s>>, Knows(st, fs, ys, bs, rs), Knows(st, fs2, ys2, bs2, {}))
<1>1. ASSUME NEW a \in Knows(st, fs, ys, bs, rs)
      PROVE  Allowed(a, s) /\ After(a, s) \in Knows(st, fs2, ys2, bs2, {})
  <2>1. /\ a \in States /\ a.strict = st /\ a.owed = {} /\ fs \subseteq a.fresh /\ ys \subseteq a.young
        /\ bs \subseteq a.box /\ rs \subseteq a.ryoung
    BY KnowsType
  <2>2. Allowed(a, s)
    BY <2>1 DEF Allowed
  <2> DEFINE b == After(a, s)
  <2>3. \E lone, young \in SUBSET Handles : b = [a EXCEPT !.rlone = lone, !.ryoung = young]
    <3>1. CASE s.op = "drop"
      <4> DEFINE lone == {r \in a.rlone : r < s.n}
                 young == {r \in a.ryoung : r < s.n}
      <4>1. lone \in SUBSET Handles /\ young \in SUBSET Handles
        BY <2>1 DEF States
      <4>2. b = [a EXCEPT !.rlone = lone, !.ryoung = young]
        BY <3>1 DEF After
      <4> QED BY <4>1, <4>2
    <3>2. CASE s.op = "ret"
      <4> DEFINE lone == a.rlone \ {s.n}
                 young == a.ryoung \ {s.n}
      <4>1. lone \in SUBSET Handles /\ young \in SUBSET Handles
        BY <2>1 DEF States
      <4>2. b = [a EXCEPT !.rlone = lone, !.ryoung = young]
        BY <3>2 DEF After
      <4> QED BY <4>1, <4>2
    <3>3. CASE s.op \in {"len", "cap"}
      <4>1. b = a
        BY <3>3 DEF After
      <4>2. a = [a EXCEPT !.rlone = a.rlone, !.ryoung = a.ryoung] /\ a.rlone \in SUBSET Handles /\ a.ryoung \in SUBSET Handles
        BY <2>1 DEF States
      <4> QED BY <4>1, <4>2
    <3> QED BY <3>1, <3>2, <3>3
  <2> HIDE DEF b
  <2>4. /\ b \in States /\ b.strict = st /\ b.owed = {} /\ b.fresh = a.fresh
        /\ b.young = a.young /\ b.box = a.box
    BY <2>1, <2>3 DEF States
  <2>5. b \in Knows(st, fs2, ys2, bs2, {})
    BY <2>1, <2>4 DEF Knows, States
  <2> QED BY <2>2, <2>5 DEF b
<1> QED BY <1>1, LeadOne

LEMMA LeadRests ==
  ASSUME NEW texts, NEW st, NEW fs, NEW ys, NEW bs, NEW rs, NEW fs2, NEW ys2, NEW bs2, NEW x \in Locals, NEW n \in Nat,
         fs2 \subseteq fs, ys2 \subseteq ys, bs2 \subseteq bs
  PROVE  /\ Lead(texts, <<Drop(n)>>, Knows(st, fs, ys, bs, rs), Knows(st, fs2, ys2, bs2, {}))
         /\ x \in fs /\ n \in 0 .. NRegs =>
              Lead(texts, <<Ret(n, x)>>, Knows(st, fs, ys, bs, rs), Knows(st, fs2, ys2, bs2, {}))
         /\ x \in fs /\ n \in 0 .. NFields =>
              Lead(texts, <<SetLen(x, n)>>, Knows(st, fs, ys, bs, rs), Knows(st, fs2, ys2, bs2, {}))
         /\ x \in fs =>
              Lead(texts, <<SetCap(x, n)>>, Knows(st, fs, ys, bs, rs), Knows(st, fs2, ys2, bs2, {}))
<1>1. Drop(n) \in Micro(texts) /\ Drop(n).op = "drop"
  BY MicroSteps
<1>2. Ret(n, x) \in Micro(texts) /\ Ret(n, x).op = "ret" /\ Ret(n, x).x = x /\ Ret(n, x).n = n
  BY MicroSteps
<1>3. SetLen(x, n) \in Micro(texts) /\ SetLen(x, n).op = "len" /\ SetLen(x, n).x = x /\ SetLen(x, n).n = n
  BY MicroSteps
<1>4. SetCap(x, n) \in Micro(texts) /\ SetCap(x, n).op = "cap" /\ SetCap(x, n).x = x
  BY MicroSteps
<1> QED BY <1>1, <1>2, <1>3, <1>4, LeadRest

\* An allocation when the last thing rooted, if any, was itself just allocated.
Held(st, r) == {a \in States : a.strict = st /\ a.owed = {} /\ r \in a.rlone}

LEMMA LeadNew ==
  ASSUME NEW texts, NEW st, NEW fs, NEW ys, NEW bs, NEW rs, NEW r, NEW fs2, NEW ys2,
         NEW x \in Locals, NEW kind \in Kinds, NEW len \in 0 .. NFields, NEW text \in texts \cup {None},
         fs2 \subseteq {x}, ys2 \subseteq {x}
  PROVE  /\ Lead(texts, <<New(x, kind, len, text)>>, Knows(st, fs, ys, bs, rs), Knows(st, fs2, ys2, {}, {}))
         /\ Lead(texts, <<New(x, kind, len, text)>>, Held(st, r), Knows(st, fs2, ys2, {}, {r}))
<1> DEFINE s == New(x, kind, len, text)
<1>1. s \in Micro(texts) /\ s.op = "new" /\ s.x = x
  BY NewType
<1> HIDE DEF s
<1>2. ASSUME NEW a \in States, a.strict = st, a.owed = {}
      PROVE  Allowed(a, s) /\ After(a, s) \in Knows(st, fs2, ys2, {}, a.rlone)
  <2>1. Allowed(a, s)
    BY <1>1, <1>2 DEF Allowed
  <2> DEFINE b == After(a, s)
  <2>2. b = [a EXCEPT !.fresh = {x}, !.young = {x}, !.lone = {x}, !.box = {}, !.rlone = {},
                      !.ryoung = a.rlone, !.last = {}, !.owed = {}]
    BY <1>1 DEF After
  <2> HIDE DEF b
  <2>3. /\ b \in States /\ b.strict = st /\ b.owed = {} /\ b.fresh = {x} /\ b.young = {x}
        /\ b.ryoung = a.rlone
    BY <1>2, <2>2 DEF States
  <2>4. b \in Knows(st, fs2, ys2, {}, a.rlone)
    BY <2>3 DEF Knows
  <2> QED BY <2>1, <2>4 DEF b
<1>3. \A a \in Knows(st, fs, ys, bs, rs) : Allowed(a, s) /\ After(a, s) \in Knows(st, fs2, ys2, {}, {})
  BY <1>2 DEF Knows
<1>4. \A a \in Held(st, r) : Allowed(a, s) /\ After(a, s) \in Knows(st, fs2, ys2, {}, {r})
  BY <1>2 DEF Knows, Held
<1> QED BY <1>1, <1>3, <1>4, LeadOne DEF s

\* A new object, rooted at once.
LEMMA LeadNewRooted ==
  ASSUME NEW texts, NEW st, NEW fs, NEW ys, NEW bs, NEW rs, NEW r \in Handles,
         NEW x \in Locals, NEW kind \in Kinds, NEW len \in 0 .. NFields, NEW text \in texts \cup {None}
  PROVE  Lead(texts, <<New(x, kind, len, text), Root(r, x)>>, Knows(st, fs, ys, bs, rs), Held(st, r))
<1> DEFINE s == New(x, kind, len, text)
           w == Root(r, x)
           B == {a \in States : a.strict = st /\ a.owed = {} /\ x \in a.fresh /\ x \in a.lone}
<1>1. s \in Micro(texts) /\ s.op = "new" /\ s.x = x
  BY NewType
<1>2. w \in Micro(texts) /\ w.op = "root" /\ w.x = x /\ w.n = r
  BY Numbers, MicroSteps
<1> HIDE DEF s, w
<1>3. ASSUME NEW a \in Knows(st, fs, ys, bs, rs) PROVE Allowed(a, s) /\ After(a, s) \in B
  <2>1. a \in States /\ a.strict = st /\ a.owed = {}
    BY KnowsType
  <2>2. Allowed(a, s)
    BY <1>1, <2>1 DEF Allowed
  <2> DEFINE b == After(a, s)
  <2>3. b = [a EXCEPT !.fresh = {x}, !.young = {x}, !.lone = {x}, !.box = {}, !.rlone = {},
                      !.ryoung = a.rlone, !.last = {}, !.owed = {}]
    BY <1>1 DEF After
  <2> HIDE DEF b
  <2>4. b \in B
    BY <2>1, <2>3 DEF States
  <2> QED BY <2>2, <2>4 DEF b
<1>4. ASSUME NEW a \in B PROVE Allowed(a, w) /\ After(a, w) \in Held(st, r)
  <2>1. Allowed(a, w)
    BY <1>2, <1>4 DEF Allowed
  <2> DEFINE young == IF x \in a.young THEN a.ryoung \cup {r} ELSE a.ryoung \ {r}
             b == After(a, w)
  <2>2. young \in SUBSET Handles /\ a.rlone \cup {r} \in SUBSET Handles
    BY <1>4, Numbers DEF States
  <2>3. b = [a EXCEPT !.rlone = a.rlone \cup {r}, !.ryoung = young]
    BY <1>2, <1>4 DEF After
  <2> HIDE DEF b, young
  <2>4. b \in Held(st, r)
    BY <1>4, <2>2, <2>3 DEF States, Held
  <2> QED BY <2>1, <2>4 DEF b
<1> HIDE DEF B
<1>5. Lead(texts, <<s>>, Knows(st, fs, ys, bs, rs), B) /\ Lead(texts, <<w>>, B, Held(st, r))
  BY <1>1, <1>2, <1>3, <1>4, LeadOne
<1>6. <<s>> \o <<w>> = <<s, w>>
  BY <1>1, <1>2, Tuple2, Zenon
<1>7. Lead(texts, <<s>> \o <<w>>, Knows(st, fs, ys, bs, rs), Held(st, r))
  BY <1>5, LeadThen
<1> QED BY <1>6, <1>7 DEF s, w

\* Stores a write barrier is still owed to.
Owing(st, fs, os) ==
  {a \in States : a.strict = st /\ fs \subseteq a.fresh /\ a.owed \subseteq os}

LEMMA OwingNone ==
  ASSUME NEW st, NEW fs, NEW ys, NEW bs, NEW rs, NEW fs2, fs2 \subseteq fs
  PROVE  Knows(st, fs, ys, bs, rs) \subseteq Owing(st, fs, {}) /\ Owing(st, fs, {}) \subseteq Knows(st, fs2, {}, {}, {})
BY DEF Knows, Owing

LEMMA LeadOwing ==
  ASSUME NEW texts, NEW st, NEW fs, NEW os, NEW os2, NEW f \in Fields,
         NEW x \in Locals, NEW y \in Locals, x \in fs, y \in fs
  PROVE  /\ os \cup {<<x, y>>} \subseteq os2 => Lead(texts, <<Store(x, f, y)>>, Owing(st, fs, os), Owing(st, fs, os2))
         /\ os \ {<<x, y>>} \subseteq os2 => Lead(texts, <<Barrier(x, y)>>, Owing(st, fs, os), Owing(st, fs, os2))
<1> DEFINE s == Store(x, f, y)
           w == Barrier(x, y)
<1>1. s \in Micro(texts) /\ s.op = "store" /\ s.x = x /\ s.y = y /\ s.n = f
      /\ w \in Micro(texts) /\ w.op = "barrier" /\ w.x = x /\ w.y = y
  <2>1. f \in Nat
    BY Numbers
  <2> QED BY <2>1, MicroSteps
<1> HIDE DEF s, w
<1>2. ASSUME os \cup {<<x, y>>} \subseteq os2, NEW a \in Owing(st, fs, os)
      PROVE  Allowed(a, s) /\ After(a, s) \in Owing(st, fs, os2)
  <2>1. a \in States /\ a.strict = st /\ fs \subseteq a.fresh /\ a.owed \subseteq os
    BY <1>2 DEF Owing
  <2>2. Allowed(a, s)
    BY <1>1, <2>1 DEF Allowed
  <2> DEFINE box == IF f = 1 /\ x \in a.young /\ y \in a.young THEN {x} ELSE {}
             owed == IF ~a.strict \/ x \in a.young \/ <<x, y>> \in a.last THEN a.owed ELSE a.owed \cup {<<x, y>>}
             b == After(a, s)
  <2>3. box \in SUBSET Locals /\ owed \in SUBSET (Locals \X Locals) /\ owed \subseteq os2
    BY <1>2, <2>1 DEF States
  <2>4. b = [a EXCEPT !.lone = {}, !.rlone = {}, !.box = box, !.owed = owed]
    BY <1>1, <2>1 DEF After
  <2> HIDE DEF box, b, owed
  <2>5. b \in Owing(st, fs, os2)
    BY <2>1, <2>3, <2>4 DEF States, Owing
  <2> QED BY <2>2, <2>5 DEF b
<1>3. ASSUME os \ {<<x, y>>} \subseteq os2, NEW a \in Owing(st, fs, os)
      PROVE  Allowed(a, w) /\ After(a, w) \in Owing(st, fs, os2)
  <2>1. a \in States /\ a.strict = st /\ fs \subseteq a.fresh /\ a.owed \subseteq os
    BY <1>3 DEF Owing
  <2>2. Allowed(a, w)
    BY <1>1, <2>1 DEF Allowed
  <2> DEFINE owed == a.owed \ {<<x, y>>}
             b == After(a, w)
  <2>3. owed \in SUBSET (Locals \X Locals) /\ owed \subseteq os2
    BY <1>3, <2>1 DEF States
  <2>4. b = [a EXCEPT !.owed = owed]
    BY <1>1, <2>1 DEF After
  <2> HIDE DEF b, owed
  <2>5. b \in Owing(st, fs, os2)
    BY <2>1, <2>3, <2>4 DEF States, Owing
  <2> QED BY <2>2, <2>5 DEF b
<1> QED BY <1>1, <1>2, <1>3, LeadOne DEF s, w

\* What was loaded from a container may be stored back into it.
LEMMA LeadShift ==
  ASSUME NEW texts, NEW st, NEW fs, NEW ys, NEW bs, NEW rs, NEW fs2, NEW x \in Locals, NEW y \in Locals,
         x # y, y \in fs, NEW i \in Fields, NEW j \in Fields, fs2 \subseteq fs \cup {x}
  PROVE  Lead(texts, <<Load(x, y, i), Store(y, j, x)>>, Knows(st, fs, ys, bs, rs), Knows(st, fs2, {}, {}, {}))
<1> DEFINE s == Load(x, y, i)
           w == Store(y, j, x)
           B == {a \in States : a.strict = st /\ a.owed = {} /\ fs \cup {x} \subseteq a.fresh /\ <<y, x>> \in a.last}
<1>1. s \in Micro(texts) /\ s.op = "load" /\ s.x = x /\ s.y = y /\ s.n = i
      /\ w \in Micro(texts) /\ w.op = "store" /\ w.x = y /\ w.y = x /\ w.n = j
  <2>1. i \in Nat /\ j \in Nat
    BY Numbers
  <2> QED BY <2>1, MicroSteps
<1> HIDE DEF s, w
<1>2. ASSUME NEW a \in Knows(st, fs, ys, bs, rs) PROVE Allowed(a, s) /\ After(a, s) \in B
  <2>1. a \in States /\ a.strict = st /\ a.owed = {} /\ fs \subseteq a.fresh
    BY KnowsType
  <2>2. Allowed(a, s)
    BY <1>1, <2>1 DEF Allowed, Unowed
  <2> DEFINE young == (a.young \ {x}) \cup (IF y \in a.box /\ i = 1 THEN {x} ELSE {})
             b == After(a, s)
  <2>3. young \in SUBSET Locals
    BY <2>1 DEF States
  <2>4. b = [a EXCEPT !.fresh = a.fresh \cup {x}, !.young = young, !.lone = a.lone \ {x}, !.box = a.box \ {x},
                      !.last = {<<y, x>>}]
    BY <1>1, <2>1 DEF After, Assign
  <2> HIDE DEF young, b
  <2>5. b \in States
    <3>1. {<<y, x>>} \in SUBSET (Locals \X Locals) /\ a.fresh \cup {x} \in SUBSET Locals
          /\ a.lone \ {x} \in SUBSET Locals /\ a.box \ {x} \in SUBSET Locals
      BY <2>1 DEF States
    <3> QED BY <2>1, <2>3, <2>4, <3>1 DEF States
  <2>6. b.strict = st /\ b.owed = {} /\ fs \cup {x} \subseteq b.fresh /\ <<y, x>> \in b.last
    BY <2>1, <2>4 DEF States
  <2> QED BY <2>2, <2>5, <2>6 DEF b
<1>3. ASSUME NEW a \in B PROVE Allowed(a, w) /\ After(a, w) \in Knows(st, fs2, {}, {}, {})
  <2>1. Allowed(a, w)
    BY <1>1, <1>3 DEF Allowed
  <2> DEFINE box == IF j = 1 /\ y \in a.young /\ x \in a.young THEN {y} ELSE {}
             b == After(a, w)
  <2>2. box \in SUBSET Locals
    OBVIOUS
  <2>3. b = [a EXCEPT !.lone = {}, !.rlone = {}, !.box = box, !.owed = {}]
    BY <1>1, <1>3 DEF After
  <2> HIDE DEF b, box
  <2>4. b \in States /\ b.strict = st /\ b.owed = {} /\ fs2 \subseteq b.fresh
    BY <1>3, <2>2, <2>3 DEF States
  <2>5. b \in Knows(st, fs2, {}, {}, {})
    BY <2>4 DEF Knows
  <2> QED BY <2>1, <2>5 DEF b
<1> HIDE DEF B
<1>4. Lead(texts, <<s>>, Knows(st, fs, ys, bs, rs), B) /\ Lead(texts, <<w>>, B, Knows(st, fs2, {}, {}, {}))
  BY <1>1, <1>2, <1>3, LeadOne
<1>5. <<s>> \o <<w>> = <<s, w>>
  BY <1>1, Tuple2, Zenon
<1>6. Lead(texts, <<s>> \o <<w>>, Knows(st, fs, ys, bs, rs), Knows(st, fs2, {}, {}, {}))
  BY <1>4, LeadThen
<1> QED BY <1>5, <1>6 DEF s, w

-----------------------------------------------------------------------------
(***************************************************************************)
(* The pieces the calls are made of.                                       *)
(***************************************************************************)
\* An object and the one it points to: new_string, new_array, new_closure.
LEMMA LeadTwoNews ==
  ASSUME NEW texts, NEW st, NEW fs, NEW ys, NEW bs, NEW rs, NEW x \in Locals, NEW y \in Locals, x # y,
         NEW r \in Handles, NEW k1 \in Kinds, NEW k2 \in Kinds, NEW len \in 0 .. NFields, NEW text \in texts \cup {None}
  PROVE  Lead(texts, << New(y, k1, 0, None), Root(r, y), New(x, k2, len, text), Read(y, r), Store(x, 1, y), Drop(r) >>,
              Knows(st, fs, ys, bs, rs), Knows(st, {x, y}, {x}, {x}, {}))
<1> DEFINE s1 == New(y, k1, 0, None)
           s2 == Root(r, y)
           s3 == New(x, k2, len, text)
           s4 == Read(y, r)
           s5 == Store(x, 1, y)
           s6 == Drop(r)
<1>1. Lead(texts, <<s1, s2>>, Knows(st, fs, ys, bs, rs), Held(st, r))
  <2>1. 0 \in 0 .. NFields /\ None \in texts \cup {None}
    BY Numbers
  <2> QED BY <2>1, LeadNewRooted
<1>2. Lead(texts, <<s3>>, Held(st, r), Knows(st, {x}, {x}, {}, {r}))
  BY LeadNew
<1>3. Lead(texts, <<s4>>, Knows(st, {x}, {x}, {}, {r}), Knows(st, {x, y}, {x, y}, {}, {}))
  BY LeadRead
<1>4. Lead(texts, <<s5>>, Knows(st, {x, y}, {x, y}, {}, {}), Knows(st, {x, y}, {x}, {x}, {}))
  BY Numbers, LeadStore
<1>5. Lead(texts, <<s6>>, Knows(st, {x, y}, {x}, {x}, {}), Knows(st, {x, y}, {x}, {x}, {}))
  BY Numbers, LeadRests
<1>6. s1 \in Micro(texts) /\ s2 \in Micro(texts)
  <2>1. <<s1, s2>> \in Seq(Micro(texts))
    BY <1>1 DEF Lead
  <2> HIDE DEF s1, s2
  <2> QED BY <2>1
<1> HIDE DEF s1, s2, s3, s4, s5, s6
<1>7. Lead(texts, <<s3, s4, s5, s6>>, Held(st, r), Knows(st, {x, y}, {x}, {x}, {}))
  BY <1>2, <1>3, <1>4, <1>5, Lead4, Zenon
<1>8. <<s1, s2, s3, s4, s5, s6>> = <<s1, s2>> \o <<s3, s4, s5, s6>>
  BY <1>2, <1>3, <1>4, <1>5, <1>6, LeadElement
<1>9. Lead(texts, <<s1, s2, s3, s4, s5, s6>>, Knows(st, fs, ys, bs, rs), Knows(st, {x, y}, {x}, {x}, {}))
  BY <1>1, <1>7, <1>8, LeadThen
<1> QED BY <1>9 DEF s1, s2, s3, s4, s5, s6

LEMMA LocalNames ==
  /\ "m" \in Locals /\ "v" \in Locals /\ "nk" \in Locals /\ "nv" \in Locals /\ "k" \in Locals /\ "s" \in Locals
  /\ "d" \in Locals /\ "e" \in Locals /\ "x" \in Locals /\ "arr" \in Locals /\ "ns" \in Locals /\ "b" \in Locals
  /\ "it" \in Locals
BY DEF Locals

LEMMA KindNames ==
  /\ None \in Kinds /\ "Bytes" \in Kinds /\ "String" \in Kinds /\ "Slots" \in Kinds /\ "Array" \in Kinds
  /\ "Closure" \in Kinds /\ "Map" \in Kinds /\ "Iter" \in Kinds
BY DEF Kinds

\* A store and its barrier.
LEMMA LeadStoreBarrier ==
  ASSUME NEW texts, NEW st, NEW fs, NEW ys, NEW bs, NEW rs, NEW fs2, NEW f \in Fields,
         NEW x \in Locals, NEW y \in Locals, x \in fs, y \in fs, fs2 \subseteq fs
  PROVE  Lead(texts, <<Store(x, f, y), Barrier(x, y)>>, Knows(st, fs, ys, bs, rs), Knows(st, fs2, {}, {}, {}))
<1> DEFINE w == Store(x, f, y)
           z == Barrier(x, y)
           A == Owing(st, fs, {})
           B == Owing(st, fs, {<<x, y>>})
<1>1. Lead(texts, <<w>>, A, B) /\ Lead(texts, <<z>>, B, A)
  BY LeadOwing
<1>2. Knows(st, fs, ys, bs, rs) \subseteq A /\ A \subseteq Knows(st, fs2, {}, {}, {})
  BY OwingNone
<1> HIDE DEF w, z, A, B
<1>3. Lead(texts, <<w, z>>, A, A)
  BY <1>1, Lead2
<1>4. Lead(texts, <<w, z>>, Knows(st, fs, ys, bs, rs), Knows(st, fs2, {}, {}, {}))
  BY <1>2, <1>3, LeadWeaker
<1> QED BY <1>4 DEF w, z

\* A barrier without a store is harmless.
LEMMA LeadBarrier ==
  ASSUME NEW texts, NEW st, NEW fs, NEW ys, NEW bs, NEW rs, NEW fs2,
         NEW x \in Locals, NEW y \in Locals, x \in fs, y \in fs, fs2 \subseteq fs
  PROVE  Lead(texts, <<Barrier(x, y)>>, Knows(st, fs, ys, bs, rs), Knows(st, fs2, {}, {}, {}))
<1> DEFINE z == Barrier(x, y)
           A == Owing(st, fs, {})
<1>1. Lead(texts, <<z>>, A, A)
  BY Numbers, LeadOwing
<1>2. Knows(st, fs, ys, bs, rs) \subseteq A /\ A \subseteq Knows(st, fs2, {}, {}, {})
  BY OwingNone
<1> HIDE DEF z, A
<1>3. Lead(texts, <<z>>, Knows(st, fs, ys, bs, rs), Knows(st, fs2, {}, {}, {}))
  BY <1>1, <1>2, LeadWeaker
<1> QED BY <1>3 DEF z

LEMMA LeadCopied ==
  ASSUME NEW texts, NEW st, NEW fs, NEW ys, NEW d \in Locals, NEW s \in Locals, d \in fs, s \in fs, d \in ys,
         "e" \notin ys, d # "e", s # "e", NEW n \in 0 .. NFields
  PROVE  Lead(texts, Copied(d, s, n), Knows(st, fs, ys, {}, {}), Knows(st, fs, ys, {}, {}))
<1> DEFINE t == [i \in 1 .. n |-> << Load("e", s, i), Store(d, i, "e") >>]
           A == Knows(st, fs, ys, {}, {})
           B == Knows(st, fs \cup {"e"}, ys, {}, {})
<1>1. Copied(d, s, n) = FlattenSeq(t)
  BY DEF Copied, Steps
<1>2. ASSUME NEW i \in 1 .. n PROVE Lead(texts, << Load("e", s, i), Store(d, i, "e") >>, A, A)
  <2>1. i \in Fields
    BY Numbers
  <2>2. Lead(texts, << Load("e", s, i) >>, A, B)
    BY <2>1, LocalNames, LeadLoad
  <2>3. Lead(texts, << Store(d, i, "e") >>, B, A)
    BY <2>1, LocalNames, LeadStore
  <2> DEFINE w == Load("e", s, i)
             z == Store(d, i, "e")
  <2> HIDE DEF w, z, A, B
  <2> QED BY <2>2, <2>3, Lead2 DEF w, z
<1>3. \A i \in 1 .. n : Lead(texts, t[i], A, A)
  BY <1>2
<1>4. t = [i \in 1 .. n |-> t[i]] /\ n \in Nat
  BY Numbers
<1> HIDE DEF t, A
<1>5. Lead(texts, FlattenSeq(t), A, A)
  BY <1>3, <1>4, LeadAll
<1> QED BY <1>1, <1>5 DEF A

LEMMA LeadGrowArray ==
  ASSUME NEW texts, NEW st, NEW fs, NEW ys, NEW bs, NEW rs, NEW r \in Handles, NEW len \in 0 .. NFields, NEW cap \in Nat
  PROVE  Lead(texts, GrowArray(r, len, cap), Knows(st, fs, ys, bs, rs), Knows(st, {"arr", "s", "ns"}, {}, {}, {}))
<1> DEFINE s1 == New("ns", "Slots", 0, None)
           s2 == Read("arr", r)
           s3 == Load("s", "arr", 1)
           s4 == Store("arr", 1, "ns")
           s5 == Barrier("arr", "ns")
           s6 == SetCap("arr", Grown(cap))
           F == {"arr", "s", "ns"}
           C == Copied("ns", "s", len)
<1>1. Lead(texts, <<s1>>, Knows(st, fs, ys, bs, rs), Knows(st, {"ns"}, {"ns"}, {}, {}))
  BY Numbers, LocalNames, KindNames, LeadNew
<1>2. Lead(texts, <<s2>>, Knows(st, {"ns"}, {"ns"}, {}, {}), Knows(st, {"ns", "arr"}, {"ns"}, {}, {}))
  BY LocalNames, LeadRead
<1>3. Lead(texts, <<s3>>, Knows(st, {"ns", "arr"}, {"ns"}, {}, {}), Knows(st, F, {"ns"}, {}, {}))
  BY Numbers, LocalNames, LeadLoad
<1>4. Lead(texts, C, Knows(st, F, {"ns"}, {}, {}), Knows(st, F, {"ns"}, {}, {}))
  BY LocalNames, LeadCopied
<1>5. Lead(texts, <<s4, s5>>, Knows(st, F, {"ns"}, {}, {}), Knows(st, F, {}, {}, {}))
  BY Numbers, LocalNames, LeadStoreBarrier
<1>6. Lead(texts, <<s6>>, Knows(st, F, {}, {}, {}), Knows(st, F, {}, {}, {}))
  <2>1. Grown(cap) \in Nat
    BY BuiltinsAssumption DEF Grown
  <2> QED BY <2>1, LocalNames, LeadRests
<1>7. s4 \in Micro(texts) /\ s5 \in Micro(texts) /\ s6 \in Micro(texts)
  <2>1. <<s4, s5>> \in Seq(Micro(texts)) /\ <<s6>> \in Seq(Micro(texts))
    BY <1>5, <1>6 DEF Lead
  <2> HIDE DEF s4, s5, s6
  <2> QED BY <2>1
<1> HIDE DEF s1, s2, s3, s4, s5, s6, F, C
<1>8. Lead(texts, <<s1, s2, s3>>, Knows(st, fs, ys, bs, rs), Knows(st, F, {"ns"}, {}, {}))
  BY <1>1, <1>2, <1>3, Lead3, Zenon
<1>9. Lead(texts, <<s4, s5, s6>>, Knows(st, F, {"ns"}, {}, {}), Knows(st, F, {}, {}, {}))
  <2>1. <<s4, s5>> \o <<s6>> = <<s4, s5, s6>>
    BY <1>7, Tuple3, Zenon
  <2>2. Lead(texts, <<s4, s5>> \o <<s6>>, Knows(st, F, {"ns"}, {}, {}), Knows(st, F, {}, {}, {}))
    BY <1>5, <1>6, LeadThen
  <2> QED BY <2>1, <2>2
<1>10. Lead(texts, (<<s1, s2, s3>> \o C) \o <<s4, s5, s6>>, Knows(st, fs, ys, bs, rs), Knows(st, F, {}, {}, {}))
  BY <1>4, <1>8, <1>9, LeadThen
<1>11. GrowArray(r, len, cap) = (<<s1, s2, s3>> \o C) \o <<s4, s5, s6>>
  BY DEF GrowArray, C, s1, s2, s3, s4, s5, s6
<1> QED BY <1>10, <1>11 DEF F

LEMMA LeadGrowMap ==
  ASSUME NEW texts, NEW st, NEW fs, NEW ys, NEW bs, NEW rs, NEW r \in Handles, r + 1 \in Handles, r - 2 \in Handles,
         NEW len \in 0 .. NFields, NEW cap \in Nat
  PROVE  Lead(texts, GrowMap(r, len, cap), Knows(st, fs, ys, bs, rs), Knows(st, {}, {}, {}, {}))
<1> DEFINE s1 == New("nk", "Slots", 0, None)
           s2 == Root(r, "nk")
           s3 == New("nv", "Slots", 0, None)
           s4 == Root(r + 1, "nv")
           s5 == Read("m", r - 2)
           s6 == Read("nk", r)
           s7 == Read("nv", r + 1)
           s8 == Load("s", "m", 1)
           s9 == Load("d", "m", 2)
           w1 == Store("m", 1, "nk")
           w2 == Store("m", 2, "nv")
           w3 == Barrier("m", "nk")
           w4 == Barrier("m", "nv")
           w5 == SetCap("m", Grown(cap))
           G == {"nv", "m", "nk"}
           F == {"nv", "m", "nk", "s", "d"}
           Y == {"nv", "nk"}
           C1 == Copied("nk", "s", len)
           C2 == Copied("nv", "d", len)
           A0 == Knows(st, fs, ys, bs, rs)
           A3 == Knows(st, {"nv"}, {"nv"}, {}, {r})
           A4 == Knows(st, {"nv"}, {"nv"}, {}, {r, r + 1})
           A5 == Knows(st, {"nv", "m"}, {"nv"}, {}, {r, r + 1})
           A6 == Knows(st, G, Y, {}, {r + 1})
           A7 == Knows(st, G, Y, {}, {})
           A8 == Knows(st, G \cup {"s"}, Y, {}, {})
           A9 == Knows(st, F, Y, {}, {})
           B0 == Owing(st, F, {})
           B1 == Owing(st, F, {<<"m", "nk">>})
           B2 == Owing(st, F, {<<"m", "nk">>, <<"m", "nv">>})
           B3 == Owing(st, F, {<<"m", "nv">>})
           Z == Knows(st, {}, {}, {}, {})
<1>1. Lead(texts, <<s1, s2>>, A0, Held(st, r))
  BY Numbers, LocalNames, KindNames, LeadNewRooted
<1>2. Lead(texts, <<s3>>, Held(st, r), A3)
  BY Numbers, LocalNames, KindNames, LeadNew
<1>3. Lead(texts, <<s4>>, A3, A4)
  <2>1. {r, r + 1} \subseteq ({r} \ {r + 1}) \cup (IF "nv" \in {"nv"} THEN {r + 1} ELSE {})
    BY Numbers
  <2> QED BY <2>1, LocalNames, LeadRoot
<1>4. Lead(texts, <<s5>>, A4, A5)
  BY LocalNames, LeadRead
<1>5. Lead(texts, <<s6>>, A5, A6)
  BY LocalNames, LeadRead
<1>6. Lead(texts, <<s7>>, A6, A7)
  BY LocalNames, LeadRead
<1>7. Lead(texts, <<s8>>, A7, A8)
  BY Numbers, LocalNames, LeadLoad
<1>8. Lead(texts, <<s9>>, A8, A9)
  BY Numbers, LocalNames, LeadLoad
<1>9. Lead(texts, C1, A9, A9) /\ Lead(texts, C2, A9, A9)
  BY LocalNames, LeadCopied
<1>10. Lead(texts, <<w1>>, B0, B1) /\ Lead(texts, <<w2>>, B1, B2)
  BY Numbers, LocalNames, LeadOwing
<1>11. Lead(texts, <<w3>>, B2, B3) /\ Lead(texts, <<w4>>, B3, B0)
  BY Numbers, LocalNames, LeadOwing
<1>12. A9 \subseteq B0 /\ B0 \subseteq Knows(st, F, {}, {}, {})
  BY OwingNone
<1>13. Lead(texts, <<w5>>, B0, Z)
  <2>1. Grown(cap) \in Nat
    BY BuiltinsAssumption DEF Grown
  <2>2. Lead(texts, <<w5>>, Knows(st, F, {}, {}, {}), Z)
    BY <2>1, LocalNames, LeadRests
  <2> QED BY <1>12, <2>2, LeadWeaker
<1>14. s1 \in Micro(texts) /\ s2 \in Micro(texts)
  <2>1. <<s1, s2>> \in Seq(Micro(texts))
    BY <1>1 DEF Lead
  <2> HIDE DEF s1, s2
  <2> QED BY <2>1
<1> HIDE DEF s1, s2, s3, s4, s5, s6, s7, s8, s9, w1, w2, w3, w4, w5, A0, A3, A4, A5, A6, A7, A8, A9,
         B0, B1, B2, B3, Z, C1, C2
<1>15. s3 \in Micro(texts) /\ s4 \in Micro(texts) /\ s5 \in Micro(texts) /\ s6 \in Micro(texts)
       /\ s7 \in Micro(texts) /\ s8 \in Micro(texts) /\ s9 \in Micro(texts)
  BY <1>2, <1>3, <1>4, <1>5, <1>6, <1>7, <1>8, LeadElement
<1>16. Lead(texts, <<s3, s4, s5, s6, s7>>, Held(st, r), A7)
  BY <1>2, <1>3, <1>4, <1>5, <1>6, Lead5, Zenon
<1>17. Lead(texts, <<s8, s9>>, A7, A9)
  BY <1>7, <1>8, Lead2, Zenon
<1>18. Lead(texts, <<s3, s4, s5, s6, s7, s8, s9>>, Held(st, r), A9)
  <2>1. <<s3, s4, s5, s6, s7, s8, s9>> = <<s3, s4, s5, s6, s7>> \o <<s8, s9>>
    BY <1>15
  <2> QED BY <1>16, <1>17, <2>1, LeadThen
<1>19. Lead(texts, <<s1, s2, s3, s4, s5, s6, s7, s8, s9>>, A0, A9)
  <2>1. <<s1, s2, s3, s4, s5, s6, s7, s8, s9>> = <<s1, s2>> \o <<s3, s4, s5, s6, s7, s8, s9>>
    BY <1>14, <1>15
  <2> QED BY <1>1, <1>18, <2>1, LeadThen
<1>20. Lead(texts, <<w1, w2, w3, w4, w5>>, A9, Z)
  <2>1. Lead(texts, <<w1, w2, w3, w4, w5>>, B0, Z)
    BY <1>10, <1>11, <1>13, Lead5, Zenon
  <2> QED BY <1>12, <2>1, LeadWeaker
<1>21. Lead(texts, ((<<s1, s2, s3, s4, s5, s6, s7, s8, s9>> \o C1) \o C2) \o <<w1, w2, w3, w4, w5>>, A0, Z)
  BY <1>9, <1>19, <1>20, LeadThen
<1>22. GrowMap(r, len, cap)
         = ((<<s1, s2, s3, s4, s5, s6, s7, s8, s9>> \o C1) \o C2) \o <<w1, w2, w3, w4, w5>>
  BY DEF GrowMap, C1, C2, s1, s2, s3, s4, s5, s6, s7, s8, s9, w1, w2, w3, w4, w5
<1> QED BY <1>21, <1>22 DEF A0, Z

LEMMA LeadNewString ==
  ASSUME NEW texts, NEW st, NEW fs, NEW ys, NEW bs, NEW rs, NEW x \in Locals, x # "b", NEW r \in Handles,
         NEW text \in texts
  PROVE  Lead(texts, new_string(x, r, text), Knows(st, fs, ys, bs, rs), Knows(st, {x, "b"}, {x}, {x}, {}))
<1>1. text \in texts \cup {None}
  OBVIOUS
<1> QED BY <1>1, Numbers, LocalNames, KindNames, LeadTwoNews DEF new_string

LEMMA LeadNewArray ==
  ASSUME NEW texts, NEW st, NEW fs, NEW ys, NEW bs, NEW rs, NEW x \in Locals, x # "s", NEW r \in Handles,
         NEW len \in 0 .. NFields
  PROVE  /\ Lead(texts, new_array(x, r, len), Knows(st, fs, ys, bs, rs), Knows(st, {x, "s"}, {x}, {x}, {}))
         /\ Lead(texts, new_closure(x, r, len), Knows(st, fs, ys, bs, rs), Knows(st, {x, "s"}, {x}, {x}, {}))
<1>1. None \in texts \cup {None}
  OBVIOUS
<1> QED BY <1>1, LocalNames, KindNames, LeadTwoNews DEF new_array, new_closure

LEMMA LeadPut ==
  ASSUME NEW texts, NEW st, NEW ks, NEW cap \in Nat, NEW key \in texts, NEW r \in Handles,
         r + 1 \in Handles, r + 2 \in Handles, r + 3 \in Handles, r + 4 \in Handles,
         Len(ks) \in 0 .. NFields, DOMAIN ks = 1 .. Len(ks),
         (\E j \in DOMAIN ks : ks[j] = key) \/ Len(ks) + 1 <= NFields
  PROVE  Lead(texts, map_put(ks, cap, key, r), Knows(st, {"m", "v"}, {}, {}, {}), Knows(st, {}, {}, {}, {}))
<1> DEFINE Z == Knows(st, {}, {}, {}, {})
           A == Knows(st, {"m", "v"}, {}, {}, {})
<1>1. CASE \E j \in DOMAIN ks : ks[j] = key
  <2> DEFINE j == CHOOSE i \in DOMAIN ks : ks[i] = key
             F == {"m", "v", "d"}
             s1 == Load("d", "m", 2)
             s2 == Store("d", j, "v")
             s3 == Barrier("d", "v")
  <2>1. j \in Fields
    <3>1. j \in 1 .. Len(ks)
      BY <1>1
    <3> QED BY <3>1, Numbers
  <2>2. map_put(ks, cap, key, r) = <<s1, s2, s3>>
    BY <1>1 DEF map_put
  <2>3. Lead(texts, <<s1>>, A, Knows(st, F, {}, {}, {}))
    BY Numbers, LocalNames, LeadLoad
  <2> HIDE DEF j
  <2>4. Lead(texts, <<s2, s3>>, Knows(st, F, {}, {}, {}), Z)
    BY <2>1, LocalNames, LeadStoreBarrier
  <2>5. s1 \in Micro(texts) /\ s2 \in Micro(texts) /\ s3 \in Micro(texts)
    <3>1. <<s1>> \in Seq(Micro(texts)) /\ <<s2, s3>> \in Seq(Micro(texts))
      BY <2>3, <2>4 DEF Lead
    <3> HIDE DEF s1, s2, s3
    <3> QED BY <3>1
  <2> HIDE DEF s1, s2, s3, A, Z, F
  <2>6. <<s1, s2, s3>> = <<s1>> \o <<s2, s3>>
    BY <2>5
  <2> QED BY <2>2, <2>3, <2>4, <2>6, LeadThen DEF A, Z
<1>2. CASE ~\E j \in DOMAIN ks : ks[j] = key
  <2> DEFINE n == Len(ks) + 1
             g == IF Len(ks) = cap THEN GrowMap(r + 2, Len(ks), cap) ELSE <<>>
             h == IF Len(ks) = cap THEN r + 4 ELSE r + 2
             w == new_string("k", h, key)
             s1 == Root(r, "m")
             s2 == Root(r + 1, "v")
             u1 == Read("m", r)
             u2 == Read("v", r + 1)
             u3 == Load("s", "m", 1)
             u4 == Store("s", n, "k")
             u5 == Barrier("s", "k")
             u6 == Load("d", "m", 2)
             u7 == Store("d", n, "v")
             u8 == Barrier("d", "v")
             u9 == SetLen("m", n)
             u10 == Drop(r)
             B == Knows(st, {"m", "v", "k", "s"}, {}, {}, {})
             C == Knows(st, {"m", "v", "d"}, {}, {}, {})
             K == Knows(st, {"k"}, {}, {}, {})
             K1 == Knows(st, {"k", "m"}, {}, {}, {})
             K2 == Knows(st, {"k", "m", "v"}, {}, {}, {})
             B2 == Knows(st, {"m", "v", "d", "s"}, {}, {}, {})
             B1 == Knows(st, {"m", "v", "s"}, {}, {}, {})
  <2>1. n \in Fields /\ n \in 0 .. NFields /\ n \in Nat
    BY <1>2, Numbers
  <2>2. map_put(ks, cap, key, r) = ((<<s1, s2>> \o g) \o w) \o <<u1, u2, u3, u4, u5, u6, u7, u8, u9, u10>>
    BY <1>2 DEF map_put
  <2>3. Lead(texts, <<s1>>, A, A) /\ Lead(texts, <<s2>>, A, Z)
    BY LocalNames, LeadRoot
  <2>4. Lead(texts, g, Z, Z)
    <3>1. CASE Len(ks) = cap
      <4>1. r + 2 \in Handles /\ (r + 2) + 1 \in Handles /\ (r + 2) - 2 \in Handles
        BY Numbers
      <4>2. Lead(texts, GrowMap(r + 2, Len(ks), cap), Z, Z)
        BY <4>1, LeadGrowMap
      <4> QED BY <3>1, <4>2
    <3>2. CASE Len(ks) # cap
      <4>1. g = <<>>
        BY <3>2
      <4> QED BY <4>1, LeadNone
    <3> QED BY <3>1, <3>2
  <2> HIDE DEF g
  <2>5. Lead(texts, w, Z, K)
    <3>1. h \in Handles
      OBVIOUS
    <3> HIDE DEF h
    <3>2. Lead(texts, w, Z, Knows(st, {"k", "b"}, {"k"}, {"k"}, {}))
      BY <3>1, LocalNames, LeadNewString
    <3>3. Knows(st, {"k", "b"}, {"k"}, {"k"}, {}) \subseteq K
      BY KnowsLess
    <3> QED BY <3>2, <3>3, LeadWeaker
  <2>6. Lead(texts, <<u1>>, K, K1) /\ Lead(texts, <<u2>>, K1, K2)
    BY LocalNames, LeadRead
  <2>7. Lead(texts, <<u3>>, K2, B)
    BY Numbers, LocalNames, LeadLoad
  <2> HIDE DEF n
  <2>8. Lead(texts, <<u4, u5>>, B, B1)
    BY <2>1, LocalNames, LeadStoreBarrier
  <2>9. Lead(texts, <<u6>>, B1, B2)
    BY Numbers, LocalNames, LeadLoad
  <2>10. Lead(texts, <<u7, u8>>, B2, C)
    BY <2>1, LocalNames, LeadStoreBarrier
  <2>11. Lead(texts, <<u9>>, C, C)
    BY <2>1, LocalNames, LeadRests
  <2>12. Lead(texts, <<u10>>, C, Z)
    BY Numbers, LocalNames, LeadRests
  <2>13. u4 \in Micro(texts) /\ u5 \in Micro(texts) /\ u7 \in Micro(texts) /\ u8 \in Micro(texts)
    <3>1. <<u4, u5>> \in Seq(Micro(texts)) /\ <<u7, u8>> \in Seq(Micro(texts))
      BY <2>8, <2>10 DEF Lead
    <3> HIDE DEF u4, u5, u7, u8
    <3> QED BY <3>1
  <2> HIDE DEF w, s1, s2, u1, u2, u3, u4, u5, u6, u7, u8, u9, u10, A, B, C, K, K1, K2, B1, B2, Z
  <2>14. Lead(texts, <<s1, s2>>, A, Z)
    BY <2>3, Lead2, Zenon
  <2>15. Lead(texts, <<u1, u2, u3>>, K, B)
    BY <2>6, <2>7, Lead3, Zenon
  <2>16. Lead(texts, <<u9, u10>>, C, Z)
    BY <2>11, <2>12, Lead2, Zenon
  <2>17. u1 \in Micro(texts) /\ u2 \in Micro(texts) /\ u3 \in Micro(texts)
         /\ u6 \in Micro(texts) /\ u9 \in Micro(texts) /\ u10 \in Micro(texts)
    BY <2>6, <2>7, <2>9, <2>11, <2>12, LeadElement
  <2>18. <<u1, u2, u3, u4, u5, u6, u7, u8, u9, u10>>
           = <<u1, u2, u3>> \o (<<u4, u5>> \o (<<u6>> \o (<<u7, u8>> \o <<u9, u10>>)))
    <3>1. <<u7, u8, u9, u10>> = <<u7, u8>> \o <<u9, u10>>
      BY <2>13, <2>17
    <3>2. <<u6, u7, u8, u9, u10>> = <<u6>> \o <<u7, u8, u9, u10>>
      BY <2>13, <2>17
    <3>3. <<u4, u5, u6, u7, u8, u9, u10>> = <<u4, u5>> \o <<u6, u7, u8, u9, u10>>
      BY <2>13, <2>17
    <3>4. <<u1, u2, u3, u4, u5, u6, u7, u8, u9, u10>> = <<u1, u2, u3>> \o <<u4, u5, u6, u7, u8, u9, u10>>
      BY <2>13, <2>17
    <3> QED BY <3>1, <3>2, <3>3, <3>4
  <2> DEFINE p4 == <<u7, u8>> \o <<u9, u10>>
             p3 == <<u6>> \o p4
             p2 == <<u4, u5>> \o p3
             p1 == <<u1, u2, u3>> \o p2
  <2>19. Lead(texts, p4, B2, Z)
    BY <2>10, <2>16, LeadThen
  <2>20. Lead(texts, p3, B1, Z)
    <3> HIDE DEF p4
    <3> QED BY <2>9, <2>19, LeadThen
  <2>21. Lead(texts, p2, B, Z)
    <3> HIDE DEF p3
    <3> QED BY <2>8, <2>20, LeadThen
  <2>22. Lead(texts, p1, K, Z)
    <3> HIDE DEF p2
    <3> QED BY <2>15, <2>21, LeadThen
  <2>23. map_put(ks, cap, key, r) = ((<<s1, s2>> \o g) \o w) \o p1
    BY <2>2, <2>18
  <2>24. Lead(texts, (<<s1, s2>> \o g) \o w, A, K)
    BY <2>14, <2>4, <2>5, LeadThen
  <2> HIDE DEF p1
  <2>25. Lead(texts, map_put(ks, cap, key, r), A, Z)
    BY <2>22, <2>23, <2>24, LeadThen
  <2> QED BY <2>25 DEF A, Z
<1> QED BY <1>1, <1>2

-----------------------------------------------------------------------------
(***************************************************************************)
(* The calls.                                                              *)
(***************************************************************************)
Idle(st) == Knows(st, {}, {}, {}, {})

\* The call c may be made, and texts has what it may write into a string.
Ready(texts, c) ==
  /\ c \in CallSet /\ RightArguments(c)
  /\ \A r \in Regs : roots[r] # Null => PayloadAt(roots[r]) \in Payloads(texts)
  /\ c.key \in texts /\ "t" \in texts /\ "j" \in texts
  /\ \A j \in {1, 2} : \A i \in 1 .. P(c, j).len : Keys(c, j)[i] \in texts
  /\ \A i \in 1 .. P(c, 1).len : PayloadAt(SlotAt(roots[c.a[1]], 2, i)).text \in texts

LEMMA ReadyTypes ==
  ASSUME NEW texts, NEW c, Ready(texts, c)
  PROVE  /\ c.a \in Seq(Regs) /\ Len(c.a) \in Nat /\ Len(c.a) >= Arity(c.fn) /\ c.dst \in 0 .. NRegs /\ c.dst \in Nat
         /\ c.i \in Nat /\ c.n \in Nat /\ c.key \in texts /\ "t" \in texts /\ "j" \in texts
<1>1. c \in [fn : CallNames, a : Seq(Regs), dst : 0 .. NRegs, key : STRING, i : Nat, n : Nat] /\ Len(c.a) >= Arity(c.fn)
  BY DEF Ready, CallSet
<1>2. c.a \in Seq(Regs) /\ c.dst \in 0 .. NRegs /\ c.i \in Nat /\ c.n \in Nat
  BY <1>1
<1> QED BY <1>1, <1>2, Numbers DEF Ready

\* An argument that is an object.
LEMMA ArgumentTypes ==
  ASSUME NEW texts, NEW c, Ready(texts, c), NEW j \in {1, 2}, j <= Arity(c.fn)
  PROVE  /\ c.a[j] \in Regs /\ c.a[j] \in Handles
         /\ Kind(c, j) # "Nil" => /\ P(c, j).len \in 0 .. NFields /\ P(c, j).cap \in Nat
                                  /\ Len(Keys(c, j)) = P(c, j).len /\ DOMAIN Keys(c, j) = 1 .. P(c, j).len
                                  /\ \A i \in 1 .. P(c, j).len : Keys(c, j)[i] \in texts
<1>1. c.a[j] \in Regs
  <2>1. j \in 1 .. Len(c.a)
    BY ReadyTypes DEF Arity
  <2> QED BY <2>1, ReadyTypes
<1>2. ASSUME Kind(c, j) # "Nil" PROVE P(c, j).len \in 0 .. NFields /\ P(c, j).cap \in Nat
  <2>1. P(c, j) \in Payloads(texts)
    BY <1>1, <1>2 DEF Kind, P, Ready
  <2> HIDE DEF P
  <2> QED BY <2>1 DEF Payloads
<1>3. ASSUME Kind(c, j) # "Nil"
      PROVE  Len(Keys(c, j)) = P(c, j).len /\ DOMAIN Keys(c, j) = 1 .. P(c, j).len
  BY <1>2, <1>3, Numbers DEF Keys
<1>4. \A i \in 1 .. P(c, j).len : Keys(c, j)[i] \in texts
  BY DEF Ready
<1> QED BY <1>1, <1>2, <1>3, <1>4, Numbers

LEMMA Rights ==
  ASSUME NEW texts, NEW c, Ready(texts, c)
  PROVE  /\ c.fn \in {"new_array", "fill", "split"} => c.n <= NFields
         /\ c.fn = "closure" => Len(c.a) <= NFields
         /\ c.fn = "push" => Kind(c, 1) = "Array" /\ P(c, 1).len + 1 <= NFields
         /\ c.fn = "insert" => Kind(c, 1) = "Array" /\ P(c, 1).len + 1 <= NFields /\ c.i \in 1 .. P(c, 1).len + 1
         /\ c.fn = "set_elem" => Kind(c, 1) = "Array" /\ c.i \in 1 .. P(c, 1).len
         /\ c.fn = "pop" => Kind(c, 1) = "Array" /\ P(c, 1).len > 0
         /\ c.fn = "remove" => Kind(c, 1) = "Array" /\ c.i \in 1 .. P(c, 1).len
         /\ c.fn = "set" => Kind(c, 1) = "Map" /\ (c.key \in ToSet(Keys(c, 1)) \/ P(c, 1).len + 1 <= NFields)
         /\ c.fn = "remove_key" => Kind(c, 1) = "Map" /\ c.key \in ToSet(Keys(c, 1))
         /\ c.fn = "slice" => Kind(c, 1) = "Array" /\ c.i >= 1 /\ c.i + c.n - 1 <= P(c, 1).len
         /\ c.fn \in {"iter", "chunk"} => Kind(c, 1) = "Array"
         /\ c.fn \in {"keys", "values", "entries", "invert"} => Kind(c, 1) = "Map"
         /\ c.fn = "next" => Kind(c, 1) = "Iter" /\ P(c, 1).cap < P(c, 1).len
         /\ c.fn = "concat_arr" => Kind(c, 1) = "Array" /\ Kind(c, 2) = "Array" /\ P(c, 1).len + P(c, 2).len <= NFields
         /\ c.fn = "zip" => Kind(c, 1) = "Array" /\ Kind(c, 2) = "Array"
         /\ c.fn = "format_join" => Kind(c, 1) = "Array" /\ Kind(c, 2) = "String"
         /\ c.fn = "merge" => /\ Kind(c, 1) = "Map" /\ Kind(c, 2) = "Map"
                              /\ Cardinality(ToSet(Keys(c, 1)) \cup ToSet(Keys(c, 2))) <= NFields
         /\ c.fn = "unzip" => Kind(c, 1) = "Array"
<1>1. RightArguments(c)
  BY DEF Ready
<1> QED BY <1>1 DEF RightArguments, Fits, Within

LEMMA HandleNames ==
  /\ H(1) \in Handles /\ H(2) \in Handles /\ H(3) \in Handles /\ H(4) \in Handles /\ H(5) \in Handles /\ H(6) \in Handles
  /\ H(1) + 1 = H(2) /\ H(1) + 2 = H(3) /\ H(1) + 3 = H(4) /\ H(1) + 4 = H(5)
  /\ H(2) + 1 = H(3) /\ H(2) + 2 = H(4) /\ H(2) + 3 = H(5) /\ H(2) + 4 = H(6)
<1>1. \A k \in 1 .. 6 : H(k) \in Handles
  BY Numbers
<1>2. NRegs \in Nat
  BY Numbers
<1> QED BY <1>1, <1>2 DEF H

LEMMA LeadPop ==
  ASSUME NEW texts, NEW c, Ready(texts, c), c.fn = "pop", NEW st
  PROVE  Lead(texts, pop_fn(c), Idle(st), Idle(st))
<1>1. Kind(c, 1) = "Array" /\ P(c, 1).len > 0
  BY Rights
<1>2. 1 <= Arity(c.fn)
  BY DEF Arity
<1>3. c.a[1] \in Handles /\ P(c, 1).len \in 0 .. NFields /\ P(c, 1).cap \in Nat
  BY <1>1, <1>2, ArgumentTypes
<1>4. P(c, 1).len \in Fields /\ P(c, 1).len - 1 \in 0 .. NFields /\ P(c, 1).len - 1 \in Nat
  BY <1>1, <1>3, ReadyTypes, Numbers
<1>5. c.dst \in 0 .. NRegs /\ c.dst \in Nat
  BY <1>1, <1>3, <1>4, ReadyTypes, Numbers
<1> DEFINE a1 == Read("arr", c.a[1])
           a2 == Load("s", "arr", 1)
           a3 == Load("x", "s", P(c, 1).len)
           a4 == SetLen("arr", P(c, 1).len - 1)
           a5 == Ret(c.dst, "x")
           A0 == Knows(st, {}, {}, {}, {})
           A1 == Knows(st, {"arr"}, {}, {}, {})
           A2 == Knows(st, {"s", "arr"}, {}, {}, {})
           A3 == Knows(st, {"s", "x", "arr"}, {}, {}, {})
           A4 == Knows(st, {"s", "x", "arr"}, {}, {}, {})
           A5 == Knows(st, {}, {}, {}, {})
<1>6. Lead(texts, <<a1>>, A0, A1)
  BY <1>1, <1>3, <1>4, <1>5, Numbers, HandleNames, LocalNames, LeadRead
<1>7. Lead(texts, <<a2>>, A1, A2)
  BY <1>1, <1>3, <1>4, <1>5, Numbers, HandleNames, LocalNames, LeadLoad
<1>8. Lead(texts, <<a3>>, A2, A3)
  BY <1>1, <1>3, <1>4, <1>5, Numbers, HandleNames, LocalNames, LeadLoad
<1>9. Lead(texts, <<a4>>, A3, A4)
  BY <1>1, <1>3, <1>4, <1>5, Numbers, HandleNames, LocalNames, LeadRests
<1>10. Lead(texts, <<a5>>, A4, A5)
  BY <1>1, <1>3, <1>4, <1>5, Numbers, HandleNames, LocalNames, LeadRests
<1> HIDE DEF a1, a2, a3, a4, a5, A0, A1, A2, A3, A4, A5
<1>11. Lead(texts, <<a1, a2, a3, a4, a5>>, A0, A5)
  BY <1>6, <1>7, <1>8, <1>9, <1>10, Lead5, Zenon
<1>12. pop_fn(c) = <<a1, a2, a3, a4, a5>>
  BY DEF pop_fn, a1, a2, a3, a4, a5
<1> QED BY <1>11, <1>12 DEF Idle, A0, A5

LEMMA LeadSetElement ==
  ASSUME NEW texts, NEW c, Ready(texts, c), c.fn = "set_elem", NEW st
  PROVE  Lead(texts, SetElement(c), Idle(st), Idle(st))
<1>1. Kind(c, 1) = "Array" /\ c.i \in 1 .. P(c, 1).len
  BY Rights
<1>2. 1 <= Arity(c.fn) /\ 2 <= Arity(c.fn)
  BY DEF Arity
<1>3. c.a[1] \in Handles /\ P(c, 1).len \in 0 .. NFields /\ P(c, 1).cap \in Nat /\ c.a[2] \in Handles
  BY <1>1, <1>2, ArgumentTypes
<1>4. c.i \in Fields
  BY <1>1, <1>3, ReadyTypes, Numbers
<1> DEFINE a1 == Read("arr", c.a[1])
           a2 == Load("s", "arr", 1)
           a3 == Read("v", c.a[2])
           a4 == Store("s", c.i, "v")
           a5 == Barrier("s", "v")
           A0 == Knows(st, {}, {}, {}, {})
           A1 == Knows(st, {"arr"}, {}, {}, {})
           A2 == Knows(st, {"s", "arr"}, {}, {}, {})
           A3 == Knows(st, {"v", "s", "arr"}, {}, {}, {})
           A4 == Knows(st, {}, {}, {}, {})
<1>5. Lead(texts, <<a1>>, A0, A1)
  BY <1>1, <1>3, <1>4, Numbers, HandleNames, LocalNames, LeadRead
<1>6. Lead(texts, <<a2>>, A1, A2)
  BY <1>1, <1>3, <1>4, Numbers, HandleNames, LocalNames, LeadLoad
<1>7. Lead(texts, <<a3>>, A2, A3)
  BY <1>1, <1>3, <1>4, Numbers, HandleNames, LocalNames, LeadRead
<1>8. Lead(texts, <<a4, a5>>, A3, A4)
  BY <1>1, <1>3, <1>4, Numbers, HandleNames, LocalNames, LeadStoreBarrier
<1>9. a4 \in Micro(texts) /\ a5 \in Micro(texts)
  <2>1. <<a4, a5>> \in Seq(Micro(texts))
    BY <1>8 DEF Lead
  <2> HIDE DEF a4, a5
  <2> QED BY <2>1
<1> HIDE DEF a1, a2, a3, a4, a5, A0, A1, A2, A3, A4
<1>10. a1 \in Micro(texts) /\ a2 \in Micro(texts) /\ a3 \in Micro(texts)
  BY <1>5, <1>6, <1>7, LeadElement
<1>11. Lead(texts, <<a1, a2, a3>>, A0, A3)
  BY <1>5, <1>6, <1>7, Lead3, Zenon
<1>12. <<a1, a2, a3, a4, a5>> = <<a1, a2, a3>> \o <<a4, a5>>
  BY <1>9, <1>10
<1>13. Lead(texts, <<a1, a2, a3, a4, a5>>, A0, A4)
  BY <1>11, <1>8, <1>12, LeadThen
<1>14. SetElement(c) = <<a1, a2, a3, a4, a5>>
  BY DEF SetElement, a1, a2, a3, a4, a5
<1> QED BY <1>13, <1>14 DEF Idle, A0, A4

LEMMA LeadCallString ==
  ASSUME NEW texts, NEW c, Ready(texts, c), c.fn = "new_string", NEW st
  PROVE  Lead(texts, new_string("x", H(1), c.key) \o <<Ret(c.dst, "x")>>, Idle(st), Idle(st))
<1>1. c.key \in texts
  BY ReadyTypes, Numbers
<1>2. c.dst \in 0 .. NRegs /\ c.dst \in Nat
  BY <1>1, ReadyTypes, Numbers
<1> DEFINE a1 == new_string("x", H(1), c.key)
           a2 == Ret(c.dst, "x")
           A0 == Knows(st, {}, {}, {}, {})
           A1 == Knows(st, {"x", "b"}, {"x"}, {"x"}, {})
           A2 == Knows(st, {}, {}, {}, {})
<1>3. Lead(texts, a1, A0, A1)
  BY <1>1, LocalNames, HandleNames, LeadNewString DEF Idle
<1>4. Lead(texts, <<a2>>, A1, A2)
  BY <1>1, <1>2, Numbers, HandleNames, LocalNames, LeadRests
<1> HIDE DEF a1, a2, A0, A1, A2
<1>5. Lead(texts, a1 \o <<a2>>, A0, A2)
  BY <1>3, <1>4, LeadThen
<1>6. new_string("x", H(1), c.key) \o <<Ret(c.dst, "x")>> = a1 \o <<a2>>
  BY DEF new_string, a1, a2
<1> QED BY <1>5, <1>6 DEF Idle, A0, A2

LEMMA LeadCallArray ==
  ASSUME NEW texts, NEW c, Ready(texts, c), c.fn = "new_array", NEW st
  PROVE  Lead(texts, new_array("x", H(1), c.n) \o <<Ret(c.dst, "x")>>, Idle(st), Idle(st))
<1>1. c.n <= NFields
  BY Rights
<1>2. c.n \in 0 .. NFields
  BY <1>1, ReadyTypes, Numbers
<1>3. c.dst \in 0 .. NRegs /\ c.dst \in Nat
  BY <1>1, <1>2, ReadyTypes, Numbers
<1> DEFINE a1 == new_array("x", H(1), c.n)
           a2 == Ret(c.dst, "x")
           A0 == Knows(st, {}, {}, {}, {})
           A1 == Knows(st, {"s", "x"}, {"x"}, {"x"}, {})
           A2 == Knows(st, {}, {}, {}, {})
<1>4. Lead(texts, a1, A0, A1)
  BY <1>2, LocalNames, HandleNames, LeadNewArray
<1>5. Lead(texts, <<a2>>, A1, A2)
  BY <1>1, <1>2, <1>3, Numbers, HandleNames, LocalNames, LeadRests
<1> HIDE DEF a1, a2, A0, A1, A2
<1>6. Lead(texts, a1 \o <<a2>>, A0, A2)
  BY <1>4, <1>5, LeadThen
<1>7. new_array("x", H(1), c.n) \o <<Ret(c.dst, "x")>> = a1 \o <<a2>>
  BY DEF new_array, a1, a2
<1> QED BY <1>6, <1>7 DEF Idle, A0, A2

LEMMA LeadCallMap ==
  ASSUME NEW texts, NEW c, Ready(texts, c), c.fn = "new_map", NEW st
  PROVE  Lead(texts, new_map("x") \o <<Ret(c.dst, "x")>>, Idle(st), Idle(st))
<1>1. 0 \in 0 .. NFields /\ None \in texts \cup {None}
  BY ReadyTypes, Numbers
<1>2. c.dst \in 0 .. NRegs /\ c.dst \in Nat
  BY <1>1, ReadyTypes, Numbers
<1> DEFINE a1 == new_map("x")
           a2 == Ret(c.dst, "x")
           A0 == Knows(st, {}, {}, {}, {})
           A1 == Knows(st, {"x"}, {"x"}, {}, {})
           A2 == Knows(st, {}, {}, {}, {})
<1>3. Lead(texts, a1, A0, A1)
  BY <1>1, LocalNames, KindNames, LeadNew DEF new_map
<1>4. Lead(texts, <<a2>>, A1, A2)
  BY <1>1, <1>2, Numbers, HandleNames, LocalNames, LeadRests
<1> HIDE DEF a1, a2, A0, A1, A2
<1>5. Lead(texts, a1 \o <<a2>>, A0, A2)
  BY <1>3, <1>4, LeadThen
<1>6. new_map("x") \o <<Ret(c.dst, "x")>> = a1 \o <<a2>>
  BY DEF new_map, a1, a2
<1> QED BY <1>5, <1>6 DEF Idle, A0, A2

LEMMA LeadClosure ==
  ASSUME NEW texts, NEW c, Ready(texts, c), c.fn = "closure", NEW st
  PROVE  Lead(texts, Closure(c), Idle(st), Idle(st))
<1>1. Len(c.a) <= NFields
  BY Rights
<1>2. Len(c.a) \in 0 .. NFields /\ Len(c.a) \in Nat
  BY <1>1, ReadyTypes, Numbers
<1>3. \A j \in 1 .. Len(c.a) : c.a[j] \in Handles /\ j \in Fields
  <2>1. \A j \in 1 .. Len(c.a) : c.a[j] \in Regs
    BY ReadyTypes
  <2>2. \A j \in 1 .. Len(c.a) : j \in Fields
    BY <1>2, Numbers
  <2>3. Regs \subseteq Handles
    BY Numbers
  <2> QED BY <2>1, <2>2, <2>3, Zenon
<1>4. c.dst \in 0 .. NRegs /\ c.dst \in Nat
  BY <1>1, <1>2, <1>3, ReadyTypes, Numbers
<1> DEFINE a1 == new_closure("x", H(1), Len(c.a))
           a2 == Load("d", "x", 1)
           a3 == Steps(Len(c.a), LAMBDA j : << Read("v", c.a[j]), Store("d", j, "v") >>)
           a4 == Ret(c.dst, "x")
           A0 == Knows(st, {}, {}, {}, {})
           A1 == Knows(st, {"s", "x"}, {"x"}, {"x"}, {})
           A2 == Knows(st, {"s", "d", "x"}, {"d", "x"}, {"x"}, {})
           A3 == Knows(st, {"d", "x"}, {"d"}, {}, {})
           A4 == Knows(st, {}, {}, {}, {})
<1>5. Lead(texts, a1, A0, A1)
  BY <1>2, LocalNames, HandleNames, LeadNewArray
<1>6. Lead(texts, <<a2>>, A1, A2)
  BY <1>1, <1>2, <1>3, <1>4, Numbers, HandleNames, LocalNames, LeadLoad
<1>7. Lead(texts, a3, A2, A3)
  <2> DEFINE t == [i \in 1 .. Len(c.a) |-> << Read("v", c.a[i]), Store("d", i, "v") >>]
             I == Knows(st, {"d", "x"}, {"d"}, {}, {})
  <2>1. ASSUME NEW i \in 1 .. Len(c.a) PROVE Lead(texts, << Read("v", c.a[i]), Store("d", i, "v") >>, I, I)
    <3> DEFINE b1 == Read("v", c.a[i])
               b2 == Store("d", i, "v")
               B0 == Knows(st, {"d", "x"}, {"d"}, {}, {})
               B1 == Knows(st, {"v", "d", "x"}, {"d"}, {}, {})
               B2 == Knows(st, {"d", "x"}, {"d"}, {}, {})
    <3>1. Lead(texts, <<b1>>, B0, B1)
      BY <1>1, <1>2, <1>3, <1>4, Numbers, HandleNames, LocalNames, LeadRead
    <3>2. Lead(texts, <<b2>>, B1, B2)
      BY <1>1, <1>2, <1>3, <1>4, Numbers, HandleNames, LocalNames, LeadStore
    <3> HIDE DEF b1, b2, B0, B1, B2
    <3>3. Lead(texts, <<b1, b2>>, B0, B2)
      BY <3>1, <3>2, Lead2, Zenon
    <3>4. << Read("v", c.a[i]), Store("d", i, "v") >> = <<b1, b2>>
      BY DEF b1, b2
    <3> QED BY <3>3, <3>4 DEF I, B0, B2
  <2>2. \A i \in 1 .. Len(c.a) : Lead(texts, t[i], I, I)
    BY <2>1
  <2>3. t = [i \in 1 .. Len(c.a) |-> t[i]] /\ Len(c.a) \in Nat
    BY <1>2
  <2>4. a3 = FlattenSeq(t)
    BY DEF Steps
  <2>5. A2 \subseteq I /\ I \subseteq A3
    BY KnowsLess
  <2> HIDE DEF t, I, a3, A2, A3
  <2>6. Lead(texts, FlattenSeq(t), I, I)
    BY <2>2, <2>3, LeadAll
  <2> QED BY <2>4, <2>5, <2>6, LeadWeaker
<1>8. Lead(texts, <<a4>>, A3, A4)
  BY <1>1, <1>2, <1>3, <1>4, Numbers, HandleNames, LocalNames, LeadRests
<1> HIDE DEF a1, a2, a3, a4, A0, A1, A2, A3, A4
<1>9. Lead(texts, a1 \o <<a2>>, A0, A2)
  BY <1>5, <1>6, LeadThen
<1>10. Lead(texts, (a1 \o <<a2>>) \o a3, A0, A3)
  BY <1>9, <1>7, LeadThen
<1>11. Lead(texts, ((a1 \o <<a2>>) \o a3) \o <<a4>>, A0, A4)
  BY <1>10, <1>8, LeadThen
<1>12. Closure(c) = ((a1 \o <<a2>>) \o a3) \o <<a4>>
  BY DEF Closure, a1, a2, a3, a4
<1> QED BY <1>11, <1>12 DEF Idle, A0, A4

LEMMA LeadRemove ==
  ASSUME NEW texts, NEW c, Ready(texts, c), c.fn = "remove", NEW st
  PROVE  Lead(texts, remove_fn(c), Idle(st), Idle(st))
<1>1. Kind(c, 1) = "Array" /\ c.i \in 1 .. P(c, 1).len
  BY Rights
<1>2. 1 <= Arity(c.fn)
  BY DEF Arity
<1>3. c.a[1] \in Handles /\ P(c, 1).len \in 0 .. NFields /\ P(c, 1).cap \in Nat
  BY <1>1, <1>2, ArgumentTypes
<1>4. c.i \in Fields /\ P(c, 1).len - 1 \in 0 .. NFields /\ P(c, 1).len - 1 \in Nat /\ P(c, 1).len - c.i \in Nat
  BY <1>1, <1>3, ReadyTypes, Numbers
<1>5. \A k \in 1 .. P(c, 1).len - c.i : c.i + k \in Fields /\ c.i + k - 1 \in Fields
  <2>1. c.i \in Int /\ c.i >= 1 /\ P(c, 1).len \in Int /\ P(c, 1).len <= NFields /\ NFields \in Int
    BY <1>1, <1>3, <1>4, Numbers
  <2> QED BY ONLY <2>1
<1>6. c.dst \in 0 .. NRegs /\ c.dst \in Nat
  BY <1>1, <1>3, <1>4, <1>5, ReadyTypes, Numbers
<1> DEFINE a1 == Read("arr", c.a[1])
           a2 == Load("s", "arr", 1)
           a3 == Load("x", "s", c.i)
           a4 == Steps(P(c, 1).len - c.i, LAMBDA k : << Load("e", "s", c.i + k), Store("s", c.i + k - 1, "e") >>)
           a5 == SetLen("arr", P(c, 1).len - 1)
           a6 == Ret(c.dst, "x")
           A0 == Knows(st, {}, {}, {}, {})
           A1 == Knows(st, {"arr"}, {}, {}, {})
           A2 == Knows(st, {"s", "arr"}, {}, {}, {})
           A3 == Knows(st, {"s", "x", "arr"}, {}, {}, {})
           A4 == Knows(st, {"s", "x", "arr"}, {}, {}, {})
           A5 == Knows(st, {"s", "x", "arr"}, {}, {}, {})
           A6 == Knows(st, {}, {}, {}, {})
<1>7. Lead(texts, <<a1>>, A0, A1)
  BY <1>1, <1>3, <1>4, <1>5, <1>6, Numbers, HandleNames, LocalNames, LeadRead
<1>8. Lead(texts, <<a2>>, A1, A2)
  BY <1>1, <1>3, <1>4, <1>5, <1>6, Numbers, HandleNames, LocalNames, LeadLoad
<1>9. Lead(texts, <<a3>>, A2, A3)
  BY <1>1, <1>3, <1>4, <1>5, <1>6, Numbers, HandleNames, LocalNames, LeadLoad
<1>10. Lead(texts, a4, A3, A4)
  <2> DEFINE t == [i \in 1 .. P(c, 1).len - c.i |-> << Load("e", "s", c.i + i), Store("s", c.i + i - 1, "e") >>]
             I == Knows(st, {"s", "x", "arr"}, {}, {}, {})
  <2>1. ASSUME NEW i \in 1 .. P(c, 1).len - c.i PROVE Lead(texts, << Load("e", "s", c.i + i), Store("s", c.i + i - 1, "e") >>, I, I)
    <3> DEFINE b1 == Load("e", "s", c.i + i)
               b2 == Store("s", c.i + i - 1, "e")
               B0 == Knows(st, {"s", "x", "arr"}, {}, {}, {})
               B1 == Knows(st, {"s", "x", "arr"}, {}, {}, {})
    <3>1. Lead(texts, <<b1, b2>>, B0, B1)
      BY <1>1, <1>3, <1>4, <1>5, <1>6, Numbers, HandleNames, LocalNames, LeadShift
    <3>2. b1 \in Micro(texts) /\ b2 \in Micro(texts)
      <4>1. <<b1, b2>> \in Seq(Micro(texts))
        BY <3>1 DEF Lead
      <4> HIDE DEF b1, b2
      <4> QED BY <4>1
    <3> HIDE DEF b1, b2, B0, B1
    <3>3. << Load("e", "s", c.i + i), Store("s", c.i + i - 1, "e") >> = <<b1, b2>>
      BY DEF b1, b2
    <3> QED BY <3>1, <3>3 DEF I, B0, B1
  <2>2. \A i \in 1 .. P(c, 1).len - c.i : Lead(texts, t[i], I, I)
    BY <2>1
  <2>3. t = [i \in 1 .. P(c, 1).len - c.i |-> t[i]] /\ P(c, 1).len - c.i \in Nat
    BY <1>4
  <2>4. a4 = FlattenSeq(t)
    BY DEF Steps
  <2>5. A3 \subseteq I /\ I \subseteq A4
    BY KnowsLess
  <2> HIDE DEF t, I, a4, A3, A4
  <2>6. Lead(texts, FlattenSeq(t), I, I)
    BY <2>2, <2>3, LeadAll
  <2> QED BY <2>4, <2>5, <2>6, LeadWeaker
<1>11. Lead(texts, <<a5>>, A4, A5)
  BY <1>1, <1>3, <1>4, <1>5, <1>6, Numbers, HandleNames, LocalNames, LeadRests
<1>12. Lead(texts, <<a6>>, A5, A6)
  BY <1>1, <1>3, <1>4, <1>5, <1>6, Numbers, HandleNames, LocalNames, LeadRests
<1> HIDE DEF a1, a2, a3, a4, a5, a6, A0, A1, A2, A3, A4, A5, A6
<1>13. Lead(texts, <<a1, a2, a3>>, A0, A3)
  BY <1>7, <1>8, <1>9, Lead3, Zenon
<1>14. Lead(texts, <<a5, a6>>, A4, A6)
  BY <1>11, <1>12, Lead2, Zenon
<1>15. Lead(texts, <<a1, a2, a3>> \o a4, A0, A4)
  BY <1>13, <1>10, LeadThen
<1>16. Lead(texts, (<<a1, a2, a3>> \o a4) \o <<a5, a6>>, A0, A6)
  BY <1>15, <1>14, LeadThen
<1>17. remove_fn(c) = (<<a1, a2, a3>> \o a4) \o <<a5, a6>>
  BY DEF remove_fn, a1, a2, a3, a4, a5, a6
<1> QED BY <1>16, <1>17 DEF Idle, A0, A6

\* Reading an element.
LEMMA LeadElementAt ==
  ASSUME NEW texts, NEW st, NEW fs, NEW ys, NEW bs, NEW rs, NEW fs2, NEW ys2, NEW bs2, NEW x \in Locals, NEW r \in Handles,
         NEW f \in Fields, NEW i \in Fields,
         fs2 \subseteq fs \cup {"e", x}, ys2 \subseteq ys \ {"e", x}, bs2 \subseteq bs \ {"e", x}
  PROVE  Lead(texts, Element(x, r, f, i), Knows(st, fs, ys, bs, rs), Knows(st, fs2, ys2, bs2, {}))
<1> DEFINE s1 == Read("e", r)
           s2 == Load("e", "e", f)
           s3 == Load(x, "e", i)
           A == Knows(st, fs, ys, bs, rs)
           B == Knows(st, fs \cup {"e"}, ys \ {"e"}, bs \ {"e"}, {})
           C == Knows(st, fs2, ys2, bs2, {})
<1>1. Lead(texts, <<s1>>, A, B)
  BY LocalNames, LeadRead
<1>2. Lead(texts, <<s2>>, B, B)
  BY LocalNames, LeadLoad
<1>3. Lead(texts, <<s3>>, B, C)
  BY LocalNames, LeadLoad
<1> HIDE DEF s1, s2, s3, A, B, C
<1>4. Lead(texts, <<s1, s2, s3>>, A, C)
  BY <1>1, <1>2, <1>3, Lead3, Zenon
<1> QED BY <1>4 DEF Element, s1, s2, s3, A, C

LEMMA LeadNewIter ==
  ASSUME NEW texts, NEW st, NEW fs, "arr" \in fs, NEW r \in Handles, NEW len \in 0 .. NFields
  PROVE  Lead(texts, new_iter("it", r, len), Knows(st, fs, {}, {}, {}), Knows(st, {"it"}, {}, {}, {}))
<1> DEFINE s1 == Root(r, "arr")
           s2 == New("it", "Iter", len, None)
           s3 == Read("arr", r)
           s4 == Store("it", 1, "arr")
           s5 == SetCap("it", 0)
           s6 == Drop(r)
           A == Knows(st, fs, {}, {}, {})
           B == Knows(st, {"it"}, {"it"}, {}, {})
           C == Knows(st, {"it", "arr"}, {"it"}, {}, {})
           D == Knows(st, {"it"}, {}, {}, {})
<1>1. Lead(texts, <<s1>>, A, A)
  BY LocalNames, LeadRoot
<1>2. Lead(texts, <<s2>>, A, B)
  BY LocalNames, KindNames, LeadNew
<1>3. Lead(texts, <<s3>>, B, C)
  BY LocalNames, LeadRead
<1>4. Lead(texts, <<s4>>, C, D)
  BY Numbers, LocalNames, LeadStore
<1>5. Lead(texts, <<s5>>, D, D)
  BY LocalNames, LeadRests
<1>6. Lead(texts, <<s6>>, D, D)
  BY Numbers, LocalNames, LeadRests
<1> HIDE DEF s1, s2, s3, s4, s5, s6, A, B, C, D
<1>7. Lead(texts, <<s1, s2, s3, s4, s5, s6>>, A, D)
  BY <1>1, <1>2, <1>3, <1>4, <1>5, <1>6, Lead6, Zenon
<1> QED BY <1>7 DEF new_iter, s1, s2, s3, s4, s5, s6, A, D

LEMMA LeadPush ==
  ASSUME NEW texts, NEW c, Ready(texts, c), c.fn = "push", NEW st
  PROVE  Lead(texts, Push(c), Idle(st), Idle(st))
<1>1. Kind(c, 1) = "Array" /\ P(c, 1).len + 1 <= NFields
  BY Rights
<1>2. 1 <= Arity(c.fn) /\ 2 <= Arity(c.fn)
  BY DEF Arity
<1>3. c.a[1] \in Handles /\ P(c, 1).len \in 0 .. NFields /\ P(c, 1).cap \in Nat /\ c.a[2] \in Handles
  BY <1>1, <1>2, ArgumentTypes
<1>4. P(c, 1).len + 1 \in 0 .. NFields /\ P(c, 1).len + 1 \in Nat /\ P(c, 1).len + 1 \in Fields
  BY <1>1, <1>3, ReadyTypes, Numbers
<1> DEFINE a1 == Read("arr", c.a[1])
           a2 == IF P(c, 1).len = P(c, 1).cap THEN GrowArray(c.a[1], P(c, 1).len, P(c, 1).len) ELSE <<>>
           a3 == Load("s", "arr", 1)
           a4 == Read("v", c.a[2])
           a5 == Store("s", P(c, 1).len + 1, "v")
           a6 == Barrier("s", "v")
           a7 == SetLen("arr", P(c, 1).len + 1)
           A0 == Knows(st, {}, {}, {}, {})
           A1 == Knows(st, {"arr"}, {}, {}, {})
           A2 == Knows(st, {"arr"}, {}, {}, {})
           A3 == Knows(st, {"s", "arr"}, {}, {}, {})
           A4 == Knows(st, {"v", "s", "arr"}, {}, {}, {})
           A5 == Knows(st, {"v", "s", "arr"}, {}, {}, {})
           A6 == Knows(st, {}, {}, {}, {})
<1>5. Lead(texts, <<a1>>, A0, A1)
  BY <1>1, <1>3, <1>4, Numbers, HandleNames, LocalNames, LeadRead
<1>6. Lead(texts, a2, A1, A2)
  <2> DEFINE w == GrowArray(c.a[1], P(c, 1).len, P(c, 1).len)
  <2>1. Lead(texts, w, A1, Knows(st, {"arr", "s", "ns"}, {}, {}, {}))
    BY <1>3, Numbers, LeadGrowArray
  <2>2. Knows(st, {"arr", "s", "ns"}, {}, {}, {}) \subseteq A2
    BY KnowsLess
  <2>3. Lead(texts, <<>>, A1, A2)
    BY LeadNone
  <2>4. a2 = IF P(c, 1).len = P(c, 1).cap THEN w ELSE <<>>
    OBVIOUS
  <2> HIDE DEF w, a2, A1, A2
  <2>5. Lead(texts, w, A1, A2)
    BY <2>1, <2>2, LeadWeaker
  <2> QED BY <2>3, <2>4, <2>5
<1>7. Lead(texts, <<a3>>, A2, A3)
  BY <1>1, <1>3, <1>4, Numbers, HandleNames, LocalNames, LeadLoad
<1>8. Lead(texts, <<a4>>, A3, A4)
  BY <1>1, <1>3, <1>4, Numbers, HandleNames, LocalNames, LeadRead
<1>9. Lead(texts, <<a5, a6>>, A4, A5)
  BY <1>1, <1>3, <1>4, Numbers, HandleNames, LocalNames, LeadStoreBarrier
<1>10. Lead(texts, <<a7>>, A5, A6)
  BY <1>1, <1>3, <1>4, Numbers, HandleNames, LocalNames, LeadRests
<1>11. a5 \in Micro(texts) /\ a6 \in Micro(texts)
  <2>1. <<a5, a6>> \in Seq(Micro(texts))
    BY <1>9 DEF Lead
  <2> HIDE DEF a5, a6
  <2> QED BY <2>1
<1> HIDE DEF a1, a2, a3, a4, a5, a6, a7, A0, A1, A2, A3, A4, A5, A6
<1>12. a1 \in Micro(texts) /\ a3 \in Micro(texts) /\ a4 \in Micro(texts) /\ a7 \in Micro(texts)
  BY <1>5, <1>7, <1>8, <1>10, LeadElement
<1>13. Lead(texts, <<a3, a4>>, A2, A4)
  BY <1>7, <1>8, Lead2, Zenon
<1>14. <<a5, a6>> \o <<a7>> = <<a5, a6, a7>>
  BY <1>11, <1>12, Tuple3, Zenon
<1>15. Lead(texts, <<a5, a6, a7>>, A4, A6)
  BY <1>9, <1>10, <1>14, LeadThen
<1>16. <<a3, a4, a5, a6, a7>> = <<a3, a4>> \o <<a5, a6, a7>>
  BY <1>11, <1>12
<1>17. Lead(texts, <<a3, a4, a5, a6, a7>>, A2, A6)
  BY <1>13, <1>15, <1>16, LeadThen
<1>18. Lead(texts, <<a1>> \o a2, A0, A2)
  BY <1>5, <1>6, LeadThen
<1>19. Lead(texts, (<<a1>> \o a2) \o <<a3, a4, a5, a6, a7>>, A0, A6)
  BY <1>18, <1>17, LeadThen
<1>20. Push(c) = (<<a1>> \o a2) \o <<a3, a4, a5, a6, a7>>
  BY DEF Push, a1, a2, a3, a4, a5, a6, a7
<1> QED BY <1>19, <1>20 DEF Idle, A0, A6

LEMMA LeadInsert ==
  ASSUME NEW texts, NEW c, Ready(texts, c), c.fn = "insert", NEW st
  PROVE  Lead(texts, insert_fn(c), Idle(st), Idle(st))
<1>1. Kind(c, 1) = "Array" /\ P(c, 1).len + 1 <= NFields /\ c.i \in 1 .. P(c, 1).len + 1
  BY Rights
<1>2. 1 <= Arity(c.fn) /\ 2 <= Arity(c.fn)
  BY DEF Arity
<1>3. c.a[1] \in Handles /\ P(c, 1).len \in 0 .. NFields /\ P(c, 1).cap \in Nat /\ c.a[2] \in Handles
  BY <1>1, <1>2, ArgumentTypes
<1>4. P(c, 1).len + 1 \in 0 .. NFields /\ P(c, 1).len + 1 \in Nat /\ P(c, 1).len + 1 \in Fields
  BY <1>1, <1>3, ReadyTypes, Numbers
<1>5. c.i \in Fields /\ P(c, 1).len + 1 - c.i \in Nat
  <2>1. c.i \in 1 .. P(c, 1).len + 1 /\ P(c, 1).len \in Int /\ P(c, 1).len + 1 <= NFields /\ NFields \in Int
    BY <1>1, <1>3, Numbers
  <2> QED BY ONLY <2>1
<1>6. \A k \in 1 .. P(c, 1).len + 1 - c.i : P(c, 1).len + 1 - k \in Fields /\ P(c, 1).len + 2 - k \in Fields
  <2>1. c.i \in Int /\ c.i >= 1 /\ P(c, 1).len \in Int /\ P(c, 1).len + 1 <= NFields /\ NFields \in Int
    BY <1>1, <1>3, <1>5, Numbers
  <2> QED BY ONLY <2>1
<1> DEFINE a1 == Read("arr", c.a[1])
           a2 == IF P(c, 1).len = P(c, 1).cap THEN GrowArray(c.a[1], P(c, 1).len, P(c, 1).len) ELSE <<>>
           a3 == Read("arr", c.a[1])
           a4 == Read("v", c.a[2])
           a5 == Load("s", "arr", 1)
           a6 == Steps(P(c, 1).len + 1 - c.i, LAMBDA k : << Load("e", "s", P(c, 1).len + 1 - k), Store("s", P(c, 1).len + 2 - k, "e") >>)
           a7 == Store("s", c.i, "v")
           a8 == Barrier("s", "v")
           a9 == SetLen("arr", P(c, 1).len + 1)
           A0 == Knows(st, {}, {}, {}, {})
           A1 == Knows(st, {"arr"}, {}, {}, {})
           A2 == Knows(st, {"arr"}, {}, {}, {})
           A3 == Knows(st, {"arr"}, {}, {}, {})
           A4 == Knows(st, {"v", "arr"}, {}, {}, {})
           A5 == Knows(st, {"v", "s", "arr"}, {}, {}, {})
           A6 == Knows(st, {"v", "s", "arr"}, {}, {}, {})
           A7 == Knows(st, {"v", "s", "arr"}, {}, {}, {})
           A8 == Knows(st, {}, {}, {}, {})
<1>7. Lead(texts, <<a1>>, A0, A1)
  BY <1>1, <1>3, <1>4, <1>5, <1>6, Numbers, HandleNames, LocalNames, LeadRead
<1>8. Lead(texts, a2, A1, A2)
  <2> DEFINE w == GrowArray(c.a[1], P(c, 1).len, P(c, 1).len)
  <2>1. Lead(texts, w, A1, Knows(st, {"arr", "s", "ns"}, {}, {}, {}))
    BY <1>3, Numbers, LeadGrowArray
  <2>2. Knows(st, {"arr", "s", "ns"}, {}, {}, {}) \subseteq A2
    BY KnowsLess
  <2>3. Lead(texts, <<>>, A1, A2)
    BY LeadNone
  <2>4. a2 = IF P(c, 1).len = P(c, 1).cap THEN w ELSE <<>>
    OBVIOUS
  <2> HIDE DEF w, a2, A1, A2
  <2>5. Lead(texts, w, A1, A2)
    BY <2>1, <2>2, LeadWeaker
  <2> QED BY <2>3, <2>4, <2>5
<1>9. Lead(texts, <<a3>>, A2, A3)
  BY <1>1, <1>3, <1>4, <1>5, <1>6, Numbers, HandleNames, LocalNames, LeadRead
<1>10. Lead(texts, <<a4>>, A3, A4)
  BY <1>1, <1>3, <1>4, <1>5, <1>6, Numbers, HandleNames, LocalNames, LeadRead
<1>11. Lead(texts, <<a5>>, A4, A5)
  BY <1>1, <1>3, <1>4, <1>5, <1>6, Numbers, HandleNames, LocalNames, LeadLoad
<1>12. Lead(texts, a6, A5, A6)
  <2> DEFINE t == [i \in 1 .. (P(c, 1).len + 1 - c.i) |-> << Load("e", "s", P(c, 1).len + 1 - i), Store("s", P(c, 1).len + 2 - i, "e") >>]
             I == Knows(st, {"v", "s", "arr"}, {}, {}, {})
  <2>1. ASSUME NEW i \in 1 .. (P(c, 1).len + 1 - c.i) PROVE Lead(texts, << Load("e", "s", P(c, 1).len + 1 - i), Store("s", P(c, 1).len + 2 - i, "e") >>, I, I)
    <3> DEFINE b1 == Load("e", "s", P(c, 1).len + 1 - i)
               b2 == Store("s", P(c, 1).len + 2 - i, "e")
               B0 == Knows(st, {"v", "s", "arr"}, {}, {}, {})
               B1 == Knows(st, {"v", "s", "arr"}, {}, {}, {})
    <3>1. Lead(texts, <<b1, b2>>, B0, B1)
      BY <1>1, <1>3, <1>4, <1>5, <1>6, Numbers, HandleNames, LocalNames, LeadShift
    <3>2. b1 \in Micro(texts) /\ b2 \in Micro(texts)
      <4>1. <<b1, b2>> \in Seq(Micro(texts))
        BY <3>1 DEF Lead
      <4> HIDE DEF b1, b2
      <4> QED BY <4>1
    <3> HIDE DEF b1, b2, B0, B1
    <3>3. << Load("e", "s", P(c, 1).len + 1 - i), Store("s", P(c, 1).len + 2 - i, "e") >> = <<b1, b2>>
      BY DEF b1, b2
    <3> QED BY <3>1, <3>3 DEF I, B0, B1
  <2>2. \A i \in 1 .. (P(c, 1).len + 1 - c.i) : Lead(texts, t[i], I, I)
    BY <2>1
  <2>3. t = [i \in 1 .. (P(c, 1).len + 1 - c.i) |-> t[i]] /\ (P(c, 1).len + 1 - c.i) \in Nat
    BY <1>5
  <2>4. a6 = FlattenSeq(t)
    BY DEF Steps
  <2>5. A5 \subseteq I /\ I \subseteq A6
    BY KnowsLess
  <2> HIDE DEF t, I, a6, A5, A6
  <2>6. Lead(texts, FlattenSeq(t), I, I)
    BY <2>2, <2>3, LeadAll
  <2> QED BY <2>4, <2>5, <2>6, LeadWeaker
<1>13. Lead(texts, <<a7, a8>>, A6, A7)
  BY <1>1, <1>3, <1>4, <1>5, <1>6, Numbers, HandleNames, LocalNames, LeadStoreBarrier
<1>14. Lead(texts, <<a9>>, A7, A8)
  BY <1>1, <1>3, <1>4, <1>5, <1>6, Numbers, HandleNames, LocalNames, LeadRests
<1>15. a7 \in Micro(texts) /\ a8 \in Micro(texts)
  <2>1. <<a7, a8>> \in Seq(Micro(texts))
    BY <1>13 DEF Lead
  <2> HIDE DEF a7, a8
  <2> QED BY <2>1
<1> HIDE DEF a1, a2, a3, a4, a5, a6, a7, a8, a9, A0, A1, A2, A3, A4, A5, A6, A7, A8
<1>16. a1 \in Micro(texts) /\ a3 \in Micro(texts) /\ a4 \in Micro(texts) /\ a5 \in Micro(texts) /\ a9 \in Micro(texts)
  BY <1>7, <1>9, <1>10, <1>11, <1>14, LeadElement
<1>17. Lead(texts, <<a3, a4, a5>>, A2, A5)
  BY <1>9, <1>10, <1>11, Lead3, Zenon
<1>18. <<a7, a8>> \o <<a9>> = <<a7, a8, a9>>
  BY <1>15, <1>16, Tuple3, Zenon
<1>19. Lead(texts, <<a7, a8, a9>>, A6, A8)
  BY <1>13, <1>14, <1>18, LeadThen
<1>20. Lead(texts, <<a1>> \o a2, A0, A2)
  BY <1>7, <1>8, LeadThen
<1>21. Lead(texts, (<<a1>> \o a2) \o <<a3, a4, a5>>, A0, A5)
  BY <1>20, <1>17, LeadThen
<1>22. Lead(texts, ((<<a1>> \o a2) \o <<a3, a4, a5>>) \o a6, A0, A6)
  BY <1>21, <1>12, LeadThen
<1>23. Lead(texts, (((<<a1>> \o a2) \o <<a3, a4, a5>>) \o a6) \o <<a7, a8, a9>>, A0, A8)
  BY <1>22, <1>19, LeadThen
<1>24. insert_fn(c) = (((<<a1>> \o a2) \o <<a3, a4, a5>>) \o a6) \o <<a7, a8, a9>>
  BY DEF insert_fn, a1, a2, a3, a4, a5, a6, a7, a8, a9
<1> QED BY <1>23, <1>24 DEF Idle, A0, A8

LEMMA LeadSetProperty ==
  ASSUME NEW texts, NEW c, Ready(texts, c), c.fn = "set", NEW st
  PROVE  Lead(texts, SetProperty(c), Idle(st), Idle(st))
<1>1. Kind(c, 1) = "Map" /\ (c.key \in ToSet(Keys(c, 1)) \/ P(c, 1).len + 1 <= NFields)
  BY Rights
<1>2. 1 <= Arity(c.fn) /\ 2 <= Arity(c.fn)
  BY DEF Arity
<1>3. c.a[1] \in Handles /\ P(c, 1).len \in 0 .. NFields /\ P(c, 1).cap \in Nat /\ c.a[2] \in Handles
  BY <1>1, <1>2, ArgumentTypes
<1>4. c.key \in texts
  BY <1>1, <1>3, ReadyTypes, Numbers
<1>5. Len(Keys(c, 1)) \in 0 .. NFields /\ DOMAIN Keys(c, 1) = 1 .. Len(Keys(c, 1))
      /\ ((\E j \in DOMAIN Keys(c, 1) : Keys(c, 1)[j] = c.key) \/ Len(Keys(c, 1)) + 1 <= NFields)
  <2>1. Len(Keys(c, 1)) = P(c, 1).len /\ DOMAIN Keys(c, 1) = 1 .. P(c, 1).len
    BY <1>1, <1>2, ArgumentTypes
  <2> QED BY <1>1, <1>3, <2>1 DEF ToSet
<1> DEFINE a1 == Read("m", c.a[1])
           a2 == Read("v", c.a[2])
           a3 == map_put(Keys(c, 1), P(c, 1).cap, c.key, H(1))
           A0 == Knows(st, {}, {}, {}, {})
           A1 == Knows(st, {"m"}, {}, {}, {})
           A2 == Knows(st, {"m", "v"}, {}, {}, {})
           A3 == Knows(st, {}, {}, {}, {})
<1>6. Lead(texts, <<a1>>, A0, A1)
  BY <1>1, <1>3, <1>4, <1>5, Numbers, HandleNames, LocalNames, LeadRead
<1>7. Lead(texts, <<a2>>, A1, A2)
  BY <1>1, <1>3, <1>4, <1>5, Numbers, HandleNames, LocalNames, LeadRead
<1>8. Lead(texts, a3, A2, A3)
  <2> DEFINE ks == Keys(c, 1)
             cap == P(c, 1).cap
  <2>1. Len(ks) \in 0 .. NFields /\ DOMAIN ks = 1 .. Len(ks) /\ cap \in Nat
        /\ ((\E j \in DOMAIN ks : ks[j] = c.key) \/ Len(ks) + 1 <= NFields)
    BY <1>3, <1>5
  <2> HIDE DEF ks, cap
  <2>2. Lead(texts, map_put(ks, cap, c.key, H(1)), Knows(st, {"m", "v"}, {}, {}, {}), Knows(st, {}, {}, {}, {}))
    BY <1>4, <2>1, HandleNames, LeadPut
  <2> QED BY <2>2 DEF ks, cap
<1> HIDE DEF a1, a2, a3, A0, A1, A2, A3
<1>9. Lead(texts, <<a1, a2>>, A0, A2)
  BY <1>6, <1>7, Lead2, Zenon
<1>10. Lead(texts, <<a1, a2>> \o a3, A0, A3)
  BY <1>9, <1>8, LeadThen
<1>11. SetProperty(c) = <<a1, a2>> \o a3
  BY DEF SetProperty, a1, a2, a3
<1> QED BY <1>10, <1>11 DEF Idle, A0, A3

\* Where a key of the map is.
KeyAt(c) == CHOOSE i \in 1 .. P(c, 1).len : Keys(c, 1)[i] = c.key

LEMMA LeadRemoveKey ==
  ASSUME NEW texts, NEW c, Ready(texts, c), c.fn = "remove_key", NEW st
  PROVE  Lead(texts, remove_key_fn(c), Idle(st), Idle(st))
<1>1. Kind(c, 1) = "Map" /\ c.key \in ToSet(Keys(c, 1))
  BY Rights
<1>2. 1 <= Arity(c.fn)
  BY DEF Arity
<1>3. c.a[1] \in Handles /\ P(c, 1).len \in 0 .. NFields /\ P(c, 1).cap \in Nat
  BY <1>1, <1>2, ArgumentTypes
<1>4. KeyAt(c) \in 1 .. P(c, 1).len
  <2>1. DOMAIN Keys(c, 1) = 1 .. P(c, 1).len
    BY <1>1, <1>2, ArgumentTypes
  <2>2. \E i \in 1 .. P(c, 1).len : Keys(c, 1)[i] = c.key
    BY <1>1, <2>1 DEF ToSet
  <2> QED BY <2>2 DEF KeyAt
<1>5. P(c, 1).len - 1 \in 0 .. NFields /\ P(c, 1).len - 1 \in Nat /\ P(c, 1).len - KeyAt(c) \in Nat
  <2>1. KeyAt(c) \in 1 .. P(c, 1).len /\ P(c, 1).len \in Int /\ P(c, 1).len <= NFields /\ NFields \in Int
    BY <1>3, <1>4, ReadyTypes, Numbers
  <2> QED BY ONLY <2>1
<1>6. \A k \in 1 .. P(c, 1).len - KeyAt(c) : KeyAt(c) + k \in Fields /\ KeyAt(c) + k - 1 \in Fields
  <2>1. KeyAt(c) \in 1 .. P(c, 1).len /\ P(c, 1).len \in Int /\ P(c, 1).len <= NFields /\ NFields \in Int
    BY <1>3, <1>4, ReadyTypes, Numbers
  <2> QED BY ONLY <2>1
<1> DEFINE a1 == Read("m", c.a[1])
           a2 == Load("s", "m", 1)
           a3 == Load("d", "m", 2)
           a4 == Steps(P(c, 1).len - KeyAt(c), LAMBDA k : << Load("e", "s", KeyAt(c) + k), Store("s", KeyAt(c) + k - 1, "e"), Load("e", "d", KeyAt(c) + k), Store("d", KeyAt(c) + k - 1, "e") >>)
           a5 == SetLen("m", P(c, 1).len - 1)
           A0 == Knows(st, {}, {}, {}, {})
           A1 == Knows(st, {"m"}, {}, {}, {})
           A2 == Knows(st, {"m", "s"}, {}, {}, {})
           A3 == Knows(st, {"m", "s", "d"}, {}, {}, {})
           A4 == Knows(st, {"m", "s", "d"}, {}, {}, {})
           A5 == Knows(st, {}, {}, {}, {})
<1>7. Lead(texts, <<a1>>, A0, A1)
  BY <1>1, <1>3, <1>4, <1>5, <1>6, Numbers, HandleNames, LocalNames, LeadRead
<1>8. Lead(texts, <<a2>>, A1, A2)
  BY <1>1, <1>3, <1>4, <1>5, <1>6, Numbers, HandleNames, LocalNames, LeadLoad
<1>9. Lead(texts, <<a3>>, A2, A3)
  BY <1>1, <1>3, <1>4, <1>5, <1>6, Numbers, HandleNames, LocalNames, LeadLoad
<1>10. Lead(texts, a4, A3, A4)
  <2> DEFINE t == [i \in 1 .. (P(c, 1).len - KeyAt(c)) |-> << Load("e", "s", KeyAt(c) + i), Store("s", KeyAt(c) + i - 1, "e"), Load("e", "d", KeyAt(c) + i), Store("d", KeyAt(c) + i - 1, "e") >>]
             I == Knows(st, {"m", "s", "d"}, {}, {}, {})
  <2>1. ASSUME NEW i \in 1 .. (P(c, 1).len - KeyAt(c)) PROVE Lead(texts, << Load("e", "s", KeyAt(c) + i), Store("s", KeyAt(c) + i - 1, "e"), Load("e", "d", KeyAt(c) + i), Store("d", KeyAt(c) + i - 1, "e") >>, I, I)
    <3> DEFINE b1 == Load("e", "s", KeyAt(c) + i)
               b2 == Store("s", KeyAt(c) + i - 1, "e")
               b3 == Load("e", "d", KeyAt(c) + i)
               b4 == Store("d", KeyAt(c) + i - 1, "e")
               B0 == Knows(st, {"m", "s", "d"}, {}, {}, {})
               B1 == Knows(st, {"m", "s", "d", "e"}, {}, {}, {})
               B2 == Knows(st, {"m", "s", "d"}, {}, {}, {})
    <3>1. Lead(texts, <<b1, b2>>, B0, B1)
      BY <1>1, <1>3, <1>4, <1>5, <1>6, Numbers, HandleNames, LocalNames, LeadShift
    <3>2. Lead(texts, <<b3, b4>>, B1, B2)
      BY <1>1, <1>3, <1>4, <1>5, <1>6, Numbers, HandleNames, LocalNames, LeadShift
    <3>3. b1 \in Micro(texts) /\ b2 \in Micro(texts) /\ b3 \in Micro(texts) /\ b4 \in Micro(texts)
      <4>1. <<b1, b2>> \in Seq(Micro(texts)) /\ <<b3, b4>> \in Seq(Micro(texts))
        BY <3>1, <3>2 DEF Lead
      <4> HIDE DEF b1, b2, b3, b4
      <4> QED BY <4>1
    <3> HIDE DEF b1, b2, b3, b4, B0, B1, B2
    <3>4. <<b1, b2, b3, b4>> = <<b1, b2>> \o <<b3, b4>>
      BY <3>3
    <3>5. Lead(texts, <<b1, b2, b3, b4>>, B0, B2)
      BY <3>1, <3>2, <3>4, LeadThen
    <3>6. << Load("e", "s", KeyAt(c) + i), Store("s", KeyAt(c) + i - 1, "e"), Load("e", "d", KeyAt(c) + i), Store("d", KeyAt(c) + i - 1, "e") >> = <<b1, b2, b3, b4>>
      BY DEF b1, b2, b3, b4
    <3> QED BY <3>5, <3>6 DEF I, B0, B2
  <2>2. \A i \in 1 .. (P(c, 1).len - KeyAt(c)) : Lead(texts, t[i], I, I)
    BY <2>1
  <2>3. t = [i \in 1 .. (P(c, 1).len - KeyAt(c)) |-> t[i]] /\ (P(c, 1).len - KeyAt(c)) \in Nat
    BY <1>5
  <2>4. a4 = FlattenSeq(t)
    BY DEF Steps
  <2>5. A3 \subseteq I /\ I \subseteq A4
    BY KnowsLess
  <2> HIDE DEF t, I, a4, A3, A4
  <2>6. Lead(texts, FlattenSeq(t), I, I)
    BY <2>2, <2>3, LeadAll
  <2> QED BY <2>4, <2>5, <2>6, LeadWeaker
<1>11. Lead(texts, <<a5>>, A4, A5)
  BY <1>1, <1>3, <1>4, <1>5, <1>6, Numbers, HandleNames, LocalNames, LeadRests
<1> HIDE DEF a1, a2, a3, a4, a5, A0, A1, A2, A3, A4, A5
<1>12. Lead(texts, <<a1, a2, a3>>, A0, A3)
  BY <1>7, <1>8, <1>9, Lead3, Zenon
<1>13. Lead(texts, <<a1, a2, a3>> \o a4, A0, A4)
  BY <1>12, <1>10, LeadThen
<1>14. Lead(texts, (<<a1, a2, a3>> \o a4) \o <<a5>>, A0, A5)
  BY <1>13, <1>11, LeadThen
<1>15. remove_key_fn(c) = (<<a1, a2, a3>> \o a4) \o <<a5>>
  BY DEF remove_key_fn, KeyAt, a1, a2, a3, a4, a5
<1> QED BY <1>14, <1>15 DEF Idle, A0, A5

LEMMA LeadSlice ==
  ASSUME NEW texts, NEW c, Ready(texts, c), c.fn = "slice", NEW st
  PROVE  Lead(texts, slice_fn(c), Idle(st), Idle(st))
<1>1. Kind(c, 1) = "Array" /\ c.i >= 1 /\ c.i + c.n - 1 <= P(c, 1).len
  BY Rights
<1>2. 1 <= Arity(c.fn)
  BY DEF Arity
<1>3. c.a[1] \in Handles /\ P(c, 1).len \in 0 .. NFields /\ P(c, 1).cap \in Nat
  BY <1>1, <1>2, ArgumentTypes
<1>4. c.n \in 0 .. NFields /\ c.n \in Nat
  <2>1. c.i \in Int /\ c.i >= 1 /\ c.n \in Nat /\ c.i + c.n - 1 <= P(c, 1).len /\ P(c, 1).len \in Int /\ P(c, 1).len <= NFields /\ NFields \in Int
    BY <1>1, <1>3, ReadyTypes, Numbers
  <2> QED BY ONLY <2>1
<1>5. \A j \in 1 .. c.n : j \in Fields /\ c.i + j - 1 \in Fields
  <2>1. c.i \in Int /\ c.i >= 1 /\ c.n \in Nat /\ c.i + c.n - 1 <= P(c, 1).len /\ P(c, 1).len \in Int /\ P(c, 1).len <= NFields /\ NFields \in Int
    BY <1>1, <1>3, ReadyTypes, Numbers
  <2> QED BY ONLY <2>1
<1>6. c.dst \in 0 .. NRegs /\ c.dst \in Nat
  BY <1>1, <1>3, <1>4, <1>5, ReadyTypes, Numbers
<1> DEFINE a1 == new_array("x", H(1), c.n)
           a2 == Read("arr", c.a[1])
           a3 == Load("s", "arr", 1)
           a4 == Load("d", "x", 1)
           a5 == Steps(c.n, LAMBDA j : << Load("e", "s", c.i + j - 1), Store("d", j, "e") >>)
           a6 == Ret(c.dst, "x")
           A0 == Knows(st, {}, {}, {}, {})
           A1 == Knows(st, {"s", "x"}, {"x"}, {"x"}, {})
           A2 == Knows(st, {"s", "x", "arr"}, {"x"}, {"x"}, {})
           A3 == Knows(st, {"s", "x", "arr"}, {"x"}, {"x"}, {})
           A4 == Knows(st, {"s", "d", "x", "arr"}, {"d", "x"}, {"x"}, {})
           A5 == Knows(st, {"s", "d", "x"}, {"d"}, {}, {})
           A6 == Knows(st, {}, {}, {}, {})
<1>7. Lead(texts, a1, A0, A1)
  BY <1>4, LocalNames, HandleNames, LeadNewArray
<1>8. Lead(texts, <<a2>>, A1, A2)
  BY <1>1, <1>3, <1>4, <1>5, <1>6, Numbers, HandleNames, LocalNames, LeadRead
<1>9. Lead(texts, <<a3>>, A2, A3)
  BY <1>1, <1>3, <1>4, <1>5, <1>6, Numbers, HandleNames, LocalNames, LeadLoad
<1>10. Lead(texts, <<a4>>, A3, A4)
  BY <1>1, <1>3, <1>4, <1>5, <1>6, Numbers, HandleNames, LocalNames, LeadLoad
<1>11. Lead(texts, a5, A4, A5)
  <2> DEFINE t == [i \in 1 .. c.n |-> << Load("e", "s", c.i + i - 1), Store("d", i, "e") >>]
             I == Knows(st, {"s", "d", "x"}, {"d"}, {}, {})
  <2>1. ASSUME NEW i \in 1 .. c.n PROVE Lead(texts, << Load("e", "s", c.i + i - 1), Store("d", i, "e") >>, I, I)
    <3> DEFINE b1 == Load("e", "s", c.i + i - 1)
               b2 == Store("d", i, "e")
               B0 == Knows(st, {"s", "d", "x"}, {"d"}, {}, {})
               B1 == Knows(st, {"s", "d", "e", "x"}, {"d"}, {}, {})
               B2 == Knows(st, {"s", "d", "x"}, {"d"}, {}, {})
    <3>1. Lead(texts, <<b1>>, B0, B1)
      BY <1>1, <1>3, <1>4, <1>5, <1>6, Numbers, HandleNames, LocalNames, LeadLoad
    <3>2. Lead(texts, <<b2>>, B1, B2)
      BY <1>1, <1>3, <1>4, <1>5, <1>6, Numbers, HandleNames, LocalNames, LeadStore
    <3> HIDE DEF b1, b2, B0, B1, B2
    <3>3. Lead(texts, <<b1, b2>>, B0, B2)
      BY <3>1, <3>2, Lead2, Zenon
    <3>4. << Load("e", "s", c.i + i - 1), Store("d", i, "e") >> = <<b1, b2>>
      BY DEF b1, b2
    <3> QED BY <3>3, <3>4 DEF I, B0, B2
  <2>2. \A i \in 1 .. c.n : Lead(texts, t[i], I, I)
    BY <2>1
  <2>3. t = [i \in 1 .. c.n |-> t[i]] /\ c.n \in Nat
    BY <1>4
  <2>4. a5 = FlattenSeq(t)
    BY DEF Steps
  <2>5. A4 \subseteq I /\ I \subseteq A5
    BY KnowsLess
  <2> HIDE DEF t, I, a5, A4, A5
  <2>6. Lead(texts, FlattenSeq(t), I, I)
    BY <2>2, <2>3, LeadAll
  <2> QED BY <2>4, <2>5, <2>6, LeadWeaker
<1>12. Lead(texts, <<a6>>, A5, A6)
  BY <1>1, <1>3, <1>4, <1>5, <1>6, Numbers, HandleNames, LocalNames, LeadRests
<1> HIDE DEF a1, a2, a3, a4, a5, a6, A0, A1, A2, A3, A4, A5, A6
<1>13. Lead(texts, <<a2, a3, a4>>, A1, A4)
  BY <1>8, <1>9, <1>10, Lead3, Zenon
<1>14. Lead(texts, a1 \o <<a2, a3, a4>>, A0, A4)
  BY <1>7, <1>13, LeadThen
<1>15. Lead(texts, (a1 \o <<a2, a3, a4>>) \o a5, A0, A5)
  BY <1>14, <1>11, LeadThen
<1>16. Lead(texts, ((a1 \o <<a2, a3, a4>>) \o a5) \o <<a6>>, A0, A6)
  BY <1>15, <1>12, LeadThen
<1>17. slice_fn(c) = ((a1 \o <<a2, a3, a4>>) \o a5) \o <<a6>>
  BY DEF slice_fn, a1, a2, a3, a4, a5, a6
<1> QED BY <1>16, <1>17 DEF Idle, A0, A6

LEMMA LeadFill ==
  ASSUME NEW texts, NEW c, Ready(texts, c), c.fn = "fill", NEW st
  PROVE  Lead(texts, fill_fn(c), Idle(st), Idle(st))
<1>1. c.n <= NFields
  BY Rights
<1>2. 1 <= Arity(c.fn)
  BY DEF Arity
<1>3. c.a[1] \in Handles
  BY <1>1, <1>2, ArgumentTypes
<1>4. c.n \in 0 .. NFields /\ c.n \in Nat /\ \A j \in 1 .. c.n : j \in Fields
  BY <1>1, <1>3, ReadyTypes, Numbers
<1>5. c.dst \in 0 .. NRegs /\ c.dst \in Nat
  BY <1>1, <1>3, <1>4, ReadyTypes, Numbers
<1> DEFINE a1 == new_array("x", H(1), c.n)
           a2 == Read("v", c.a[1])
           a3 == Load("d", "x", 1)
           a4 == Steps(c.n, LAMBDA j : << Store("d", j, "v") >>)
           a5 == Barrier("d", "v")
           a6 == Ret(c.dst, "x")
           A0 == Knows(st, {}, {}, {}, {})
           A1 == Knows(st, {"s", "x"}, {"x"}, {"x"}, {})
           A2 == Knows(st, {"v", "s", "x"}, {"x"}, {"x"}, {})
           A3 == Knows(st, {"v", "s", "d", "x"}, {"d", "x"}, {"x"}, {})
           A4 == Knows(st, {"v", "d", "x"}, {"d"}, {}, {})
           A5 == Knows(st, {"v", "d", "x"}, {}, {}, {})
           A6 == Knows(st, {}, {}, {}, {})
<1>6. Lead(texts, a1, A0, A1)
  BY <1>4, LocalNames, HandleNames, LeadNewArray
<1>7. Lead(texts, <<a2>>, A1, A2)
  BY <1>1, <1>3, <1>4, <1>5, Numbers, HandleNames, LocalNames, LeadRead
<1>8. Lead(texts, <<a3>>, A2, A3)
  BY <1>1, <1>3, <1>4, <1>5, Numbers, HandleNames, LocalNames, LeadLoad
<1>9. Lead(texts, a4, A3, A4)
  <2> DEFINE t == [i \in 1 .. c.n |-> << Store("d", i, "v") >>]
             I == Knows(st, {"v", "d", "x"}, {"d"}, {}, {})
  <2>1. ASSUME NEW i \in 1 .. c.n PROVE Lead(texts, << Store("d", i, "v") >>, I, I)
    <3> DEFINE b1 == Store("d", i, "v")
               B0 == Knows(st, {"v", "d", "x"}, {"d"}, {}, {})
               B1 == Knows(st, {"v", "d", "x"}, {"d"}, {}, {})
    <3>1. Lead(texts, <<b1>>, B0, B1)
      BY <1>1, <1>3, <1>4, <1>5, Numbers, HandleNames, LocalNames, LeadStore
    <3> HIDE DEF b1, B0, B1
    <3>2. << Store("d", i, "v") >> = <<b1>>
      BY DEF b1
    <3> QED BY <3>1, <3>2 DEF I, B0, B1
  <2>2. \A i \in 1 .. c.n : Lead(texts, t[i], I, I)
    BY <2>1
  <2>3. t = [i \in 1 .. c.n |-> t[i]] /\ c.n \in Nat
    BY <1>4
  <2>4. a4 = FlattenSeq(t)
    BY DEF Steps
  <2>5. A3 \subseteq I /\ I \subseteq A4
    BY KnowsLess
  <2> HIDE DEF t, I, a4, A3, A4
  <2>6. Lead(texts, FlattenSeq(t), I, I)
    BY <2>2, <2>3, LeadAll
  <2> QED BY <2>4, <2>5, <2>6, LeadWeaker
<1>10. Lead(texts, <<a5>>, A4, A5)
  BY <1>1, <1>3, <1>4, <1>5, Numbers, HandleNames, LocalNames, LeadBarrier
<1>11. Lead(texts, <<a6>>, A5, A6)
  BY <1>1, <1>3, <1>4, <1>5, Numbers, HandleNames, LocalNames, LeadRests
<1> HIDE DEF a1, a2, a3, a4, a5, a6, A0, A1, A2, A3, A4, A5, A6
<1>12. Lead(texts, <<a2, a3>>, A1, A3)
  BY <1>7, <1>8, Lead2, Zenon
<1>13. Lead(texts, <<a5, a6>>, A4, A6)
  BY <1>10, <1>11, Lead2, Zenon
<1>14. Lead(texts, a1 \o <<a2, a3>>, A0, A3)
  BY <1>6, <1>12, LeadThen
<1>15. Lead(texts, (a1 \o <<a2, a3>>) \o a4, A0, A4)
  BY <1>14, <1>9, LeadThen
<1>16. Lead(texts, ((a1 \o <<a2, a3>>) \o a4) \o <<a5, a6>>, A0, A6)
  BY <1>15, <1>13, LeadThen
<1>17. fill_fn(c) = ((a1 \o <<a2, a3>>) \o a4) \o <<a5, a6>>
  BY DEF fill_fn, a1, a2, a3, a4, a5, a6
<1> QED BY <1>16, <1>17 DEF Idle, A0, A6

LEMMA LeadConcat ==
  ASSUME NEW texts, NEW c, Ready(texts, c), c.fn = "concat_arr", NEW st
  PROVE  Lead(texts, concat_arr_fn(c), Idle(st), Idle(st))
<1>1. Kind(c, 1) = "Array" /\ Kind(c, 2) = "Array" /\ P(c, 1).len + P(c, 2).len <= NFields
  BY Rights
<1>2. 1 <= Arity(c.fn) /\ 2 <= Arity(c.fn)
  BY DEF Arity
<1>3. c.a[1] \in Handles /\ P(c, 1).len \in 0 .. NFields /\ P(c, 1).cap \in Nat /\ c.a[2] \in Handles /\ P(c, 2).len \in 0 .. NFields /\ P(c, 2).cap \in Nat
  BY <1>1, <1>2, ArgumentTypes
<1>4. P(c, 1).len + P(c, 2).len \in 0 .. NFields /\ P(c, 1).len \in Nat /\ P(c, 2).len \in Nat
  BY <1>1, <1>3, ReadyTypes, Numbers
<1>5. (\A j \in 1 .. P(c, 1).len : j \in Fields) /\ \A j \in 1 .. P(c, 2).len : j \in Fields /\ P(c, 1).len + j \in Fields
  <2>1. P(c, 1).len \in Nat /\ P(c, 2).len \in Nat /\ P(c, 1).len + P(c, 2).len <= NFields /\ NFields \in Int
    BY <1>1, <1>4, ReadyTypes, Numbers
  <2> QED BY ONLY <2>1
<1>6. c.dst \in 0 .. NRegs /\ c.dst \in Nat
  BY <1>1, <1>3, <1>4, <1>5, ReadyTypes, Numbers
<1> DEFINE a1 == new_array("x", H(1), P(c, 1).len + P(c, 2).len)
           a2 == Load("d", "x", 1)
           a3 == Steps(P(c, 1).len, LAMBDA j : Element("v", c.a[1], 1, j) \o << Store("d", j, "v"), Barrier("d", "v") >>)
           a4 == Steps(P(c, 2).len, LAMBDA j : Element("v", c.a[2], 1, j) \o << Store("d", P(c, 1).len + j, "v"), Barrier("d", "v") >>)
           a5 == Ret(c.dst, "x")
           A0 == Knows(st, {}, {}, {}, {})
           A1 == Knows(st, {"s", "x"}, {"x"}, {"x"}, {})
           A2 == Knows(st, {"s", "d", "x"}, {"d", "x"}, {"x"}, {})
           A3 == Knows(st, {"d", "x"}, {}, {}, {})
           A4 == Knows(st, {"d", "x"}, {}, {}, {})
           A5 == Knows(st, {}, {}, {}, {})
<1>7. Lead(texts, a1, A0, A1)
  BY <1>4, LocalNames, HandleNames, LeadNewArray
<1>8. Lead(texts, <<a2>>, A1, A2)
  BY <1>1, <1>3, <1>4, <1>5, <1>6, Numbers, HandleNames, LocalNames, LeadLoad
<1>9. Lead(texts, a3, A2, A3)
  <2> DEFINE t == [i \in 1 .. P(c, 1).len |-> Element("v", c.a[1], 1, i) \o << Store("d", i, "v"), Barrier("d", "v") >>]
             I == Knows(st, {"d", "x"}, {}, {}, {})
  <2>1. ASSUME NEW i \in 1 .. P(c, 1).len PROVE Lead(texts, Element("v", c.a[1], 1, i) \o << Store("d", i, "v"), Barrier("d", "v") >>, I, I)
    <3> DEFINE b1 == Element("v", c.a[1], 1, i)
               b2 == Store("d", i, "v")
               b3 == Barrier("d", "v")
               B0 == Knows(st, {"d", "x"}, {}, {}, {})
               B1 == Knows(st, {"v", "d", "x"}, {}, {}, {})
               B2 == Knows(st, {"d", "x"}, {}, {}, {})
    <3>1. Lead(texts, b1, B0, B1)
      BY <1>1, <1>3, <1>4, <1>5, <1>6, Numbers, HandleNames, LocalNames, LeadElementAt
    <3>2. Lead(texts, <<b2, b3>>, B1, B2)
      BY <1>1, <1>3, <1>4, <1>5, <1>6, Numbers, HandleNames, LocalNames, LeadStoreBarrier
    <3>3. b2 \in Micro(texts) /\ b3 \in Micro(texts)
      <4>1. <<b2, b3>> \in Seq(Micro(texts))
        BY <3>2 DEF Lead
      <4> HIDE DEF b2, b3
      <4> QED BY <4>1
    <3> HIDE DEF b1, b2, b3, B0, B1, B2
    <3>4. Lead(texts, b1 \o <<b2, b3>>, B0, B2)
      BY <3>1, <3>2, LeadThen
    <3>5. Element("v", c.a[1], 1, i) \o << Store("d", i, "v"), Barrier("d", "v") >> = b1 \o <<b2, b3>>
      BY DEF b1, b2, b3
    <3> QED BY <3>4, <3>5 DEF I, B0, B2
  <2>2. \A i \in 1 .. P(c, 1).len : Lead(texts, t[i], I, I)
    BY <2>1
  <2>3. t = [i \in 1 .. P(c, 1).len |-> t[i]] /\ P(c, 1).len \in Nat
    BY <1>4
  <2>4. a3 = FlattenSeq(t)
    BY DEF Steps
  <2>5. A2 \subseteq I /\ I \subseteq A3
    BY KnowsLess
  <2> HIDE DEF t, I, a3, A2, A3
  <2>6. Lead(texts, FlattenSeq(t), I, I)
    BY <2>2, <2>3, LeadAll
  <2> QED BY <2>4, <2>5, <2>6, LeadWeaker
<1>10. Lead(texts, a4, A3, A4)
  <2> DEFINE t == [i \in 1 .. P(c, 2).len |-> Element("v", c.a[2], 1, i) \o << Store("d", P(c, 1).len + i, "v"), Barrier("d", "v") >>]
             I == Knows(st, {"d", "x"}, {}, {}, {})
  <2>1. ASSUME NEW i \in 1 .. P(c, 2).len PROVE Lead(texts, Element("v", c.a[2], 1, i) \o << Store("d", P(c, 1).len + i, "v"), Barrier("d", "v") >>, I, I)
    <3> DEFINE b1 == Element("v", c.a[2], 1, i)
               b2 == Store("d", P(c, 1).len + i, "v")
               b3 == Barrier("d", "v")
               B0 == Knows(st, {"d", "x"}, {}, {}, {})
               B1 == Knows(st, {"v", "d", "x"}, {}, {}, {})
               B2 == Knows(st, {"d", "x"}, {}, {}, {})
    <3>1. Lead(texts, b1, B0, B1)
      BY <1>1, <1>3, <1>4, <1>5, <1>6, Numbers, HandleNames, LocalNames, LeadElementAt
    <3>2. Lead(texts, <<b2, b3>>, B1, B2)
      BY <1>1, <1>3, <1>4, <1>5, <1>6, Numbers, HandleNames, LocalNames, LeadStoreBarrier
    <3>3. b2 \in Micro(texts) /\ b3 \in Micro(texts)
      <4>1. <<b2, b3>> \in Seq(Micro(texts))
        BY <3>2 DEF Lead
      <4> HIDE DEF b2, b3
      <4> QED BY <4>1
    <3> HIDE DEF b1, b2, b3, B0, B1, B2
    <3>4. Lead(texts, b1 \o <<b2, b3>>, B0, B2)
      BY <3>1, <3>2, LeadThen
    <3>5. Element("v", c.a[2], 1, i) \o << Store("d", P(c, 1).len + i, "v"), Barrier("d", "v") >> = b1 \o <<b2, b3>>
      BY DEF b1, b2, b3
    <3> QED BY <3>4, <3>5 DEF I, B0, B2
  <2>2. \A i \in 1 .. P(c, 2).len : Lead(texts, t[i], I, I)
    BY <2>1
  <2>3. t = [i \in 1 .. P(c, 2).len |-> t[i]] /\ P(c, 2).len \in Nat
    BY <1>4
  <2>4. a4 = FlattenSeq(t)
    BY DEF Steps
  <2>5. A3 \subseteq I /\ I \subseteq A4
    BY KnowsLess
  <2> HIDE DEF t, I, a4, A3, A4
  <2>6. Lead(texts, FlattenSeq(t), I, I)
    BY <2>2, <2>3, LeadAll
  <2> QED BY <2>4, <2>5, <2>6, LeadWeaker
<1>11. Lead(texts, <<a5>>, A4, A5)
  BY <1>1, <1>3, <1>4, <1>5, <1>6, Numbers, HandleNames, LocalNames, LeadRests
<1> HIDE DEF a1, a2, a3, a4, a5, A0, A1, A2, A3, A4, A5
<1>12. Lead(texts, a1 \o <<a2>>, A0, A2)
  BY <1>7, <1>8, LeadThen
<1>13. Lead(texts, (a1 \o <<a2>>) \o a3, A0, A3)
  BY <1>12, <1>9, LeadThen
<1>14. Lead(texts, ((a1 \o <<a2>>) \o a3) \o a4, A0, A4)
  BY <1>13, <1>10, LeadThen
<1>15. Lead(texts, (((a1 \o <<a2>>) \o a3) \o a4) \o <<a5>>, A0, A5)
  BY <1>14, <1>11, LeadThen
<1>16. concat_arr_fn(c) = (((a1 \o <<a2>>) \o a3) \o a4) \o <<a5>>
  BY DEF concat_arr_fn, a1, a2, a3, a4, a5
<1> QED BY <1>15, <1>16 DEF Idle, A0, A5

LEMMA LeadKeys ==
  ASSUME NEW texts, NEW c, Ready(texts, c), c.fn = "keys", NEW st
  PROVE  Lead(texts, KeysOrValues(c, 1), Idle(st), Idle(st))
<1>1. Kind(c, 1) = "Map"
  BY Rights
<1>2. 1 <= Arity(c.fn)
  BY DEF Arity
<1>3. c.a[1] \in Handles /\ P(c, 1).len \in 0 .. NFields /\ P(c, 1).cap \in Nat
  BY <1>1, <1>2, ArgumentTypes
<1>4. P(c, 1).len \in Nat /\ \A j \in 1 .. P(c, 1).len : j \in Fields
  BY <1>1, <1>3, ReadyTypes, Numbers
<1>5. c.dst \in 0 .. NRegs /\ c.dst \in Nat
  BY <1>1, <1>3, <1>4, ReadyTypes, Numbers
<1> DEFINE a1 == new_array("x", H(1), P(c, 1).len)
           a2 == Load("d", "x", 1)
           a3 == Steps(P(c, 1).len, LAMBDA j : Element("v", c.a[1], 1, j) \o << Store("d", j, "v") >>)
           a4 == Ret(c.dst, "x")
           A0 == Knows(st, {}, {}, {}, {})
           A1 == Knows(st, {"s", "x"}, {"x"}, {"x"}, {})
           A2 == Knows(st, {"s", "d", "x"}, {"d", "x"}, {"x"}, {})
           A3 == Knows(st, {"d", "x"}, {"d"}, {}, {})
           A4 == Knows(st, {}, {}, {}, {})
<1>6. Lead(texts, a1, A0, A1)
  BY <1>3, LocalNames, HandleNames, LeadNewArray
<1>7. Lead(texts, <<a2>>, A1, A2)
  BY <1>1, <1>3, <1>4, <1>5, Numbers, HandleNames, LocalNames, LeadLoad
<1>8. Lead(texts, a3, A2, A3)
  <2> DEFINE t == [i \in 1 .. P(c, 1).len |-> Element("v", c.a[1], 1, i) \o << Store("d", i, "v") >>]
             I == Knows(st, {"d", "x"}, {"d"}, {}, {})
  <2>1. ASSUME NEW i \in 1 .. P(c, 1).len PROVE Lead(texts, Element("v", c.a[1], 1, i) \o << Store("d", i, "v") >>, I, I)
    <3> DEFINE b1 == Element("v", c.a[1], 1, i)
               b2 == Store("d", i, "v")
               B0 == Knows(st, {"d", "x"}, {"d"}, {}, {})
               B1 == Knows(st, {"v", "d", "x"}, {"d"}, {}, {})
               B2 == Knows(st, {"d", "x"}, {"d"}, {}, {})
    <3>1. Lead(texts, b1, B0, B1)
      BY <1>1, <1>3, <1>4, <1>5, Numbers, HandleNames, LocalNames, LeadElementAt
    <3>2. Lead(texts, <<b2>>, B1, B2)
      BY <1>1, <1>3, <1>4, <1>5, Numbers, HandleNames, LocalNames, LeadStore
    <3> HIDE DEF b1, b2, B0, B1, B2
    <3>3. Lead(texts, b1 \o <<b2>>, B0, B2)
      BY <3>1, <3>2, LeadThen
    <3>4. Element("v", c.a[1], 1, i) \o << Store("d", i, "v") >> = b1 \o <<b2>>
      BY DEF b1, b2
    <3> QED BY <3>3, <3>4 DEF I, B0, B2
  <2>2. \A i \in 1 .. P(c, 1).len : Lead(texts, t[i], I, I)
    BY <2>1
  <2>3. t = [i \in 1 .. P(c, 1).len |-> t[i]] /\ P(c, 1).len \in Nat
    BY <1>4
  <2>4. a3 = FlattenSeq(t)
    BY DEF Steps
  <2>5. A2 \subseteq I /\ I \subseteq A3
    BY KnowsLess
  <2> HIDE DEF t, I, a3, A2, A3
  <2>6. Lead(texts, FlattenSeq(t), I, I)
    BY <2>2, <2>3, LeadAll
  <2> QED BY <2>4, <2>5, <2>6, LeadWeaker
<1>9. Lead(texts, <<a4>>, A3, A4)
  BY <1>1, <1>3, <1>4, <1>5, Numbers, HandleNames, LocalNames, LeadRests
<1> HIDE DEF a1, a2, a3, a4, A0, A1, A2, A3, A4
<1>10. Lead(texts, a1 \o <<a2>>, A0, A2)
  BY <1>6, <1>7, LeadThen
<1>11. Lead(texts, (a1 \o <<a2>>) \o a3, A0, A3)
  BY <1>10, <1>8, LeadThen
<1>12. Lead(texts, ((a1 \o <<a2>>) \o a3) \o <<a4>>, A0, A4)
  BY <1>11, <1>9, LeadThen
<1>13. KeysOrValues(c, 1) = ((a1 \o <<a2>>) \o a3) \o <<a4>>
  BY DEF KeysOrValues, a1, a2, a3, a4
<1> QED BY <1>12, <1>13 DEF Idle, A0, A4

LEMMA LeadValues ==
  ASSUME NEW texts, NEW c, Ready(texts, c), c.fn = "values", NEW st
  PROVE  Lead(texts, KeysOrValues(c, 2), Idle(st), Idle(st))
<1>1. Kind(c, 1) = "Map"
  BY Rights
<1>2. 1 <= Arity(c.fn)
  BY DEF Arity
<1>3. c.a[1] \in Handles /\ P(c, 1).len \in 0 .. NFields /\ P(c, 1).cap \in Nat
  BY <1>1, <1>2, ArgumentTypes
<1>4. P(c, 1).len \in Nat /\ \A j \in 1 .. P(c, 1).len : j \in Fields
  BY <1>1, <1>3, ReadyTypes, Numbers
<1>5. c.dst \in 0 .. NRegs /\ c.dst \in Nat
  BY <1>1, <1>3, <1>4, ReadyTypes, Numbers
<1> DEFINE a1 == new_array("x", H(1), P(c, 1).len)
           a2 == Load("d", "x", 1)
           a3 == Steps(P(c, 1).len, LAMBDA j : Element("v", c.a[1], 2, j) \o << Store("d", j, "v") >>)
           a4 == Ret(c.dst, "x")
           A0 == Knows(st, {}, {}, {}, {})
           A1 == Knows(st, {"s", "x"}, {"x"}, {"x"}, {})
           A2 == Knows(st, {"s", "d", "x"}, {"d", "x"}, {"x"}, {})
           A3 == Knows(st, {"d", "x"}, {"d"}, {}, {})
           A4 == Knows(st, {}, {}, {}, {})
<1>6. Lead(texts, a1, A0, A1)
  BY <1>3, LocalNames, HandleNames, LeadNewArray
<1>7. Lead(texts, <<a2>>, A1, A2)
  BY <1>1, <1>3, <1>4, <1>5, Numbers, HandleNames, LocalNames, LeadLoad
<1>8. Lead(texts, a3, A2, A3)
  <2> DEFINE t == [i \in 1 .. P(c, 1).len |-> Element("v", c.a[1], 2, i) \o << Store("d", i, "v") >>]
             I == Knows(st, {"d", "x"}, {"d"}, {}, {})
  <2>1. ASSUME NEW i \in 1 .. P(c, 1).len PROVE Lead(texts, Element("v", c.a[1], 2, i) \o << Store("d", i, "v") >>, I, I)
    <3> DEFINE b1 == Element("v", c.a[1], 2, i)
               b2 == Store("d", i, "v")
               B0 == Knows(st, {"d", "x"}, {"d"}, {}, {})
               B1 == Knows(st, {"v", "d", "x"}, {"d"}, {}, {})
               B2 == Knows(st, {"d", "x"}, {"d"}, {}, {})
    <3>1. Lead(texts, b1, B0, B1)
      BY <1>1, <1>3, <1>4, <1>5, Numbers, HandleNames, LocalNames, LeadElementAt
    <3>2. Lead(texts, <<b2>>, B1, B2)
      BY <1>1, <1>3, <1>4, <1>5, Numbers, HandleNames, LocalNames, LeadStore
    <3> HIDE DEF b1, b2, B0, B1, B2
    <3>3. Lead(texts, b1 \o <<b2>>, B0, B2)
      BY <3>1, <3>2, LeadThen
    <3>4. Element("v", c.a[1], 2, i) \o << Store("d", i, "v") >> = b1 \o <<b2>>
      BY DEF b1, b2
    <3> QED BY <3>3, <3>4 DEF I, B0, B2
  <2>2. \A i \in 1 .. P(c, 1).len : Lead(texts, t[i], I, I)
    BY <2>1
  <2>3. t = [i \in 1 .. P(c, 1).len |-> t[i]] /\ P(c, 1).len \in Nat
    BY <1>4
  <2>4. a3 = FlattenSeq(t)
    BY DEF Steps
  <2>5. A2 \subseteq I /\ I \subseteq A3
    BY KnowsLess
  <2> HIDE DEF t, I, a3, A2, A3
  <2>6. Lead(texts, FlattenSeq(t), I, I)
    BY <2>2, <2>3, LeadAll
  <2> QED BY <2>4, <2>5, <2>6, LeadWeaker
<1>9. Lead(texts, <<a4>>, A3, A4)
  BY <1>1, <1>3, <1>4, <1>5, Numbers, HandleNames, LocalNames, LeadRests
<1> HIDE DEF a1, a2, a3, a4, A0, A1, A2, A3, A4
<1>10. Lead(texts, a1 \o <<a2>>, A0, A2)
  BY <1>6, <1>7, LeadThen
<1>11. Lead(texts, (a1 \o <<a2>>) \o a3, A0, A3)
  BY <1>10, <1>8, LeadThen
<1>12. Lead(texts, ((a1 \o <<a2>>) \o a3) \o <<a4>>, A0, A4)
  BY <1>11, <1>9, LeadThen
<1>13. KeysOrValues(c, 2) = ((a1 \o <<a2>>) \o a3) \o <<a4>>
  BY DEF KeysOrValues, a1, a2, a3, a4
<1> QED BY <1>12, <1>13 DEF Idle, A0, A4

LEMMA LeadIter ==
  ASSUME NEW texts, NEW c, Ready(texts, c), c.fn = "iter", NEW st
  PROVE  Lead(texts, iter_fn(c), Idle(st), Idle(st))
<1>1. Kind(c, 1) = "Array"
  BY Rights
<1>2. 1 <= Arity(c.fn)
  BY DEF Arity
<1>3. c.a[1] \in Handles /\ P(c, 1).len \in 0 .. NFields /\ P(c, 1).cap \in Nat
  BY <1>1, <1>2, ArgumentTypes
<1>4. c.dst \in 0 .. NRegs /\ c.dst \in Nat
  BY <1>1, <1>3, ReadyTypes, Numbers
<1> DEFINE a1 == Read("arr", c.a[1])
           a2 == new_iter("it", H(1), P(c, 1).len)
           a3 == Ret(c.dst, "it")
           A0 == Knows(st, {}, {}, {}, {})
           A1 == Knows(st, {"arr"}, {}, {}, {})
           A2 == Knows(st, {"it"}, {}, {}, {})
           A3 == Knows(st, {}, {}, {}, {})
<1>5. Lead(texts, <<a1>>, A0, A1)
  BY <1>1, <1>3, <1>4, Numbers, HandleNames, LocalNames, LeadRead
<1>6. Lead(texts, a2, A1, A2)
  BY <1>3, HandleNames, LeadNewIter
<1>7. Lead(texts, <<a3>>, A2, A3)
  BY <1>1, <1>3, <1>4, Numbers, HandleNames, LocalNames, LeadRests
<1> HIDE DEF a1, a2, a3, A0, A1, A2, A3
<1>8. Lead(texts, <<a1>> \o a2, A0, A2)
  BY <1>5, <1>6, LeadThen
<1>9. Lead(texts, (<<a1>> \o a2) \o <<a3>>, A0, A3)
  BY <1>8, <1>7, LeadThen
<1>10. iter_fn(c) = (<<a1>> \o a2) \o <<a3>>
  BY DEF iter_fn, a1, a2, a3
<1> QED BY <1>9, <1>10 DEF Idle, A0, A3

LEMMA LeadNext ==
  ASSUME NEW texts, NEW c, Ready(texts, c), c.fn = "next", NEW st
  PROVE  Lead(texts, next_fn(c), Idle(st), Idle(st))
<1>1. Kind(c, 1) = "Iter" /\ P(c, 1).cap < P(c, 1).len
  BY Rights
<1>2. 1 <= Arity(c.fn)
  BY DEF Arity
<1>3. c.a[1] \in Handles /\ P(c, 1).len \in 0 .. NFields /\ P(c, 1).cap \in Nat
  BY <1>1, <1>2, ArgumentTypes
<1>4. P(c, 1).cap + 1 \in Fields /\ P(c, 1).cap + 1 \in Nat
  BY <1>1, <1>3, ReadyTypes, Numbers
<1>5. c.dst \in 0 .. NRegs /\ c.dst \in Nat
  BY <1>1, <1>3, <1>4, ReadyTypes, Numbers
<1> DEFINE a1 == Read("it", c.a[1])
           a2 == Load("arr", "it", 1)
           a3 == Load("s", "arr", 1)
           a4 == Load("x", "s", P(c, 1).cap + 1)
           a5 == SetCap("it", P(c, 1).cap + 1)
           a6 == Ret(c.dst, "x")
           A0 == Knows(st, {}, {}, {}, {})
           A1 == Knows(st, {"it"}, {}, {}, {})
           A2 == Knows(st, {"arr", "it"}, {}, {}, {})
           A3 == Knows(st, {"s", "arr", "it"}, {}, {}, {})
           A4 == Knows(st, {"s", "x", "arr", "it"}, {}, {}, {})
           A5 == Knows(st, {"s", "x", "arr", "it"}, {}, {}, {})
           A6 == Knows(st, {}, {}, {}, {})
<1>6. Lead(texts, <<a1>>, A0, A1)
  BY <1>1, <1>3, <1>4, <1>5, Numbers, HandleNames, LocalNames, LeadRead
<1>7. Lead(texts, <<a2>>, A1, A2)
  BY <1>1, <1>3, <1>4, <1>5, Numbers, HandleNames, LocalNames, LeadLoad
<1>8. Lead(texts, <<a3>>, A2, A3)
  BY <1>1, <1>3, <1>4, <1>5, Numbers, HandleNames, LocalNames, LeadLoad
<1>9. Lead(texts, <<a4>>, A3, A4)
  BY <1>1, <1>3, <1>4, <1>5, Numbers, HandleNames, LocalNames, LeadLoad
<1>10. Lead(texts, <<a5>>, A4, A5)
  BY <1>1, <1>3, <1>4, <1>5, Numbers, HandleNames, LocalNames, LeadRests
<1>11. Lead(texts, <<a6>>, A5, A6)
  BY <1>1, <1>3, <1>4, <1>5, Numbers, HandleNames, LocalNames, LeadRests
<1> HIDE DEF a1, a2, a3, a4, a5, a6, A0, A1, A2, A3, A4, A5, A6
<1>12. Lead(texts, <<a1, a2, a3, a4, a5, a6>>, A0, A6)
  BY <1>6, <1>7, <1>8, <1>9, <1>10, <1>11, Lead6, Zenon
<1>13. next_fn(c) = <<a1, a2, a3, a4, a5, a6>>
  BY DEF next_fn, a1, a2, a3, a4, a5, a6
<1> QED BY <1>12, <1>13 DEF Idle, A0, A6

LEMMA LeadFormatJoin ==
  ASSUME NEW texts, NEW c, Ready(texts, c), c.fn = "format_join", NEW st
  PROVE  Lead(texts, format_join_fn(c), Idle(st), Idle(st))
<1>1. Kind(c, 1) = "Array" /\ Kind(c, 2) = "String"
  BY Rights
<1>2. 1 <= Arity(c.fn) /\ 2 <= Arity(c.fn)
  BY DEF Arity
<1>3. c.a[1] \in Handles /\ P(c, 1).len \in 0 .. NFields /\ P(c, 1).cap \in Nat /\ c.a[2] \in Handles
  BY <1>1, <1>2, ArgumentTypes
<1>4. P(c, 1).len \in Nat /\ \A j \in 1 .. P(c, 1).len : j \in Fields
  BY <1>1, <1>3, ReadyTypes, Numbers
<1>5. "t" \in texts /\ "j" \in texts
  BY <1>1, <1>3, <1>4, ReadyTypes, Numbers
<1>6. c.dst \in 0 .. NRegs /\ c.dst \in Nat
  BY <1>1, <1>3, <1>4, <1>5, ReadyTypes, Numbers
<1> DEFINE a1 == Read("arr", c.a[1])
           a2 == Root(H(1), "arr")
           a3 == Read("x", c.a[2])
           a4 == Root(H(2), "x")
           a5 == Steps(P(c, 1).len, LAMBDA j : << Read("x", H(2)), Load("b", "x", 1), Read("arr", H(1)), Load("s", "arr", 1), Load("e", "s", j) >> \o new_string("v", H(3), "t") \o << Load("b", "v", 1) >>)
           a6 == new_string("x", H(3), "j")
           a7 == Drop(H(1))
           a8 == Ret(c.dst, "x")
           A0 == Knows(st, {}, {}, {}, {})
           A1 == Knows(st, {"arr"}, {}, {}, {})
           A2 == Knows(st, {"arr"}, {}, {}, {})
           A3 == Knows(st, {"x", "arr"}, {}, {}, {})
           A4 == Knows(st, {"x", "arr"}, {}, {}, {})
           A5 == Knows(st, {}, {}, {}, {})
           A6 == Knows(st, {"x", "b"}, {"x"}, {"x"}, {})
           A7 == Knows(st, {"x", "b"}, {"x"}, {"x"}, {})
           A8 == Knows(st, {}, {}, {}, {})
<1>7. Lead(texts, <<a1>>, A0, A1)
  BY <1>1, <1>3, <1>4, <1>5, <1>6, Numbers, HandleNames, LocalNames, LeadRead
<1>8. Lead(texts, <<a2>>, A1, A2)
  BY <1>1, <1>3, <1>4, <1>5, <1>6, Numbers, HandleNames, LocalNames, LeadRoot
<1>9. Lead(texts, <<a3>>, A2, A3)
  BY <1>1, <1>3, <1>4, <1>5, <1>6, Numbers, HandleNames, LocalNames, LeadRead
<1>10. Lead(texts, <<a4>>, A3, A4)
  BY <1>1, <1>3, <1>4, <1>5, <1>6, Numbers, HandleNames, LocalNames, LeadRoot
<1>11. Lead(texts, a5, A4, A5)
  <2> DEFINE t == [i \in 1 .. P(c, 1).len |-> << Read("x", H(2)), Load("b", "x", 1), Read("arr", H(1)), Load("s", "arr", 1), Load("e", "s", i) >> \o new_string("v", H(3), "t") \o << Load("b", "v", 1) >>]
             I == Knows(st, {}, {}, {}, {})
  <2>1. ASSUME NEW i \in 1 .. P(c, 1).len PROVE Lead(texts, << Read("x", H(2)), Load("b", "x", 1), Read("arr", H(1)), Load("s", "arr", 1), Load("e", "s", i) >> \o new_string("v", H(3), "t") \o << Load("b", "v", 1) >>, I, I)
    <3> DEFINE b1 == Read("x", H(2))
               b2 == Load("b", "x", 1)
               b3 == Read("arr", H(1))
               b4 == Load("s", "arr", 1)
               b5 == Load("e", "s", i)
               b6 == new_string("v", H(3), "t")
               b7 == Load("b", "v", 1)
               B0 == Knows(st, {}, {}, {}, {})
               B1 == Knows(st, {"x"}, {}, {}, {})
               B2 == Knows(st, {"x", "b"}, {}, {}, {})
               B3 == Knows(st, {"x", "arr", "b"}, {}, {}, {})
               B4 == Knows(st, {"s", "x", "arr", "b"}, {}, {}, {})
               B5 == Knows(st, {"s", "e", "x", "arr", "b"}, {}, {}, {})
               B6 == Knows(st, {"v", "b"}, {"v"}, {"v"}, {})
               B7 == Knows(st, {}, {}, {}, {})
    <3>1. Lead(texts, <<b1>>, B0, B1)
      BY <1>1, <1>3, <1>4, <1>5, <1>6, Numbers, HandleNames, LocalNames, LeadRead
    <3>2. Lead(texts, <<b2>>, B1, B2)
      BY <1>1, <1>3, <1>4, <1>5, <1>6, Numbers, HandleNames, LocalNames, LeadLoad
    <3>3. Lead(texts, <<b3>>, B2, B3)
      BY <1>1, <1>3, <1>4, <1>5, <1>6, Numbers, HandleNames, LocalNames, LeadRead
    <3>4. Lead(texts, <<b4>>, B3, B4)
      BY <1>1, <1>3, <1>4, <1>5, <1>6, Numbers, HandleNames, LocalNames, LeadLoad
    <3>5. Lead(texts, <<b5>>, B4, B5)
      BY <1>1, <1>3, <1>4, <1>5, <1>6, Numbers, HandleNames, LocalNames, LeadLoad
    <3>6. Lead(texts, b6, B5, B6)
      BY <1>1, <1>3, <1>4, <1>5, <1>6, Numbers, HandleNames, LocalNames, LeadNewString
    <3>7. Lead(texts, <<b7>>, B6, B7)
      BY <1>1, <1>3, <1>4, <1>5, <1>6, Numbers, HandleNames, LocalNames, LeadLoad
    <3> HIDE DEF b1, b2, b3, b4, b5, b6, b7, B0, B1, B2, B3, B4, B5, B6, B7
    <3>8. Lead(texts, <<b1, b2, b3, b4, b5>>, B0, B5)
      BY <3>1, <3>2, <3>3, <3>4, <3>5, Lead5, Zenon
    <3>9. Lead(texts, <<b1, b2, b3, b4, b5>> \o b6, B0, B6)
      BY <3>8, <3>6, LeadThen
    <3>10. Lead(texts, (<<b1, b2, b3, b4, b5>> \o b6) \o <<b7>>, B0, B7)
      BY <3>9, <3>7, LeadThen
    <3>11. << Read("x", H(2)), Load("b", "x", 1), Read("arr", H(1)), Load("s", "arr", 1), Load("e", "s", i) >> \o new_string("v", H(3), "t") \o << Load("b", "v", 1) >> = (<<b1, b2, b3, b4, b5>> \o b6) \o <<b7>>
      BY DEF b1, b2, b3, b4, b5, b6, b7
    <3> QED BY <3>10, <3>11 DEF I, B0, B7
  <2>2. \A i \in 1 .. P(c, 1).len : Lead(texts, t[i], I, I)
    BY <2>1
  <2>3. t = [i \in 1 .. P(c, 1).len |-> t[i]] /\ P(c, 1).len \in Nat
    BY <1>4
  <2>4. a5 = FlattenSeq(t)
    BY DEF Steps
  <2>5. A4 \subseteq I /\ I \subseteq A5
    BY KnowsLess
  <2> HIDE DEF t, I, a5, A4, A5
  <2>6. Lead(texts, FlattenSeq(t), I, I)
    BY <2>2, <2>3, LeadAll
  <2> QED BY <2>4, <2>5, <2>6, LeadWeaker
<1>12. Lead(texts, a6, A5, A6)
  BY <1>1, <1>3, <1>4, <1>5, <1>6, Numbers, HandleNames, LocalNames, LeadNewString
<1>13. Lead(texts, <<a7>>, A6, A7)
  BY <1>1, <1>3, <1>4, <1>5, <1>6, Numbers, HandleNames, LocalNames, LeadRests
<1>14. Lead(texts, <<a8>>, A7, A8)
  BY <1>1, <1>3, <1>4, <1>5, <1>6, Numbers, HandleNames, LocalNames, LeadRests
<1> HIDE DEF a1, a2, a3, a4, a5, a6, a7, a8, A0, A1, A2, A3, A4, A5, A6, A7, A8
<1>15. Lead(texts, <<a1, a2, a3, a4>>, A0, A4)
  BY <1>7, <1>8, <1>9, <1>10, Lead4, Zenon
<1>16. Lead(texts, <<a7, a8>>, A6, A8)
  BY <1>13, <1>14, Lead2, Zenon
<1>17. Lead(texts, <<a1, a2, a3, a4>> \o a5, A0, A5)
  BY <1>15, <1>11, LeadThen
<1>18. Lead(texts, (<<a1, a2, a3, a4>> \o a5) \o a6, A0, A6)
  BY <1>17, <1>12, LeadThen
<1>19. Lead(texts, ((<<a1, a2, a3, a4>> \o a5) \o a6) \o <<a7, a8>>, A0, A8)
  BY <1>18, <1>16, LeadThen
<1>20. format_join_fn(c) = ((<<a1, a2, a3, a4>> \o a5) \o a6) \o <<a7, a8>>
  BY DEF format_join_fn, a1, a2, a3, a4, a5, a6, a7, a8
<1> QED BY <1>19, <1>20 DEF Idle, A0, A8

\* The recursion of Filling, up to k.
IsFilling(f, entries, k) ==
  f = [i \in 0 .. k |-> IF i = 0 THEN [ks |-> <<>>, cap |-> 0] ELSE Put(f[i - 1], entries[i][1])]

LEMMA FillingExists ==
  ASSUME NEW entries PROVE \A k \in Nat : \E f : IsFilling(f, entries, k)
<1> DEFINE N == {k \in Nat : \E f : IsFilling(f, entries, k)}
           first == [ks |-> <<>>, cap |-> 0]
<1>1. 0 \in N
  <2> DEFINE f == [x \in 0 .. 0 |-> first]
  <2>1. f[0] = first /\ \A x \in 0 .. 0 : x = 0
    OBVIOUS
  <2>2. f = [x \in 0 .. 0 |-> IF x = 0 THEN first ELSE Put(f[x - 1], entries[x][1])]
    BY <2>1
  <2>3. IsFilling(f, entries, 0)
    BY <2>2 DEF IsFilling
  <2> QED BY <2>3
<1>2. ASSUME NEW k \in Nat, k \in N PROVE k + 1 \in N
  <2>1. PICK f : IsFilling(f, entries, k)
    BY <1>2
  <2> DEFINE g == [x \in 0 .. k + 1 |-> IF x <= k THEN f[x] ELSE Put(f[x - 1], entries[x][1])]
  <2>2. \A x \in 0 .. k + 1 : g[x] = IF x = 0 THEN first ELSE Put(g[x - 1], entries[x][1])
    <3> SUFFICES ASSUME NEW x \in 0 .. k + 1
                 PROVE  g[x] = IF x = 0 THEN first ELSE Put(g[x - 1], entries[x][1])
      OBVIOUS
    <3>1. x # 0 => x - 1 \in 0 .. k + 1 /\ x - 1 <= k
      OBVIOUS
    <3>2. x <= k => f[x] = IF x = 0 THEN first ELSE Put(f[x - 1], entries[x][1])
      <4>1. f = [y \in 0 .. k |-> IF y = 0 THEN first ELSE Put(f[y - 1], entries[y][1])]
        BY <2>1 DEF IsFilling
      <4>2. x <= k => x \in 0 .. k
        OBVIOUS
      <4> HIDE DEF first
      <4> QED BY ONLY <4>1, <4>2, Zenon
    <3> QED BY <3>1, <3>2
  <2>3. g = [x \in 0 .. k + 1 |-> g[x]]
    OBVIOUS
  <2> HIDE DEF g
  <2>4. IsFilling(g, entries, k + 1)
    BY <2>2, <2>3 DEF IsFilling
  <2> QED BY <2>4
<1>3. \A k \in Nat : k \in N
  <2> HIDE DEF N
  <2> QED BY <1>1, <1>2, Induct
<1> QED BY <1>3

LEMMA FillingIs ==
  ASSUME NEW entries, Len(entries) \in Nat
  PROVE  \A i \in 0 .. Len(entries) :
           Filling(entries)[i] = IF i = 0 THEN [ks |-> <<>>, cap |-> 0] ELSE Put(Filling(entries)[i - 1], entries[i][1])
<1> DEFINE g == CHOOSE f : f = [i \in 0 .. Len(entries) |->
                                  IF i = 0 THEN [ks |-> <<>>, cap |-> 0] ELSE Put(f[i - 1], entries[i][1])]
<1>1. \E f : f = [i \in 0 .. Len(entries) |-> IF i = 0 THEN [ks |-> <<>>, cap |-> 0] ELSE Put(f[i - 1], entries[i][1])]
  BY FillingExists DEF IsFilling
<1>2. g = [i \in 0 .. Len(entries) |-> IF i = 0 THEN [ks |-> <<>>, cap |-> 0] ELSE Put(g[i - 1], entries[i][1])]
  BY ONLY <1>1, Zenon
<1>3. Filling(entries) = g
  BY DEF Filling
<1> HIDE DEF g
<1>4. \A i \in 0 .. Len(entries) : g[i] = IF i = 0 THEN [ks |-> <<>>, cap |-> 0] ELSE Put(g[i - 1], entries[i][1])
  BY ONLY <1>2, Zenon
<1> QED BY <1>3, <1>4

\* What a new map holds on the way: each key of K once.
HoldsOnce(m, K, texts) ==
  /\ m.ks \in Seq(texts) /\ ToSet(m.ks) \subseteq K /\ IsFiniteSet(ToSet(m.ks))
  /\ Cardinality(ToSet(m.ks)) = Len(m.ks) /\ m.cap \in Nat

LEMMA PutKeeps ==
  ASSUME NEW texts, NEW K, NEW m, NEW key \in texts, key \in K, HoldsOnce(m, K, texts)
  PROVE  HoldsOnce(Put(m, key), K, texts)
<1>1. CASE \E j \in DOMAIN m.ks : m.ks[j] = key
  BY <1>1 DEF Put
<1>2. CASE ~\E j \in DOMAIN m.ks : m.ks[j] = key
  <2> DEFINE ks == m.ks
             n == Append(ks, key)
             cap == IF Len(ks) = m.cap THEN Grown(m.cap) ELSE m.cap
  <2>1. ks \in Seq(texts) /\ ToSet(ks) \subseteq K /\ IsFiniteSet(ToSet(ks)) /\ Cardinality(ToSet(ks)) = Len(ks)
        /\ m.cap \in Nat
    BY DEF HoldsOnce
  <2>2. Put(m, key) = [ks |-> n, cap |-> cap]
    BY <1>2 DEF Put
  <2>3. cap \in Nat
    <3>1. Grown(m.cap) \in Nat
      BY <2>1, BuiltinsAssumption DEF Grown
    <3> QED BY <2>1, <3>1
  <2>4. key \notin ToSet(ks)
    BY <1>2 DEF ToSet
  <2> HIDE DEF ks, cap
  <2>5. n \in Seq(texts) /\ Len(n) = Len(ks) + 1 /\ Len(ks) \in Nat
    BY <2>1
  <2>6. ToSet(n) = ToSet(ks) \cup {key}
    <3>1. /\ DOMAIN n = 1 .. Len(ks) + 1 /\ DOMAIN ks = 1 .. Len(ks)
          /\ \A i \in 1 .. Len(ks) : n[i] = ks[i] /\ i \in 1 .. Len(ks) + 1
          /\ n[Len(ks) + 1] = key /\ Len(ks) + 1 \in 1 .. Len(ks) + 1
          /\ \A i \in 1 .. Len(ks) + 1 : i \in 1 .. Len(ks) \/ i = Len(ks) + 1
      BY <2>1
    <3> HIDE DEF n
    <3> QED BY <3>1 DEF ToSet
  <2> HIDE DEF n
  <2>7. IsFiniteSet(ToSet(n)) /\ Cardinality(ToSet(n)) = Len(n)
    <3>1. IsFiniteSet(ToSet(ks) \cup {key}) /\ Cardinality(ToSet(ks) \cup {key}) = Cardinality(ToSet(ks)) + 1
      <4> HIDE DEF ToSet
      <4>1. IsFiniteSet(ToSet(ks)) /\ key \notin ToSet(ks)
        BY <2>1, <2>4
      <4> QED BY ONLY <4>1, FS_AddElement
    <3> QED BY ONLY <2>1, <2>5, <2>6, <3>1
  <2>8. ToSet(n) \subseteq K
    BY <2>1, <2>6
  <2> DEFINE w == Put(m, key)
  <2>9. w.ks = n /\ w.cap = cap
    BY <2>2
  <2> QED BY <2>3, <2>5, <2>7, <2>8, <2>9 DEF HoldsOnce
<1> QED BY <1>1, <1>2

LEMMA FillingKeeps ==
  ASSUME NEW texts, NEW K, NEW entries, Len(entries) \in Nat,
         \A i \in 1 .. Len(entries) : entries[i][1] \in texts \cap K
  PROVE  \A i \in 0 .. Len(entries) : HoldsOnce(Filling(entries)[i], K, texts)
<1> DEFINE N == {i \in Nat : i <= Len(entries) => HoldsOnce(Filling(entries)[i], K, texts)}
           first == [ks |-> <<>>, cap |-> 0]
<1>1. 0 \in N
  <2>1. Filling(entries)[0] = first
    BY FillingIs
  <2>2. first.ks = <<>> /\ first.cap = 0
    OBVIOUS
  <2>3. ToSet(<<>>) = {}
    BY DEF ToSet
  <2>4. <<>> \in Seq(texts) /\ Len(<<>>) = 0
    OBVIOUS
  <2> HIDE DEF first
  <2>5. HoldsOnce(first, K, texts)
    <3>1. ToSet(first.ks) = {} /\ first.ks \in Seq(texts) /\ Len(first.ks) = 0 /\ first.cap \in Nat
      BY <2>2, <2>3, <2>4
    <3>2. IsFiniteSet({}) /\ Cardinality({}) = 0
      BY FS_EmptySet
    <3> QED BY ONLY <3>1, <3>2, Zenon DEF HoldsOnce
  <2> QED BY <2>1, <2>5
<1>2. ASSUME NEW i \in Nat, i \in N PROVE i + 1 \in N
  <2> SUFFICES ASSUME i + 1 <= Len(entries) PROVE HoldsOnce(Filling(entries)[i + 1], K, texts)
    OBVIOUS
  <2>1. i + 1 \in 0 .. Len(entries) /\ i + 1 # 0 /\ (i + 1) - 1 = i /\ i <= Len(entries) /\ i + 1 \in 1 .. Len(entries)
    OBVIOUS
  <2>2. Filling(entries)[i + 1] = Put(Filling(entries)[i], entries[i + 1][1])
    <3>1. Filling(entries)[i + 1] = IF i + 1 = 0 THEN [ks |-> <<>>, cap |-> 0]
                                    ELSE Put(Filling(entries)[(i + 1) - 1], entries[i + 1][1])
      BY <2>1, FillingIs
    <3> QED BY <2>1, <3>1
  <2>3. HoldsOnce(Filling(entries)[i], K, texts)
    BY <1>2, <2>1
  <2>4. entries[i + 1][1] \in texts /\ entries[i + 1][1] \in K
    BY <2>1
  <2> QED BY <2>2, <2>3, <2>4, PutKeeps
<1>3. \A i \in Nat : i \in N
  <2> HIDE DEF N
  <2> QED BY <1>1, <1>2, Induct
<1> QED BY <1>3


\* There is room for what K holds.
LEMMA PutRoom ==
  ASSUME NEW texts, NEW K, IsFiniteSet(K), Cardinality(K) <= NFields, NEW m, HoldsOnce(m, K, texts), NEW key \in K
  PROVE  /\ Len(m.ks) \in 0 .. NFields /\ DOMAIN m.ks = 1 .. Len(m.ks) /\ m.cap \in Nat
         /\ (\E j \in DOMAIN m.ks : m.ks[j] = key) \/ Len(m.ks) + 1 <= NFields
<1> DEFINE ks == m.ks
           X == ToSet(ks)
<1>1. ks \in Seq(texts) /\ X \subseteq K /\ IsFiniteSet(X) /\ Cardinality(X) = Len(ks) /\ m.cap \in Nat
  BY DEF HoldsOnce
<1>2. Len(ks) \in Nat /\ DOMAIN ks = 1 .. Len(ks) /\ NFields \in Nat
  BY <1>1, Numbers
<1>3. key \in X => \E j \in DOMAIN ks : ks[j] = key
  BY DEF ToSet
<1> HIDE DEF ks, X
<1>4. IsFiniteSet(X \cup {key})
  BY ONLY <1>1, FS_AddElement
<1>5. key \notin X => Cardinality(X \cup {key}) = Cardinality(X) + 1
  BY ONLY <1>1, FS_AddElement
<1>6. Cardinality(X) <= Cardinality(K) /\ Cardinality(K) \in Nat
  BY ONLY <1>1, IsFiniteSet(K), FS_Subset, FS_CardinalityType
<1>7. Cardinality(X \cup {key}) <= Cardinality(K)
  <2>1. X \cup {key} \subseteq K
    BY <1>1
  <2> QED BY ONLY <2>1, IsFiniteSet(K), FS_Subset
<1>8. Len(ks) <= NFields
  BY <1>1, <1>2, <1>6
<1>9. key \notin X => Len(ks) + 1 <= NFields
  <2> SUFFICES ASSUME key \notin X PROVE Len(ks) + 1 <= NFields
    OBVIOUS
  <2>1. Cardinality(X) + 1 <= Cardinality(K)
    BY <1>5, <1>7
  <2> QED BY <1>1, <1>2, <1>6, <2>1
<1> QED BY <1>1, <1>2, <1>3, <1>8, <1>9 DEF ks

LEMMA LeadPuts ==
  ASSUME NEW texts, NEW st, NEW K, IsFiniteSet(K), Cardinality(K) <= NFields, NEW entries, Len(entries) \in Nat,
         \A i \in 1 .. Len(entries) : /\ entries[i][1] \in texts \cap K
                                      /\ Lead(texts, entries[i][2], Idle(st), Knows(st, {"v"}, {}, {}, {}))
  PROVE  Lead(texts, Puts(entries), Idle(st), Idle(st))
<1> DEFINE n == Len(entries)
           f == Filling(entries)
           body(i) == entries[i][2] \o << Read("m", H(1)) >>
                        \o map_put(f[i - 1].ks, f[i - 1].cap, entries[i][1], H(2))
           t == [i \in 1 .. n |-> body(i)]
           I == Idle(st)
           V == Knows(st, {"v"}, {}, {}, {})
           W == Knows(st, {"m", "v"}, {}, {}, {})
<1>1. \A i \in 0 .. n : HoldsOnce(f[i], K, texts)
  BY FillingKeeps
<1>2. ASSUME NEW i \in 1 .. n PROVE Lead(texts, body(i), I, I)
  <2> DEFINE m == f[i - 1]
             key == entries[i][1]
             q == map_put(m.ks, m.cap, key, H(2))
             s == Read("m", H(1))
             p == entries[i][2]
  <2>1. HoldsOnce(m, K, texts)
    BY <1>1
  <2>2. key \in texts /\ key \in K
    OBVIOUS
  <2>3. Lead(texts, p, I, V)
    OBVIOUS
  <2>4. Lead(texts, <<s>>, V, W)
    BY LocalNames, HandleNames, LeadRead
  <2> HIDE DEF m, key
  <2>5. /\ Len(m.ks) \in 0 .. NFields /\ DOMAIN m.ks = 1 .. Len(m.ks) /\ m.cap \in Nat
        /\ (\E j \in DOMAIN m.ks : m.ks[j] = key) \/ Len(m.ks) + 1 <= NFields
    BY <2>1, <2>2, PutRoom
  <2>6. Lead(texts, q, W, I)
    BY <2>2, <2>5, HandleNames, LeadPut DEF Idle
  <2> HIDE DEF q, s, p, I, V, W
  <2>7. Lead(texts, p \o <<s>>, I, W)
    BY <2>3, <2>4, LeadThen
  <2>8. Lead(texts, (p \o <<s>>) \o q, I, I)
    BY <2>6, <2>7, LeadThen
  <2> QED BY <2>8 DEF m, key, q, s, p
<1>3. \A i \in 1 .. n : Lead(texts, t[i], I, I)
  BY <1>2
<1>4. t = [i \in 1 .. n |-> t[i]] /\ n \in Nat
  OBVIOUS
<1>5. Puts(entries) = FlattenSeq(t)
  BY DEF Puts, Steps
<1> HIDE DEF t, I, n
<1>6. Lead(texts, FlattenSeq(t), I, I)
  BY <1>3, <1>4, LeadAll
<1> QED BY <1>5, <1>6 DEF I

LEMMA LeadNewMapOf ==
  ASSUME NEW texts, NEW st, NEW K, IsFiniteSet(K), Cardinality(K) <= NFields, NEW entries, Len(entries) \in Nat,
         NEW dst \in 0 .. NRegs, dst \in Nat,
         \A i \in 1 .. Len(entries) : /\ entries[i][1] \in texts \cap K
                                      /\ Lead(texts, entries[i][2], Idle(st), Knows(st, {"v"}, {}, {}, {}))
  PROVE  Lead(texts, NewMapOf(entries, dst), Idle(st), Idle(st))
<1> DEFINE a1 == new_map("m")
           a2 == Root(H(1), "m")
           a3 == Puts(entries)
           a4 == Read("m", H(1))
           a5 == Drop(H(1))
           a6 == Ret(dst, "m")
           A0 == Knows(st, {}, {}, {}, {})
           A1 == Knows(st, {"m"}, {"m"}, {}, {})
           A2 == Knows(st, {"m"}, {"m"}, {}, {})
           A3 == Knows(st, {}, {}, {}, {})
           A4 == Knows(st, {"m"}, {}, {}, {})
           A5 == Knows(st, {"m"}, {}, {}, {})
           A6 == Knows(st, {}, {}, {}, {})
<1>1. Lead(texts, a1, A0, A1)
  BY LocalNames, KindNames, Numbers, LeadNew DEF new_map
<1>2. Lead(texts, <<a2>>, A1, A2)
  BY HandleNames, LocalNames, Numbers, LeadRoot
<1>3. Lead(texts, a3, A2, A3)
  <2>1. Lead(texts, a3, Idle(st), Idle(st))
    BY LeadPuts
  <2>2. A2 \subseteq Idle(st) /\ A3 = Idle(st)
    BY KnowsLess DEF Idle
  <2> HIDE DEF a3, A2, A3
  <2> QED BY <2>1, <2>2, LeadWeaker
<1>4. Lead(texts, <<a4>>, A3, A4)
  BY HandleNames, LocalNames, Numbers, LeadRead
<1>5. Lead(texts, <<a5>>, A4, A5)
  BY HandleNames, LocalNames, Numbers, LeadRests
<1>6. Lead(texts, <<a6>>, A5, A6)
  BY HandleNames, LocalNames, Numbers, LeadRests
<1> HIDE DEF a1, a2, a3, a4, a5, a6, A0, A1, A2, A3, A4, A5, A6
<1>7. Lead(texts, <<a4, a5, a6>>, A3, A6)
  BY <1>4, <1>5, <1>6, Lead3, Zenon
<1>8. Lead(texts, a1 \o <<a2>>, A0, A2)
  BY <1>1, <1>2, LeadThen
<1>9. Lead(texts, (a1 \o <<a2>>) \o a3, A0, A3)
  BY <1>8, <1>3, LeadThen
<1>10. Lead(texts, ((a1 \o <<a2>>) \o a3) \o <<a4, a5, a6>>, A0, A6)
  BY <1>9, <1>7, LeadThen
<1>11. NewMapOf(entries, dst) = ((a1 \o <<a2>>) \o a3) \o <<a4, a5, a6>>
  BY DEF NewMapOf, a1, a2, a3, a4, a5, a6
<1> QED BY <1>10, <1>11 DEF Idle, A0, A6

LEMMA FiniteKeys ==
  ASSUME NEW n \in Nat, NEW f PROVE IsFiniteSet({f[i] : i \in 1 .. n})
<1> DEFINE X == {f[i] : i \in 1 .. n}
           g == [i \in 1 .. n |-> f[i]]
<1>1. IsFiniteSet(1 .. n)
  BY FS_Interval
<1>2. g \in [1 .. n -> X] /\ \A x \in X : \E i \in 1 .. n : g[i] = x
  OBVIOUS
<1>3. g \in Surjection(1 .. n, X)
  BY <1>2 DEF Surjection, Range
<1> QED BY <1>1, <1>3, FS_Surjection

\* The entries of an argument.
LEMMA EntriesFacts ==
  ASSUME NEW texts, NEW c, Ready(texts, c), NEW j \in {1, 2}, j <= Arity(c.fn), Kind(c, j) = "Map", NEW st
  PROVE  /\ EntriesOf(c, j) \in Seq(texts \X Seq(Micro(texts)))
         /\ Len(EntriesOf(c, j)) = P(c, j).len /\ P(c, j).len \in Nat
         /\ IsFiniteSet(ToSet(Keys(c, j)))
         /\ \A i \in 1 .. P(c, j).len :
              /\ EntriesOf(c, j)[i][1] \in texts \cap ToSet(Keys(c, j))
              /\ Lead(texts, EntriesOf(c, j)[i][2], Idle(st), Knows(st, {"v"}, {}, {}, {}))
<1> DEFINE n == P(c, j).len
           ks == Keys(c, j)
           E == EntriesOf(c, j)
           step(i) == Element("v", c.a[j], 2, i)
<1>1. c.a[j] \in Handles /\ n \in 0 .. NFields /\ DOMAIN ks = 1 .. n /\ \A i \in 1 .. n : ks[i] \in texts
  BY ArgumentTypes
<1>2. n \in Nat /\ \A i \in 1 .. n : i \in Fields
  <2>1. n \in 0 .. NFields /\ NFields \in Nat
    BY <1>1, Numbers
  <2> HIDE DEF n
  <2> QED BY <2>1
<1>3. \A i \in 1 .. n : Lead(texts, step(i), Idle(st), Knows(st, {"v"}, {}, {}, {}))
  <2> SUFFICES ASSUME NEW i \in 1 .. n PROVE Lead(texts, step(i), Idle(st), Knows(st, {"v"}, {}, {}, {}))
    OBVIOUS
  <2>1. i \in Fields
    BY <1>2
  <2> QED BY <1>1, <2>1, Numbers, LocalNames, LeadElementAt DEF Idle
<1>4. ToSet(ks) = {ks[i] : i \in 1 .. n}
  BY <1>1 DEF ToSet
<1>5. IsFiniteSet(ToSet(ks))
  <2> HIDE DEF n, ks
  <2> QED BY <1>2, <1>4, FiniteKeys
<1>6. E = [i \in 1 .. n |-> <<ks[i], step(i)>>]
  BY DEF EntriesOf
<1>7. \A i \in 1 .. n : step(i) \in Seq(Micro(texts))
  BY <1>3 DEF Lead
<1> HIDE DEF n, ks, E, step
<1>8. E \in [1 .. n -> texts \X Seq(Micro(texts))]
  BY <1>1, <1>6, <1>7
<1>9. E \in Seq(texts \X Seq(Micro(texts))) /\ Len(E) = n
  BY ONLY <1>2, <1>8, AsSequence
<1>10. \A i \in 1 .. n : E[i][1] = ks[i] /\ E[i][2] = step(i)
  BY <1>6
<1>11. \A i \in 1 .. n : ks[i] \in texts \cap ToSet(ks)
  BY <1>1, <1>4
<1>12. \A i \in 1 .. n : E[i][1] \in texts \cap ToSet(ks)
  BY <1>10, <1>11
<1>13. \A i \in 1 .. n : Lead(texts, E[i][2], Idle(st), Knows(st, {"v"}, {}, {}, {}))
  BY <1>3, <1>10
<1> QED BY <1>2, <1>5, <1>9, <1>12, <1>13 DEF n, ks, E

LEMMA LeadMerge ==
  ASSUME NEW texts, NEW c, Ready(texts, c), c.fn = "merge", NEW st
  PROVE  Lead(texts, merge_fn(c), Idle(st), Idle(st))
<1> DEFINE E1 == EntriesOf(c, 1)
           E2 == EntriesOf(c, 2)
           K1 == ToSet(Keys(c, 1))
           K2 == ToSet(Keys(c, 2))
           V == Knows(st, {"v"}, {}, {}, {})
           M == texts \X Seq(Micro(texts))
           Good(e, K) == e[1] \in texts \cap K /\ Lead(texts, e[2], Idle(st), V)
           K == K1 \cup K2
           E == E1 \o E2
           n1 == P(c, 1).len
           n2 == P(c, 2).len
<1>1. Kind(c, 1) = "Map" /\ Kind(c, 2) = "Map" /\ Cardinality(K) <= NFields
  BY Rights
<1>2. 1 <= Arity(c.fn) /\ 2 <= Arity(c.fn)
  BY DEF Arity
<1>3. E1 \in Seq(M) /\ Len(E1) = n1 /\ n1 \in Nat /\ IsFiniteSet(K1) /\ \A i \in 1 .. n1 : Good(E1[i], K1)
  BY <1>1, <1>2, EntriesFacts
<1>4. E2 \in Seq(M) /\ Len(E2) = n2 /\ n2 \in Nat /\ IsFiniteSet(K2) /\ \A i \in 1 .. n2 : Good(E2[i], K2)
  BY <1>1, <1>2, EntriesFacts
<1>5. c.dst \in 0 .. NRegs /\ c.dst \in Nat
  BY ReadyTypes
<1>6. merge_fn(c) = NewMapOf(E, c.dst)
  BY DEF merge_fn
<1>7. IsFiniteSet(K)
  <2> HIDE DEF K1, K2
  <2> QED BY ONLY <1>3, <1>4, FS_Union
<1> HIDE DEF E1, E2, n1, n2, M, V, K1, K2
<1>8. Len(E) = n1 + n2 /\ \A i \in 1 .. Len(E) : \/ i \in 1 .. n1 /\ E[i] = E1[i]
                                                 \/ i - n1 \in 1 .. n2 /\ E[i] = E2[i - n1]
  BY <1>3, <1>4
<1>9. \A e : Good(e, K1) \/ Good(e, K2) => Good(e, K)
  OBVIOUS
<1>10. \A i \in 1 .. Len(E) : Good(E[i], K)
  <2> HIDE DEF Good, E, K
  <2> QED BY <1>3, <1>4, <1>8, <1>9
<1>11. Len(E) \in Nat
  BY <1>3, <1>4, <1>8
<1> HIDE DEF E, K
<1>12. Lead(texts, NewMapOf(E, c.dst), Idle(st), Idle(st))
  BY <1>1, <1>5, <1>7, <1>10, <1>11, LeadNewMapOf DEF V
<1> QED BY <1>6, <1>12 DEF E

LEMMA LeadInvert ==
  ASSUME NEW texts, NEW c, Ready(texts, c), c.fn = "invert", NEW st
  PROVE  Lead(texts, invert_fn(c), Idle(st), Idle(st))
<1> DEFINE n == P(c, 1).len
           V == Knows(st, {"v"}, {}, {}, {})
           key(i) == PayloadAt(SlotAt(roots[c.a[1]], 2, i)).text
           step(i) == Element("v", c.a[1], 1, i)
           E == [i \in 1 .. n |-> <<key(i), step(i)>>]
           f == [i \in 1 .. n |-> key(i)]
           K == {f[i] : i \in 1 .. n}
<1>1. Kind(c, 1) = "Map" /\ 1 <= Arity(c.fn)
  <2>1. Kind(c, 1) = "Map"
    BY Rights
  <2>2. 1 <= Arity(c.fn)
    BY DEF Arity
  <2> QED BY <2>1, <2>2
<1>2. c.a[1] \in Handles /\ n \in 0 .. NFields
  BY <1>1, ArgumentTypes
<1>3. n \in Nat /\ n <= NFields /\ NFields \in Nat /\ \A i \in 1 .. n : i \in Fields
  <2>1. n \in 0 .. NFields /\ NFields \in Nat
    BY <1>2, Numbers
  <2> HIDE DEF n
  <2> QED BY <2>1
<1>4. \A i \in 1 .. n : Lead(texts, step(i), Idle(st), V)
  <2> SUFFICES ASSUME NEW i \in 1 .. n PROVE Lead(texts, step(i), Idle(st), V)
    OBVIOUS
  <2>1. i \in Fields
    BY <1>3
  <2> QED BY <1>2, <2>1, Numbers, LocalNames, LeadElementAt DEF Idle
<1>5. \A i \in 1 .. n : key(i) \in texts
  BY DEF Ready
<1>6. c.dst \in 0 .. NRegs /\ c.dst \in Nat
  BY ReadyTypes
<1>7. invert_fn(c) = NewMapOf(E, c.dst)
  BY DEF invert_fn
<1> HIDE DEF n, V, key, step
<1>8. IsFiniteSet(K) /\ Cardinality(K) <= NFields
  <2>1. IsFiniteSet(1 .. n) /\ Cardinality(1 .. n) = n
    BY <1>3, FS_Interval
  <2>2. f \in [1 .. n -> K] /\ \A x \in K : \E i \in 1 .. n : f[i] = x
    OBVIOUS
  <2>3. f \in Surjection(1 .. n, K)
    BY <2>2 DEF Surjection, Range
  <2> HIDE DEF f, K
  <2>4. IsFiniteSet(K) /\ Cardinality(K) <= Cardinality(1 .. n)
    BY <2>1, <2>3, FS_Surjection
  <2>5. Cardinality(K) \in Nat
    BY <2>4, FS_CardinalityType
  <2> QED BY <1>3, <2>1, <2>4, <2>5
<1>9. \A i \in 1 .. n : E[i][1] = key(i) /\ E[i][2] = step(i) /\ key(i) \in K
  OBVIOUS
<1>10. E = [i \in 1 .. n |-> E[i]]
  OBVIOUS
<1>11. Len(E) = n
  <2>1. \A i \in 1 .. n : step(i) \in Seq(Micro(texts))
    BY <1>4 DEF Lead
  <2>2. E \in [1 .. n -> texts \X Seq(Micro(texts))]
    BY <1>5, <2>1
  <2> HIDE DEF E
  <2> QED BY <1>3, <2>2, AsSequence
<1> HIDE DEF E, K
<1>12. \A i \in 1 .. Len(E) : E[i][1] \in texts \cap K /\ Lead(texts, E[i][2], Idle(st), V)
  BY <1>4, <1>5, <1>9, <1>11
<1>13. Lead(texts, NewMapOf(E, c.dst), Idle(st), Idle(st))
  BY <1>3, <1>6, <1>8, <1>11, <1>12, LeadNewMapOf DEF V
<1> QED BY <1>7, <1>13 DEF E

\* The builtins that store without a barrier: nothing is asked of their stores.
LEMMA LeadFilled ==
  ASSUME NEW texts, NEW st, st = FALSE, NEW n \in 0 .. NFields, NEW dst \in 0 .. NRegs, NEW children,
         \A i \in 1 .. n : Lead(texts, children[i], Idle(st), Knows(st, {"x"}, {}, {}, {}))
  PROVE  Lead(texts, Filled(n, dst, children), Idle(st), Idle(st))
<1>1. n \in Nat /\ dst \in Nat /\ \A i \in 1 .. n : i \in Fields
  BY Numbers
<1> DEFINE a1 == new_array("arr", H(1), n)
           a2 == Root(H(1), "arr")
           a3 == Steps(n, LAMBDA i : children[i] \o << Read("arr", H(1)), Load("d", "arr", 1), Store("d", i, "x") >>)
           a4 == Read("arr", H(1))
           a5 == Drop(H(1))
           a6 == Ret(dst, "arr")
           A0 == Knows(st, {}, {}, {}, {})
           A1 == Knows(st, {"s", "arr"}, {"arr"}, {"arr"}, {})
           A2 == Knows(st, {"s", "arr"}, {"arr"}, {"arr"}, {})
           A3 == Knows(st, {}, {}, {}, {})
           A4 == Knows(st, {"arr"}, {}, {}, {})
           A5 == Knows(st, {"arr"}, {}, {}, {})
           A6 == Knows(st, {}, {}, {}, {})
<1>2. Lead(texts, a1, A0, A1)
  BY HandleNames, LocalNames, Numbers, <1>1, LeadNewArray
<1>3. Lead(texts, <<a2>>, A1, A2)
  BY HandleNames, LocalNames, Numbers, <1>1, LeadRoot
<1>4. Lead(texts, a3, A2, A3)
  <2> DEFINE t == [i \in 1 .. n |-> children[i] \o << Read("arr", H(1)), Load("d", "arr", 1), Store("d", i, "x") >>]
             I == Knows(st, {}, {}, {}, {})
  <2>1. ASSUME NEW i \in 1 .. n PROVE Lead(texts, children[i] \o << Read("arr", H(1)), Load("d", "arr", 1), Store("d", i, "x") >>, I, I)
    <3> DEFINE b1 == children[i]
               b2 == Read("arr", H(1))
               b3 == Load("d", "arr", 1)
               b4 == Store("d", i, "x")
               B0 == Knows(st, {}, {}, {}, {})
               B1 == Knows(st, {"x"}, {}, {}, {})
               B2 == Knows(st, {"x", "arr"}, {}, {}, {})
               B3 == Knows(st, {"d", "x", "arr"}, {}, {}, {})
               B4 == Knows(st, {}, {}, {}, {})
    <3>1. Lead(texts, b1, B0, B1)
      BY DEF Idle
    <3>2. Lead(texts, <<b2>>, B1, B2)
      BY HandleNames, LocalNames, Numbers, <1>1, LeadRead
    <3>3. Lead(texts, <<b3>>, B2, B3)
      BY HandleNames, LocalNames, Numbers, <1>1, LeadLoad
    <3>4. Lead(texts, <<b4>>, B3, B4)
      BY HandleNames, LocalNames, Numbers, <1>1, LeadStore
    <3> HIDE DEF b1, b2, b3, b4, B0, B1, B2, B3, B4
    <3>5. Lead(texts, <<b2, b3, b4>>, B1, B4)
      BY <3>2, <3>3, <3>4, Lead3, Zenon
    <3>6. Lead(texts, b1 \o <<b2, b3, b4>>, B0, B4)
      BY <3>1, <3>5, LeadThen
    <3>7. children[i] \o << Read("arr", H(1)), Load("d", "arr", 1), Store("d", i, "x") >> = b1 \o <<b2, b3, b4>>
      BY DEF b1, b2, b3, b4
    <3> QED BY <3>6, <3>7 DEF I, B0, B4
  <2>2. \A i \in 1 .. n : Lead(texts, t[i], I, I)
    BY <2>1
  <2>3. t = [i \in 1 .. n |-> t[i]] /\ n \in Nat
    BY <1>1
  <2>4. a3 = FlattenSeq(t)
    BY DEF Steps
  <2>5. A2 \subseteq I /\ I \subseteq A3
    BY KnowsLess
  <2> HIDE DEF t, I, a3, A2, A3
  <2>6. Lead(texts, FlattenSeq(t), I, I)
    BY <2>2, <2>3, LeadAll
  <2> QED BY <2>4, <2>5, <2>6, LeadWeaker
<1>5. Lead(texts, <<a4>>, A3, A4)
  BY HandleNames, LocalNames, Numbers, <1>1, LeadRead
<1>6. Lead(texts, <<a5>>, A4, A5)
  BY HandleNames, LocalNames, Numbers, <1>1, LeadRests
<1>7. Lead(texts, <<a6>>, A5, A6)
  BY HandleNames, LocalNames, Numbers, <1>1, LeadRests
<1> HIDE DEF a1, a2, a3, a4, a5, a6, A0, A1, A2, A3, A4, A5, A6
<1>8. Lead(texts, <<a4, a5, a6>>, A3, A6)
  BY <1>5, <1>6, <1>7, Lead3, Zenon
<1>9. Lead(texts, a1 \o <<a2>>, A0, A2)
  BY <1>2, <1>3, LeadThen
<1>10. Lead(texts, (a1 \o <<a2>>) \o a3, A0, A3)
  BY <1>9, <1>4, LeadThen
<1>11. Lead(texts, ((a1 \o <<a2>>) \o a3) \o <<a4, a5, a6>>, A0, A6)
  BY <1>10, <1>8, LeadThen
<1>12. Filled(n, dst, children) = ((a1 \o <<a2>>) \o a3) \o <<a4, a5, a6>>
  BY DEF Filled, a1, a2, a3, a4, a5, a6
<1> QED BY <1>11, <1>12 DEF Idle, A0, A6

LEMMA LeadPairOf ==
  ASSUME NEW texts, NEW st, st = FALSE, NEW first, NEW second, 2 \in 0 .. NFields,
         \A q \in {first, second} : Lead(texts, q, Knows(st, {"d", "x"}, {}, {}, {}), Knows(st, {"d", "x", "v"}, {}, {}, {}))
  PROVE  Lead(texts, PairOf(first, second), Idle(st), Knows(st, {"x"}, {}, {}, {}))
<1> DEFINE a1 == new_array("x", H(2), 2)
           a2 == << Load("d", "x", 1) >>
           a3 == first
           a4 == << Store("d", 1, "v") >>
           a5 == second
           a6 == << Store("d", 2, "v") >>
           A0 == Knows(st, {}, {}, {}, {})
           A1 == Knows(st, {"s", "x"}, {"x"}, {"x"}, {})
           A2 == Knows(st, {"d", "x"}, {}, {}, {})
           A3 == Knows(st, {"v", "d", "x"}, {}, {}, {})
           A4 == Knows(st, {"d", "x"}, {}, {}, {})
           A5 == Knows(st, {"v", "d", "x"}, {}, {}, {})
           A6 == Knows(st, {"x"}, {}, {}, {})
<1>1. Lead(texts, a1, A0, A1)
  BY HandleNames, LocalNames, Numbers, LeadNewArray
<1>2. Lead(texts, a2, A1, A2)
  BY HandleNames, LocalNames, Numbers, LeadLoad
<1>3. Lead(texts, a3, A2, A3)
  OBVIOUS
<1>4. Lead(texts, a4, A3, A4)
  BY HandleNames, LocalNames, Numbers, LeadStore
<1>5. Lead(texts, a5, A4, A5)
  OBVIOUS
<1>6. Lead(texts, a6, A5, A6)
  BY HandleNames, LocalNames, Numbers, LeadStore
<1> HIDE DEF a1, a2, a3, a4, a5, a6, A0, A1, A2, A3, A4, A5, A6
<1>7. Lead(texts, a1 \o a2, A0, A2)
  BY <1>1, <1>2, LeadThen
<1>8. Lead(texts, (a1 \o a2) \o a3, A0, A3)
  BY <1>7, <1>3, LeadThen
<1>9. Lead(texts, ((a1 \o a2) \o a3) \o a4, A0, A4)
  BY <1>8, <1>4, LeadThen
<1>10. Lead(texts, (((a1 \o a2) \o a3) \o a4) \o a5, A0, A5)
  BY <1>9, <1>5, LeadThen
<1>11. Lead(texts, ((((a1 \o a2) \o a3) \o a4) \o a5) \o a6, A0, A6)
  BY <1>10, <1>6, LeadThen
<1>12. PairOf(first, second) = ((((a1 \o a2) \o a3) \o a4) \o a5) \o a6
  BY DEF PairOf, a1, a2, a3, a4, a5, a6
<1> QED BY <1>11, <1>12 DEF Idle, A0, A6

LEMMA LeadZip ==
  ASSUME NEW texts, NEW c, Ready(texts, c), c.fn = "zip", NEW st, st = FALSE
  PROVE  Lead(texts, zip_fn(c), Idle(st), Idle(st))
<1> DEFINE n == (IF P(c, 1).len < P(c, 2).len THEN P(c, 1).len ELSE P(c, 2).len)
           first(i) == Element("v", c.a[1], 1, i)
           second(i) == Element("v", c.a[2], 1, i)
           t == [i \in 1 .. n |-> PairOf(first(i), second(i))]
           D == Knows(st, {"d", "x"}, {}, {}, {})
           V == Knows(st, {"d", "x", "v"}, {}, {}, {})
<1>1. Kind(c, 1) = "Array" /\ Kind(c, 2) = "Array"
  BY Rights
<1>2. 1 <= Arity(c.fn) /\ 2 <= Arity(c.fn)
  BY DEF Arity
<1>3. c.a[1] \in Handles /\ P(c, 1).len \in 0 .. NFields /\ P(c, 1).cap \in Nat /\ c.a[2] \in Handles /\ P(c, 2).len \in 0 .. NFields /\ P(c, 2).cap \in Nat
  BY <1>1, <1>2, ArgumentTypes
<1>4. c.dst \in 0 .. NRegs /\ c.dst \in Nat
  BY <1>1, <1>3, ReadyTypes, Numbers
<1>5. n \in 0 .. NFields
  BY <1>1, <1>3, <1>4, Numbers, HandleNames, LocalNames
<1>6. 2 \in 0 .. NFields /\ \A i \in 1 .. n : i \in Fields
  <2>1. n \in 0 .. NFields /\ NFields \in Nat /\ NFields >= 2
    BY <1>5, Numbers, BuiltinsAssumption
  <2> HIDE DEF n
  <2> QED BY <2>1
<1>7. \A i \in 1 .. n : Lead(texts, first(i), D, V) /\ Lead(texts, second(i), D, V)
  <2> SUFFICES ASSUME NEW i \in 1 .. n PROVE Lead(texts, first(i), D, V) /\ Lead(texts, second(i), D, V)
    OBVIOUS
  <2>1. i \in Fields
    BY <1>6
  <2>2. Lead(texts, first(i), D, V)
    BY <2>1, <1>1, <1>3, <1>4, Numbers, HandleNames, LocalNames, LeadElementAt
  <2>3. Lead(texts, second(i), D, V)
    BY <2>1, <1>1, <1>3, <1>4, Numbers, HandleNames, LocalNames, LeadElementAt
  <2> QED BY <2>2, <2>3
<1>8. zip_fn(c) = Filled(n, c.dst, t)
  BY DEF zip_fn
<1> HIDE DEF first, second, n
<1>9. \A i \in 1 .. n : Lead(texts, t[i], Idle(st), Knows(st, {"x"}, {}, {}, {}))
  <2> SUFFICES ASSUME NEW i \in 1 .. n PROVE Lead(texts, PairOf(first(i), second(i)), Idle(st), Knows(st, {"x"}, {}, {}, {}))
    OBVIOUS
  <2> DEFINE p == first(i)
             q == second(i)
  <2>1. \A r \in {p, q} : Lead(texts, r, D, V)
    BY <1>7
  <2> HIDE DEF p, q
  <2>2. Lead(texts, PairOf(p, q), Idle(st), Knows(st, {"x"}, {}, {}, {}))
    BY <2>1, <1>6, LeadPairOf
  <2> QED BY <2>2 DEF p, q
<1> HIDE DEF t
<1>10. Lead(texts, Filled(n, c.dst, t), Idle(st), Idle(st))
  BY <1>5, <1>9, <1>4, LeadFilled
<1> QED BY <1>8, <1>10

LEMMA LeadEntries ==
  ASSUME NEW texts, NEW c, Ready(texts, c), c.fn = "entries", NEW st, st = FALSE
  PROVE  Lead(texts, entries_fn(c), Idle(st), Idle(st))
<1> DEFINE n == P(c, 1).len
           first(i) == Element("v", c.a[1], 1, i)
           second(i) == Element("v", c.a[1], 2, i)
           t == [i \in 1 .. n |-> PairOf(first(i), second(i))]
           D == Knows(st, {"d", "x"}, {}, {}, {})
           V == Knows(st, {"d", "x", "v"}, {}, {}, {})
<1>1. Kind(c, 1) = "Map"
  BY Rights
<1>2. 1 <= Arity(c.fn)
  BY DEF Arity
<1>3. c.a[1] \in Handles /\ P(c, 1).len \in 0 .. NFields /\ P(c, 1).cap \in Nat
  BY <1>1, <1>2, ArgumentTypes
<1>4. c.dst \in 0 .. NRegs /\ c.dst \in Nat
  BY <1>1, <1>3, ReadyTypes, Numbers
<1>5. n \in 0 .. NFields
  BY <1>1, <1>3, <1>4, Numbers, HandleNames, LocalNames
<1>6. 2 \in 0 .. NFields /\ \A i \in 1 .. n : i \in Fields
  <2>1. n \in 0 .. NFields /\ NFields \in Nat /\ NFields >= 2
    BY <1>5, Numbers, BuiltinsAssumption
  <2> HIDE DEF n
  <2> QED BY <2>1
<1>7. \A i \in 1 .. n : Lead(texts, first(i), D, V) /\ Lead(texts, second(i), D, V)
  <2> SUFFICES ASSUME NEW i \in 1 .. n PROVE Lead(texts, first(i), D, V) /\ Lead(texts, second(i), D, V)
    OBVIOUS
  <2>1. i \in Fields
    BY <1>6
  <2>2. Lead(texts, first(i), D, V)
    BY <2>1, <1>1, <1>3, <1>4, Numbers, HandleNames, LocalNames, LeadElementAt
  <2>3. Lead(texts, second(i), D, V)
    BY <2>1, <1>1, <1>3, <1>4, Numbers, HandleNames, LocalNames, LeadElementAt
  <2> QED BY <2>2, <2>3
<1>8. entries_fn(c) = Filled(n, c.dst, t)
  BY DEF entries_fn
<1> HIDE DEF first, second, n
<1>9. \A i \in 1 .. n : Lead(texts, t[i], Idle(st), Knows(st, {"x"}, {}, {}, {}))
  <2> SUFFICES ASSUME NEW i \in 1 .. n PROVE Lead(texts, PairOf(first(i), second(i)), Idle(st), Knows(st, {"x"}, {}, {}, {}))
    OBVIOUS
  <2> DEFINE p == first(i)
             q == second(i)
  <2>1. \A r \in {p, q} : Lead(texts, r, D, V)
    BY <1>7
  <2> HIDE DEF p, q
  <2>2. Lead(texts, PairOf(p, q), Idle(st), Knows(st, {"x"}, {}, {}, {}))
    BY <2>1, <1>6, LeadPairOf
  <2> QED BY <2>2 DEF p, q
<1> HIDE DEF t
<1>10. Lead(texts, Filled(n, c.dst, t), Idle(st), Idle(st))
  BY <1>5, <1>9, <1>4, LeadFilled
<1> QED BY <1>8, <1>10

LEMMA LeadSplit ==
  ASSUME NEW texts, NEW c, Ready(texts, c), c.fn = "split", NEW st, st = FALSE
  PROVE  Lead(texts, split_fn(c), Idle(st), Idle(st))
<1> DEFINE t == [i \in 1 .. c.n |-> new_string("x", H(2), c.key)]
<1>1. c.n <= NFields /\ c.n \in Nat /\ c.key \in texts /\ c.dst \in 0 .. NRegs
  BY Rights, ReadyTypes
<1>2. c.n \in 0 .. NFields
  BY <1>1
<1>3. Lead(texts, new_string("x", H(2), c.key), Idle(st), Knows(st, {"x", "b"}, {"x"}, {"x"}, {}))
  BY <1>1, LocalNames, HandleNames, LeadNewString DEF Idle
<1>4. Lead(texts, new_string("x", H(2), c.key), Idle(st), Knows(st, {"x"}, {}, {}, {}))
  BY <1>3, KnowsLess, LeadWeaker
<1>5. \A i \in 1 .. c.n : Lead(texts, t[i], Idle(st), Knows(st, {"x"}, {}, {}, {}))
  BY <1>4
<1>6. split_fn(c) = Filled(c.n, c.dst, t)
  BY DEF split_fn
<1> HIDE DEF t
<1>7. Lead(texts, Filled(c.n, c.dst, t), Idle(st), Idle(st))
  BY <1>1, <1>2, <1>5, LeadFilled
<1> QED BY <1>6, <1>7

LEMMA LeadChunkOf ==
  ASSUME NEW texts, NEW st, st = FALSE, NEW r \in Handles, NEW i \in Fields, 1 \in 0 .. NFields
  PROVE  Lead(texts, new_array("x", H(2), 1) \o << Load("s", "x", 1) >> \o Element("v", r, 1, i) \o << Store("s", 1, "v") >>,
              Idle(st), Knows(st, {"x"}, {}, {}, {}))
<1> DEFINE a1 == new_array("x", H(2), 1)
           a2 == << Load("s", "x", 1) >>
           a3 == Element("v", r, 1, i)
           a4 == << Store("s", 1, "v") >>
           A0 == Knows(st, {}, {}, {}, {})
           A1 == Knows(st, {"s", "x"}, {"x"}, {"x"}, {})
           A2 == Knows(st, {"s", "x"}, {}, {}, {})
           A3 == Knows(st, {"v", "s", "x"}, {}, {}, {})
           A4 == Knows(st, {"x"}, {}, {}, {})
<1>1. Lead(texts, a1, A0, A1)
  BY HandleNames, LocalNames, Numbers, LeadNewArray
<1>2. Lead(texts, a2, A1, A2)
  BY HandleNames, LocalNames, Numbers, LeadLoad
<1>3. Lead(texts, a3, A2, A3)
  BY HandleNames, LocalNames, Numbers, LeadElementAt
<1>4. Lead(texts, a4, A3, A4)
  BY HandleNames, LocalNames, Numbers, LeadStore
<1> HIDE DEF a1, a2, a3, a4, A0, A1, A2, A3, A4
<1>5. Lead(texts, a1 \o a2, A0, A2)
  BY <1>1, <1>2, LeadThen
<1>6. Lead(texts, (a1 \o a2) \o a3, A0, A3)
  BY <1>5, <1>3, LeadThen
<1>7. Lead(texts, ((a1 \o a2) \o a3) \o a4, A0, A4)
  BY <1>6, <1>4, LeadThen
<1>8. new_array("x", H(2), 1) \o << Load("s", "x", 1) >> \o Element("v", r, 1, i) \o << Store("s", 1, "v") >> = ((a1 \o a2) \o a3) \o a4
  BY DEF a1, a2, a3, a4
<1> QED BY <1>7, <1>8 DEF Idle, A0, A4

LEMMA LeadChunk ==
  ASSUME NEW texts, NEW c, Ready(texts, c), c.fn = "chunk", NEW st, st = FALSE
  PROVE  Lead(texts, chunk_fn(c), Idle(st), Idle(st))
<1> DEFINE n == P(c, 1).len
           child(i) == new_array("x", H(2), 1) \o << Load("s", "x", 1) >> \o Element("v", c.a[1], 1, i) \o << Store("s", 1, "v") >>
           t == [i \in 1 .. n |-> child(i)]
<1>1. Kind(c, 1) = "Array"
  BY Rights
<1>2. 1 <= Arity(c.fn)
  BY DEF Arity
<1>3. c.a[1] \in Handles /\ n \in 0 .. NFields
  BY <1>1, <1>2, ArgumentTypes
<1>4. c.dst \in 0 .. NRegs
  BY ReadyTypes
<1>5. 1 \in 0 .. NFields /\ \A i \in 1 .. n : i \in Fields
  <2>1. n \in 0 .. NFields /\ NFields \in Nat /\ NFields >= 2
    BY <1>3, Numbers, BuiltinsAssumption
  <2> HIDE DEF n
  <2> QED BY <2>1
<1>6. chunk_fn(c) = Filled(n, c.dst, t)
  BY DEF chunk_fn
<1>7. \A i \in 1 .. n : Lead(texts, child(i), Idle(st), Knows(st, {"x"}, {}, {}, {}))
  BY <1>3, <1>5, LeadChunkOf
<1> HIDE DEF n, child
<1>8. \A i \in 1 .. n : Lead(texts, t[i], Idle(st), Knows(st, {"x"}, {}, {}, {}))
  BY <1>7
<1> HIDE DEF t
<1>9. Lead(texts, Filled(n, c.dst, t), Idle(st), Idle(st))
  BY <1>3, <1>4, <1>8, LeadFilled
<1> QED BY <1>6, <1>9

LEMMA LeadHalf ==
  ASSUME NEW texts, NEW st, st = FALSE, NEW n \in 0 .. NFields, NEW f \in Fields
  PROVE  Lead(texts, new_array("x", H(2), n) \o << Read("arr", H(1)), Load("d", "arr", 1), Store("d", f, "x") >>,
              Idle(st), Idle(st))
<1> DEFINE a1 == new_array("x", H(2), n)
           a2 == Read("arr", H(1))
           a3 == Load("d", "arr", 1)
           a4 == Store("d", f, "x")
           A0 == Knows(st, {}, {}, {}, {})
           A1 == Knows(st, {"s", "x"}, {"x"}, {"x"}, {})
           A2 == Knows(st, {"s", "x", "arr"}, {"x"}, {"x"}, {})
           A3 == Knows(st, {"s", "d", "x", "arr"}, {"x"}, {"x"}, {})
           A4 == Knows(st, {}, {}, {}, {})
<1>1. Lead(texts, a1, A0, A1)
  BY HandleNames, LocalNames, Numbers, LeadNewArray
<1>2. Lead(texts, <<a2>>, A1, A2)
  BY HandleNames, LocalNames, Numbers, LeadRead
<1>3. Lead(texts, <<a3>>, A2, A3)
  BY HandleNames, LocalNames, Numbers, LeadLoad
<1>4. Lead(texts, <<a4>>, A3, A4)
  BY HandleNames, LocalNames, Numbers, LeadStore
<1> HIDE DEF a1, a2, a3, a4, A0, A1, A2, A3, A4
<1>5. Lead(texts, <<a2, a3, a4>>, A1, A4)
  BY <1>2, <1>3, <1>4, Lead3, Zenon
<1>6. Lead(texts, a1 \o <<a2, a3, a4>>, A0, A4)
  BY <1>1, <1>5, LeadThen
<1>7. new_array("x", H(2), n) \o << Read("arr", H(1)), Load("d", "arr", 1), Store("d", f, "x") >> = a1 \o <<a2, a3, a4>>
  BY DEF a1, a2, a3, a4
<1> QED BY <1>6, <1>7 DEF Idle, A0, A4

LEMMA LeadUnzipOne ==
  ASSUME NEW texts, NEW st, st = FALSE, NEW r \in Handles, NEW i \in Fields, NEW f \in Fields
  PROVE  Lead(texts, Element("v", r, 1, i) \o << Load("v", "v", 1), Load("v", "v", f), Read("arr", H(1)),
                       Load("s", "arr", 1), Load("d", "s", f), Load("d", "d", 1), Store("d", i, "v") >>,
              Idle(st), Idle(st))
<1> DEFINE a1 == Element("v", r, 1, i)
           a2 == Load("v", "v", 1)
           a3 == Load("v", "v", f)
           a4 == Read("arr", H(1))
           a5 == Load("s", "arr", 1)
           a6 == Load("d", "s", f)
           a7 == Load("d", "d", 1)
           a8 == Store("d", i, "v")
           A0 == Knows(st, {}, {}, {}, {})
           A1 == Knows(st, {"v"}, {}, {}, {})
           A2 == Knows(st, {"v"}, {}, {}, {})
           A3 == Knows(st, {"v"}, {}, {}, {})
           A4 == Knows(st, {"v", "arr"}, {}, {}, {})
           A5 == Knows(st, {"v", "s", "arr"}, {}, {}, {})
           A6 == Knows(st, {"v", "s", "d", "arr"}, {}, {}, {})
           A7 == Knows(st, {"v", "s", "d", "arr"}, {}, {}, {})
           A8 == Knows(st, {}, {}, {}, {})
<1>1. Lead(texts, a1, A0, A1)
  BY HandleNames, LocalNames, Numbers, LeadElementAt
<1>2. Lead(texts, <<a2>>, A1, A2)
  BY HandleNames, LocalNames, Numbers, LeadLoad
<1>3. Lead(texts, <<a3>>, A2, A3)
  BY HandleNames, LocalNames, Numbers, LeadLoad
<1>4. Lead(texts, <<a4>>, A3, A4)
  BY HandleNames, LocalNames, Numbers, LeadRead
<1>5. Lead(texts, <<a5>>, A4, A5)
  BY HandleNames, LocalNames, Numbers, LeadLoad
<1>6. Lead(texts, <<a6>>, A5, A6)
  BY HandleNames, LocalNames, Numbers, LeadLoad
<1>7. Lead(texts, <<a7>>, A6, A7)
  BY HandleNames, LocalNames, Numbers, LeadLoad
<1>8. Lead(texts, <<a8>>, A7, A8)
  BY HandleNames, LocalNames, Numbers, LeadStore
<1> HIDE DEF a1, a2, a3, a4, a5, a6, a7, a8, A0, A1, A2, A3, A4, A5, A6, A7, A8
<1>9. a2 \in Micro(texts) /\ a3 \in Micro(texts) /\ a4 \in Micro(texts) /\ a5 \in Micro(texts) /\ a6 \in Micro(texts) /\ a7 \in Micro(texts) /\ a8 \in Micro(texts)
  BY <1>2, <1>3, <1>4, <1>5, <1>6, <1>7, <1>8, LeadElement
<1>10. Lead(texts, <<a2, a3, a4, a5>>, A1, A5)
  BY <1>2, <1>3, <1>4, <1>5, Lead4, Zenon
<1>11. Lead(texts, <<a6, a7, a8>>, A5, A8)
  BY <1>6, <1>7, <1>8, Lead3, Zenon
<1>12. <<a2, a3, a4, a5, a6, a7, a8>> = <<a2, a3, a4, a5>> \o <<a6, a7, a8>>
  BY <1>9
<1>13. Lead(texts, <<a2, a3, a4, a5, a6, a7, a8>>, A1, A8)
  BY <1>10, <1>11, <1>12, LeadThen
<1>14. Lead(texts, a1 \o <<a2, a3, a4, a5, a6, a7, a8>>, A0, A8)
  BY <1>1, <1>13, LeadThen
<1>15. Element("v", r, 1, i) \o << Load("v", "v", 1), Load("v", "v", f), Read("arr", H(1)), Load("s", "arr", 1), Load("d", "s", f), Load("d", "d", 1), Store("d", i, "v") >> = a1 \o <<a2, a3, a4, a5, a6, a7, a8>>
  BY DEF a1, a2, a3, a4, a5, a6, a7, a8
<1> QED BY <1>14, <1>15 DEF Idle, A0, A8

LEMMA LeadUnzip ==
  ASSUME NEW texts, NEW c, Ready(texts, c), c.fn = "unzip", NEW st, st = FALSE
  PROVE  Lead(texts, unzip_fn(c), Idle(st), Idle(st))
<1> DEFINE n == P(c, 1).len
           Half(f) == new_array("x", H(2), n) \o << Read("arr", H(1)), Load("d", "arr", 1), Store("d", f, "x") >>
           One(i, f) == Element("v", c.a[1], 1, i) \o << Load("v", "v", 1), Load("v", "v", f), Read("arr", H(1)),
                          Load("s", "arr", 1), Load("d", "s", f), Load("d", "d", 1), Store("d", i, "v") >>
           both(i) == [f \in 1 .. 2 |-> One(i, f)]
           t == [i \in 1 .. n |-> FlattenSeq(both(i))]
<1>1. Kind(c, 1) = "Array"
  BY Rights
<1>2. 1 <= Arity(c.fn)
  BY DEF Arity
<1>3. c.a[1] \in Handles /\ n \in 0 .. NFields
  BY <1>1, <1>2, ArgumentTypes
<1>4. c.dst \in 0 .. NRegs /\ c.dst \in Nat
  BY ReadyTypes
<1>5. 2 \in 0 .. NFields /\ n \in Nat /\ \A i \in 1 .. n : i \in Fields
  <2>1. n \in 0 .. NFields /\ NFields \in Nat /\ NFields >= 2
    BY <1>3, Numbers, BuiltinsAssumption
  <2> HIDE DEF n
  <2> QED BY <2>1
<1>6. Lead(texts, Half(1), Idle(st), Idle(st)) /\ Lead(texts, Half(2), Idle(st), Idle(st))
  BY <1>3, Numbers, LeadHalf
<1>7. \A i \in 1 .. n : \A f \in 1 .. 2 : Lead(texts, One(i, f), Idle(st), Idle(st))
  <2> SUFFICES ASSUME NEW i \in 1 .. n, NEW f \in 1 .. 2 PROVE Lead(texts, One(i, f), Idle(st), Idle(st))
    OBVIOUS
  <2>1. i \in Fields /\ f \in Fields
    BY <1>5, Numbers
  <2> QED BY <1>3, <2>1, LeadUnzipOne
<1> HIDE DEF One
<1>8. \A i \in 1 .. n : Lead(texts, FlattenSeq(both(i)), Idle(st), Idle(st))
  <2> SUFFICES ASSUME NEW i \in 1 .. n PROVE Lead(texts, FlattenSeq(both(i)), Idle(st), Idle(st))
    OBVIOUS
  <2> DEFINE u == both(i)
  <2>1. u = [f \in 1 .. 2 |-> u[f]] /\ \A f \in 1 .. 2 : Lead(texts, u[f], Idle(st), Idle(st))
    BY <1>7
  <2> HIDE DEF u
  <2>2. Lead(texts, FlattenSeq(u), Idle(st), Idle(st))
    BY <2>1, LeadAll
  <2> QED BY <2>2 DEF u
<1> HIDE DEF both
<1>9. Lead(texts, FlattenSeq(t), Idle(st), Idle(st))
  <2>1. t = [i \in 1 .. n |-> t[i]] /\ \A i \in 1 .. n : Lead(texts, t[i], Idle(st), Idle(st))
    BY <1>8
  <2> HIDE DEF t, n
  <2> QED BY <1>5, <2>1, LeadAll
<1> DEFINE a1 == new_array("arr", H(1), 2)
           a2 == Root(H(1), "arr")
           a3 == Half(1)
           a4 == Half(2)
           a5 == Steps(n, LAMBDA i : FlattenSeq([f \in 1 .. 2 |-> One(i, f)]))
           a6 == Read("arr", H(1))
           a7 == Drop(H(1))
           a8 == Ret(c.dst, "arr")
           A0 == Knows(st, {}, {}, {}, {})
           A1 == Knows(st, {"s", "arr"}, {"arr"}, {"arr"}, {})
           A2 == Knows(st, {"s", "arr"}, {"arr"}, {"arr"}, {})
           A3 == Knows(st, {}, {}, {}, {})
           A4 == Knows(st, {}, {}, {}, {})
           A5 == Knows(st, {}, {}, {}, {})
           A6 == Knows(st, {"arr"}, {}, {}, {})
           A7 == Knows(st, {"arr"}, {}, {}, {})
           A8 == Knows(st, {}, {}, {}, {})
<1>10. Lead(texts, a1, A0, A1)
  BY <1>5, HandleNames, LocalNames, LeadNewArray
<1>11. Lead(texts, <<a2>>, A1, A2)
  BY HandleNames, LocalNames, Numbers, LeadRoot
<1>12. Lead(texts, a3, A2, A3)
  BY <1>6, KnowsLess, LeadWeaker DEF Idle
<1>13. Lead(texts, a4, A3, A4)
  BY <1>6 DEF Idle
<1>14. Lead(texts, a5, A4, A5)
  BY <1>9 DEF Steps, Idle, both
<1>15. Lead(texts, <<a6>>, A5, A6)
  BY HandleNames, LocalNames, Numbers, LeadRead
<1>16. Lead(texts, <<a7>>, A6, A7)
  BY <1>4, HandleNames, LocalNames, Numbers, LeadRests
<1>17. Lead(texts, <<a8>>, A7, A8)
  BY <1>4, HandleNames, LocalNames, Numbers, LeadRests
<1> HIDE DEF a1, a2, a3, a4, a5, a6, a7, a8, A0, A1, A2, A3, A4, A5, A6, A7, A8
<1>18. Lead(texts, <<a6, a7, a8>>, A5, A8)
  BY <1>15, <1>16, <1>17, Lead3, Zenon
<1>19. Lead(texts, a1 \o <<a2>>, A0, A2)
  BY <1>10, <1>11, LeadThen
<1>20. Lead(texts, (a1 \o <<a2>>) \o a3, A0, A3)
  BY <1>19, <1>12, LeadThen
<1>21. Lead(texts, ((a1 \o <<a2>>) \o a3) \o a4, A0, A4)
  BY <1>20, <1>13, LeadThen
<1>22. Lead(texts, (((a1 \o <<a2>>) \o a3) \o a4) \o a5, A0, A5)
  BY <1>21, <1>14, LeadThen
<1>23. Lead(texts, ((((a1 \o <<a2>>) \o a3) \o a4) \o a5) \o <<a6, a7, a8>>, A0, A8)
  BY <1>22, <1>18, LeadThen
<1>24. unzip_fn(c) = ((((a1 \o <<a2>>) \o a3) \o a4) \o a5) \o <<a6, a7, a8>>
  BY DEF unzip_fn, One, a1, a2, a3, a4, a5, a6, a7, a8
<1> QED BY <1>23, <1>24 DEF Idle, A0, A8

-----------------------------------------------------------------------------
(***************************************************************************)
(* Every call.                                                             *)
(***************************************************************************)
LEMMA LeadCode ==
  ASSUME NEW texts, NEW c, Ready(texts, c), NEW st, c.fn \in Unbarriered => st = FALSE
  PROVE  Lead(texts, Code(c), Idle(st), Idle(st))
<1>1. CASE c.fn = "new_string"
  <2>1. Code(c) = new_string("x", H(1), c.key) \o << Ret(c.dst, "x") >>
    BY <1>1 DEF Code
  <2> QED BY <1>1, <2>1, LeadCallString
<1>2. CASE c.fn = "new_array"
  <2>1. Code(c) = new_array("x", H(1), c.n) \o << Ret(c.dst, "x") >>
    BY <1>2 DEF Code
  <2> QED BY <1>2, <2>1, LeadCallArray
<1>3. CASE c.fn = "new_map"
  <2>1. Code(c) = new_map("x") \o << Ret(c.dst, "x") >>
    BY <1>3 DEF Code
  <2> QED BY <1>3, <2>1, LeadCallMap
<1>4. CASE c.fn = "push"
  <2>1. Code(c) = Push(c)
    BY <1>4 DEF Code
  <2> QED BY <1>4, <2>1, LeadPush
<1>5. CASE c.fn = "insert"
  <2>1. Code(c) = insert_fn(c)
    BY <1>5 DEF Code
  <2> QED BY <1>5, <2>1, LeadInsert
<1>6. CASE c.fn = "set_elem"
  <2>1. Code(c) = SetElement(c)
    BY <1>6 DEF Code
  <2> QED BY <1>6, <2>1, LeadSetElement
<1>7. CASE c.fn = "pop"
  <2>1. Code(c) = pop_fn(c)
    BY <1>7 DEF Code
  <2> QED BY <1>7, <2>1, LeadPop
<1>8. CASE c.fn = "remove"
  <2>1. Code(c) = remove_fn(c)
    BY <1>8 DEF Code
  <2> QED BY <1>8, <2>1, LeadRemove
<1>9. CASE c.fn = "set"
  <2>1. Code(c) = SetProperty(c)
    BY <1>9 DEF Code
  <2> QED BY <1>9, <2>1, LeadSetProperty
<1>10. CASE c.fn = "remove_key"
  <2>1. Code(c) = remove_key_fn(c)
    BY <1>10 DEF Code
  <2> QED BY <1>10, <2>1, LeadRemoveKey
<1>11. CASE c.fn = "closure"
  <2>1. Code(c) = Closure(c)
    BY <1>11 DEF Code
  <2> QED BY <1>11, <2>1, LeadClosure
<1>12. CASE c.fn = "slice"
  <2>1. Code(c) = slice_fn(c)
    BY <1>12 DEF Code
  <2> QED BY <1>12, <2>1, LeadSlice
<1>13. CASE c.fn = "fill"
  <2>1. Code(c) = fill_fn(c)
    BY <1>13 DEF Code
  <2> QED BY <1>13, <2>1, LeadFill
<1>14. CASE c.fn = "concat_arr"
  <2>1. Code(c) = concat_arr_fn(c)
    BY <1>14 DEF Code
  <2> QED BY <1>14, <2>1, LeadConcat
<1>15. CASE c.fn = "keys"
  <2>1. Code(c) = KeysOrValues(c, 1)
    BY <1>15 DEF Code
  <2> QED BY <1>15, <2>1, LeadKeys
<1>16. CASE c.fn = "values"
  <2>1. Code(c) = KeysOrValues(c, 2)
    BY <1>16 DEF Code
  <2> QED BY <1>16, <2>1, LeadValues
<1>17. CASE c.fn = "iter"
  <2>1. Code(c) = iter_fn(c)
    BY <1>17 DEF Code
  <2> QED BY <1>17, <2>1, LeadIter
<1>18. CASE c.fn = "next"
  <2>1. Code(c) = next_fn(c)
    BY <1>18 DEF Code
  <2> QED BY <1>18, <2>1, LeadNext
<1>19. CASE c.fn = "format_join"
  <2>1. Code(c) = format_join_fn(c)
    BY <1>19 DEF Code
  <2> QED BY <1>19, <2>1, LeadFormatJoin
<1>20. CASE c.fn = "merge"
  <2>1. Code(c) = merge_fn(c)
    BY <1>20 DEF Code
  <2> QED BY <1>20, <2>1, LeadMerge
<1>21. CASE c.fn = "invert"
  <2>1. Code(c) = invert_fn(c)
    BY <1>21 DEF Code
  <2> QED BY <1>21, <2>1, LeadInvert
<1>22. CASE c.fn = "split"
  <2>1. Code(c) = split_fn(c)
    BY <1>22 DEF Code
  <2>2. st = FALSE
    BY <1>22 DEF Unbarriered
  <2> QED BY <1>22, <2>1, <2>2, LeadSplit
<1>23. CASE c.fn = "zip"
  <2>1. Code(c) = zip_fn(c)
    BY <1>23 DEF Code
  <2>2. st = FALSE
    BY <1>23 DEF Unbarriered
  <2> QED BY <1>23, <2>1, <2>2, LeadZip
<1>24. CASE c.fn = "entries"
  <2>1. Code(c) = entries_fn(c)
    BY <1>24 DEF Code
  <2>2. st = FALSE
    BY <1>24 DEF Unbarriered
  <2> QED BY <1>24, <2>1, <2>2, LeadEntries
<1>25. CASE c.fn = "chunk"
  <2>1. Code(c) = chunk_fn(c)
    BY <1>25 DEF Code
  <2>2. st = FALSE
    BY <1>25 DEF Unbarriered
  <2> QED BY <1>25, <2>1, <2>2, LeadChunk
<1>26. CASE c.fn = "unzip"
  <2>1. Code(c) = unzip_fn(c)
    BY <1>26 DEF Code
  <2>2. st = FALSE
    BY <1>26 DEF Unbarriered
  <2> QED BY <1>26, <2>1, <2>2, LeadUnzip
<1>27. c.fn \in CallNames
  BY DEF Ready, CallSet
<1> QED BY <1>27, <1>1, <1>2, <1>3, <1>4, <1>5, <1>6, <1>7, <1>8, <1>9, <1>10, <1>11, <1>12, <1>13, <1>14, <1>15, <1>16, <1>17, <1>18, <1>19, <1>20, <1>21, <1>22, <1>23, <1>24, <1>25, <1>26 DEF CallNames

\* Nothing is known before a call.
Start(st) == [strict |-> st, fresh |-> {}, young |-> {}, lone |-> {}, box |-> {}, rlone |-> {},
              ryoung |-> {}, last |-> {}, owed |-> {}]

\* The steps of a call are safe.
LEMMA SafeCode ==
  ASSUME NEW texts, NEW c, Ready(texts, c), NEW st \in BOOLEAN, c.fn \in Unbarriered => st = FALSE
  PROVE  Code(c) \in Seq(Micro(texts)) /\ Safe(Code(c), Start(st)) /\ Start(st) \in States
<1>1. Lead(texts, Code(c), Idle(st), Idle(st))
  BY LeadCode
<1>2. Start(st) \in States
  BY DEF Start, States
<1>3. Start(st) \in Idle(st)
  BY <1>2 DEF Idle, Knows, Start
<1>4. \A z \in Idle(st) : Safe(<<>>, z)
  BY SafeEnd DEF Idle, Knows
<1>5. Code(c) \in Seq(Micro(texts)) /\ <<>> \in Seq(Micro(texts))
  BY <1>1 DEF Lead
<1>6. Safe(Code(c) \o <<>>, Start(st))
  BY <1>1, <1>3, <1>4, <1>5 DEF Lead
<1>7. Code(c) \o <<>> = Code(c)
  BY <1>5
<1> QED BY <1>2, <1>5, <1>6, <1>7

\* The texts a call may write, whatever the registers show.
LEMMA ReadyTexts ==
  ASSUME NEW texts, NEW c \in CallSet, RightArguments(c),
         \A r \in Regs : roots[r] # Null => PayloadAt(roots[r]) \in Payloads(texts)
  PROVE  \E more : texts \subseteq more /\ Ready(more, c)
<1> DEFINE more == texts \cup {c.key, "t", "j"} \cup {Keys(c, 1)[i] : i \in 1 .. P(c, 1).len}
                     \cup {Keys(c, 2)[i] : i \in 1 .. P(c, 2).len}
                     \cup {PayloadAt(SlotAt(roots[c.a[1]], 2, i)).text : i \in 1 .. P(c, 1).len}
<1>1. texts \subseteq more
  OBVIOUS
<1>2. Payloads(texts) \subseteq Payloads(more)
  BY <1>1 DEF Payloads
<1>3. \A j \in {1, 2} : \A i \in 1 .. P(c, j).len : Keys(c, j)[i] \in more
  OBVIOUS
<1>4. \A i \in 1 .. P(c, 1).len : PayloadAt(SlotAt(roots[c.a[1]], 2, i)).text \in more
  OBVIOUS
<1>5. c.key \in more /\ "t" \in more /\ "j" \in more
  OBVIOUS
<1> HIDE DEF more
<1>6. Ready(more, c)
  BY <1>2, <1>3, <1>4, <1>5 DEF Ready
<1> QED BY <1>1, <1>6
=============================================================================
