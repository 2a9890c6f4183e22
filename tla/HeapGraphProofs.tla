--------------------------- MODULE HeapGraphProofs ---------------------------
(***************************************************************************)
(* The collected heap implements the graph of objects: no step of a        *)
(* collection can be observed, and every step of the program is the step   *)
(* of the graph it stands for, for every size of the heap.                 *)
(***************************************************************************)
EXTENDS HeapGraph, HeapSafetyProofs, Induction

-----------------------------------------------------------------------------
(***************************************************************************)
(* Reachability in ObjectGraph.                                            *)
(***************************************************************************)
Seeds(r)      == {r[i] : i \in Roots} \ {0}
More(near, e) == near \cup ({e[x][f] : x \in near, f \in Fields} \ {0})

\* The recursion that Reachable is defined by has a solution, so it holds.
LEMMA ReachableDef ==
  ASSUME NEW r, NEW e
  PROVE  \E R : /\ Graph!Reachable(r, e) = R[Cardinality(Id)]
                /\ R[0] = Seeds(r)
                /\ \A k \in 0 .. Cardinality(Id) - 1 : R[k + 1] = More(R[k], e)
<1> DEFINE N == Cardinality(Id)
           Solves(R, m) == R = [n \in 0 .. m |-> IF n = 0 THEN Seeds(r) ELSE More(R[n - 1], e)]
           S == {m \in Nat : \E R : Solves(R, m)}
<1>0. N \in Nat
  <2>1. IsFiniteSet(Id)
    BY FS_Interval, HeapAssumption DEF Id
  <2> QED BY <2>1, FS_CardinalityType
<1>1. 0 \in S
  <2>1. Solves([n \in 0 .. 0 |-> Seeds(r)], 0)
    OBVIOUS
  <2> QED BY <2>1
<1>2. ASSUME NEW m \in Nat, m \in S PROVE m + 1 \in S
  <2>1. PICK R : Solves(R, m)
    BY <1>2
  <2> DEFINE Q == [n \in 0 .. m + 1 |-> IF n = 0 THEN Seeds(r) ELSE More(R[n - 1], e)]
  <2>2. \A n \in 0 .. m : R[n] = Q[n]
    BY <2>1
  <2>3. \A n \in 0 .. m + 1 : n # 0 => n - 1 \in 0 .. m
    OBVIOUS
  <2>4. \A n \in 0 .. m + 1 : n # 0 => More(R[n - 1], e) = More(Q[n - 1], e)
    BY <2>2, <2>3
  <2>5. Q = [n \in 0 .. m + 1 |-> IF n = 0 THEN Seeds(r) ELSE More(Q[n - 1], e)]
    BY <2>4
  <2>6. Solves(Q, m + 1)
    BY <2>5
  <2> HIDE DEF Q
  <2>7. \E P : Solves(P, m + 1)
    BY <2>6
  <2> QED BY <2>7
<1>3. \E R : R = [n \in 0 .. N |-> IF n = 0 THEN Seeds(r) ELSE More(R[n - 1], e)]
  <2> HIDE DEF S
  <2>1. N \in S
    BY <1>0, <1>1, <1>2, Induct
  <2> QED BY <2>1 DEF S
<1> DEFINE R[n \in 0 .. N] == IF n = 0 THEN Seeds(r) ELSE More(R[n - 1], e)
<1>4. R = [n \in 0 .. N |-> IF n = 0 THEN Seeds(r) ELSE More(R[n - 1], e)]
  BY <1>3, Zenon
<1>5. Graph!Reachable(r, e) = R[N]
  <2> DEFINE Solution(m) == CHOOSE P : P = [n \in 0 .. m |-> IF n = 0 THEN Seeds(r)
                                                               ELSE More(P[n - 1], e)]
             C == Graph!Cardinality(Id)
  <2>1. C = N
    BY Zenon DEF Graph!Cardinality, Cardinality
  <2>2. Graph!Reachable(r, e) = Solution(C)[C]
    BY SMT DEF Graph!Reachable, Seeds, More, Graph!Roots, Graph!Fields, Graph!Nil, Roots, Fields
  <2>3. R = Solution(N)
    BY Zenon
  <2> HIDE DEF Solution, C, R, N
  <2> QED BY <2>1, <2>2, <2>3
<1> HIDE DEF R
<1>6. R[0] = Seeds(r)
  BY <1>0, <1>4
<1>7. \A k \in 0 .. N - 1 : R[k + 1] = More(R[k], e)
  <2>1. \A k \in 0 .. N - 1 : k + 1 \in 0 .. N /\ k + 1 # 0 /\ k + 1 - 1 = k
    BY <1>0
  <2>2. \A n \in 0 .. N : n # 0 => R[n] = More(R[n - 1], e)
    BY <1>4
  <2> HIDE DEF N
  <2>3. ASSUME NEW k \in 0 .. N - 1 PROVE R[k + 1] = More(R[k], e)
    <3>1. R[k + 1] = More(R[k + 1 - 1], e)
      BY <2>1, <2>2
    <3> QED BY <2>1, <3>1
  <2> QED BY <2>3
<1> QED BY <1>5, <1>6, <1>7

\* Graphs that agree on a closed set of objects, the roots among them, reach the
\* same objects, all in that set, and cannot be told apart.
LEMMA AgreeOnClosed ==
  ASSUME NEW r, NEW e, NEW d, NEW K, K \subseteq Id,
         \A i \in Roots : r[i] \in K \cup {0},
         \A x \in K : \A f \in Fields : e[x][f] \in K \cup {0},
         \A x \in K : d[x] = e[x]
  PROVE  /\ Graph!Reachable(r, e) \subseteq K
         /\ Graph!Trim(r, e) = Graph!Trim(r, d)
<1>0. Cardinality(Id) \in Nat
  <2>1. IsFiniteSet(Id)
    BY FS_Interval, HeapAssumption DEF Id
  <2> QED BY <2>1, FS_CardinalityType
<1>1. PICK R : /\ Graph!Reachable(r, e) = R[Cardinality(Id)]
               /\ R[0] = Seeds(r)
               /\ \A k \in 0 .. Cardinality(Id) - 1 : R[k + 1] = More(R[k], e)
  BY ReachableDef
<1>2. PICK Q : /\ Graph!Reachable(r, d) = Q[Cardinality(Id)]
               /\ Q[0] = Seeds(r)
               /\ \A k \in 0 .. Cardinality(Id) - 1 : Q[k + 1] = More(Q[k], d)
  BY ReachableDef
<1> DEFINE S == {k \in Nat : R[k] = Q[k] /\ R[k] \subseteq K}
<1>3. 0 \in S
  <2>1. Seeds(r) \subseteq K
    BY DEF Seeds
  <2> QED BY <1>1, <1>2, <2>1
<1>4. ASSUME NEW k \in 0 .. Cardinality(Id) - 1, k \in S PROVE k + 1 \in S
  <2>1. R[k] = Q[k] /\ R[k] \subseteq K
    BY <1>4
  <2>2. \A x \in R[k], f \in Fields : d[x][f] = e[x][f] /\ e[x][f] \in K \cup {0}
    BY <2>1
  <2>3. More(R[k], e) = More(Q[k], d) /\ More(R[k], e) \subseteq K
    BY <2>1, <2>2 DEF More
  <2>4. R[k + 1] = More(R[k], e) /\ Q[k + 1] = More(Q[k], d)
    BY <1>1, <1>2
  <2>5. k + 1 \in Nat
    BY <1>0
  <2> QED BY <2>3, <2>4, <2>5
<1>5. Cardinality(Id) \in S
  <2> HIDE DEF S
  <2>1. \A k \in 0 .. Cardinality(Id) : k \in S
    BY <1>0, <1>3, <1>4, InductTo
  <2> QED BY <1>0, <2>1
<1>6. Graph!Reachable(r, e) = Graph!Reachable(r, d) /\ Graph!Reachable(r, e) \subseteq K
  BY <1>1, <1>2, <1>5
<1>7. \A x \in Id : x \in Graph!Reachable(r, e) => e[x] = d[x]
  BY <1>6
<1> QED BY <1>6, <1>7 DEF Graph!Trim

-----------------------------------------------------------------------------
(***************************************************************************)
(* The identities.  Between collections an object has one cell; during a   *)
(* minor collection an evacuated object has two, tied by the forwarding    *)
(* stamp; while objects slide the old arena holds objects, copies left     *)
(* behind and rubbish, and only what pointers designate is known.          *)
(***************************************************************************)
Tag(p)    == IF p = Null THEN 0 ELSE id[p]
Occupied  == YoungCells \cup ToCells \cup OldCells
Heads     == {a \in YoungCells : fwd[a] = Null} \cup ToCells \cup OldCells
Kept      == YoungCells \cup NewOld

\* What a pointer may hold, and the objects it may designate.
Names == IF phase \in MinorPhases THEN Occupied ELSE IF phase = "slide" THEN Kept ELSE Live
Known == {Designates(p) : p \in Names}

IdSteady ==
  /\ \A a \in Addr : id[a] # 0 <=> a \in Live
  /\ \A a, b \in Live : id[a] = id[b] => a = b

IdMinor ==
  /\ \A a \in Addr : id[a] # 0 <=> a \in Occupied
  /\ \A a \in YoungCells : fwd[a] # Null =>
       id[fwd[a]] = id[a] /\ \A f \in Fields : Tag(kid[fwd[a]][f]) = Tag(kid[a][f])
  /\ \A a, b \in Heads : id[a] = id[b] => a = b

IdSlide ==
  /\ \A a \in Addr : id[a] # 0 => a \in Live
  /\ \A p \in Kept : Designates(p) # 0
  /\ \A p, q \in Kept : Designates(p) = Designates(q) => p = q
  /\ \A a \in Live : id[a] \in Known => \A f \in Fields : kid[a][f] \in Kept \cup {Null}
  /\ \A a, b \in Live : id[a] = id[b] /\ id[a] \in Known =>
       \A f \in Fields : Designates(kid[a][f]) = Designates(kid[b][f])

IdInv ==
  /\ id \in [Addr -> 0 .. 2 * Semi]
  /\ phase \in {"run", "resume", "major", "mark", "forward"} => IdSteady
  /\ phase \in MinorPhases => IdMinor
  /\ phase = "slide" => IdSlide

\* Pointers designate objects, and all the cells of one object say the same.
Coherent ==
  /\ Known \subseteq Id
  /\ \A r \in Roots : roots[r] \in Names \cup {Null}
  /\ \A x \in Known : \E a \in Addr : id[a] = x
  /\ \A a \in Addr : id[a] \in Known => \A f \in Fields : kid[a][f] \in Names \cup {Null}
  /\ \A a, b \in Addr : id[a] = id[b] /\ id[a] \in Known =>
       \A f \in Fields : Designates(kid[a][f]) = Designates(kid[b][f])

RootOf == [r \in Roots |-> Designates(roots[r])]
EdgeOf == [x \in Id |-> FieldsOf(x)]

CellFields(a) == [f \in Fields |-> Designates(kid[a][f])]

LEMMA TagIs == phase # "slide" => \A p : Designates(p) = Tag(p)
BY DEF Designates, Tag

LEMMA NamesNotNull == TypeOK => Null \notin Names
BY Geometry, MajorTypes DEF Names, Occupied, Kept, Live, NewOld, Null, OldBase

LEMMA NullDesignatesNothing == Designates(Null) = 0
BY DEF Designates

\* Any cell of a designated object tells its fields.
LEMMA EdgeIs ==
  Coherent => \A a \in Addr : id[a] \in Known =>
                EdgeOf[id[a]] = CellFields(a)
<1> SUFFICES ASSUME Coherent, NEW a \in Addr, id[a] \in Known
             PROVE  EdgeOf[id[a]] = CellFields(a)
  OBVIOUS
<1> DEFINE c == CHOOSE b \in CellsOf(id[a]) : TRUE
<1>1. a \in CellsOf(id[a])
  BY DEF CellsOf
<1>2. c \in Addr /\ id[c] = id[a]
  <2>1. c \in CellsOf(id[a])
    BY <1>1
  <2> QED BY <2>1 DEF CellsOf
<1>3. FieldsOf(id[a]) = CellFields(c)
  BY <1>1 DEF FieldsOf, CellFields
<1>4. EdgeOf[id[a]] = FieldsOf(id[a])
  BY DEF EdgeOf, Coherent
<1> HIDE DEF c
<1>5. \A f \in Fields : Designates(kid[c][f]) = Designates(kid[a][f])
  BY <1>2 DEF Coherent
<1> QED BY <1>3, <1>4, <1>5 DEF CellFields

\* The roots and the fields of designated objects designate objects.
LEMMA KnownClosed ==
  Coherent => /\ \A i \in Roots : RootOf[i] \in Known \cup {0}
              /\ \A x \in Known : \A f \in Fields : EdgeOf[x][f] \in Known \cup {0}
<1> SUFFICES ASSUME Coherent
             PROVE  /\ \A i \in Roots : RootOf[i] \in Known \cup {0}
                    /\ \A x \in Known : \A f \in Fields : EdgeOf[x][f] \in Known \cup {0}
  OBVIOUS
<1>1. \A p \in Names \cup {Null} : Designates(p) \in Known \cup {0}
  BY NullDesignatesNothing DEF Known
<1>2. \A i \in Roots : RootOf[i] \in Known \cup {0}
  BY <1>1 DEF RootOf, Coherent
<1>3. ASSUME NEW x \in Known, NEW f \in Fields PROVE EdgeOf[x][f] \in Known \cup {0}
  <2>1. PICK a \in Addr : id[a] = x
    BY DEF Coherent
  <2>2. kid[a][f] \in Names \cup {Null}
    BY <2>1 DEF Coherent
  <2>3. EdgeOf[x][f] = Designates(kid[a][f])
    BY <2>1, EdgeIs DEF CellFields
  <2> QED BY <1>1, <2>2, <2>3
<1> QED BY <1>2, <1>3

\* A step makes the graph <<r, e>> if it has these roots and these fields for
\* every object still designated.
LEMMA Match ==
  ASSUME Coherent', NEW r, NEW e, RootOf' = r, \A x \in Known' : (EdgeOf')[x] = e[x]
  PROVE  Graph!Becomes(r, e)
<1>1. /\ \A i \in Roots : r[i] \in Known' \cup {0}
      /\ \A x \in Known' : \A f \in Fields : (EdgeOf')[x][f] \in Known' \cup {0}
  <2>1. (Coherent => /\ \A i \in Roots : RootOf[i] \in Known \cup {0}
                     /\ \A x \in Known : \A f \in Fields : EdgeOf[x][f] \in Known \cup {0})'
    BY KnownClosed, PTL
  <2> QED BY <2>1
<1>2. Known' \subseteq Id
  BY DEF Coherent
<1>3. Graph!Trim(r, EdgeOf') = Graph!Trim(r, e)
  BY <1>1, <1>2, AgreeOnClosed
<1> QED BY <1>3 DEF Graph!Becomes, RootOf, EdgeOf

\* The roots designate what they did, and so do the fields of what stays designated.
Silent ==
  /\ \A r \in Roots : Designates(roots[r])' = Designates(roots[r])
  /\ \A x \in Known' : \E a, b \in Addr :
       /\ x \in Known /\ id[a] = x /\ id'[b] = x
       /\ \A f \in Fields : Designates(kid[b][f])' = Designates(kid[a][f])

\* A step that keeps what the roots designate and the fields of what stays
\* designated cannot be observed.
LEMMA Invisible ==
  ASSUME Coherent, Coherent', Silent
  PROVE  UNCHANGED <<RootOf, Graph!Trim(RootOf, EdgeOf)>>
<1>1. ASSUME NEW x \in Known' PROVE (EdgeOf')[x] = EdgeOf[x]
  <2>1. PICK c, b \in Addr :
           /\ x \in Known /\ id[c] = x /\ id'[b] = x
           /\ \A f \in Fields : Designates(kid[b][f])' = Designates(kid[c][f])
    BY DEF Silent
  <2>2. EdgeOf[x] = CellFields(c)
    BY <2>1, EdgeIs
  <2>3. (Coherent => \A a \in Addr : id[a] \in Known =>
                EdgeOf[id[a]] = CellFields(a))'
    BY EdgeIs, PTL
  <2>4. (EdgeOf')[x] = CellFields(b)'
    BY <2>1, <2>3
  <2> QED BY <2>1, <2>2, <2>4 DEF CellFields
<1>2. RootOf' = RootOf
  BY DEF Silent, RootOf
<1>3. Graph!Becomes(RootOf, EdgeOf)
  BY <1>1, <1>2, Match
<1> QED BY <1>3 DEF Graph!Becomes, RootOf, EdgeOf

-----------------------------------------------------------------------------
(***************************************************************************)
(* Coherence follows from the invariants, phase by phase.                  *)
(***************************************************************************)
LEMMA CleanMinor ==
  TypeOK /\ MinorInv =>
    /\ \A a \in Occupied : \A f \in Fields : kid[a][f] \in Occupied \cup {Null}
    /\ \A r \in Roots : roots[r] \in Occupied \cup {Null}
    /\ \A a \in YoungCells : fwd[a] # Null => fwd[a] \in ToCells \cup OldCells
    /\ Occupied \subseteq Addr
<1> SUFFICES ASSUME TypeOK, MinorInv
             PROVE  /\ \A a \in Occupied : \A f \in Fields : kid[a][f] \in Occupied \cup {Null}
                    /\ \A r \in Roots : roots[r] \in Occupied \cup {Null}
                    /\ \A a \in YoungCells : fwd[a] # Null => fwd[a] \in ToCells \cup OldCells
                    /\ Occupied \subseteq Addr
  OBVIOUS
<1>1. \A a \in YoungCells : \A f \in Fields : kid[a][f] \in Occupied \cup {Null}
  BY DEF MinorInv, FromInv, Source, Occupied
<1>2. \A a \in ToCells : \A f \in Fields : kid[a][f] \in Occupied \cup {Null}
  <2>1. Source \cup Done \subseteq Occupied \cup {Null}
    BY DEF Source, Done, Occupied
  <2>2. \A a \in ToCells : \A f \in Fields : kid[a][f] \in Source \/ kid[a][f] \in Done
    BY DEF MinorInv, ToInv
  <2> QED BY <2>1, <2>2
<1>3. \A a \in OldCells : \A f \in Fields : kid[a][f] \in Occupied \cup {Null}
  <2>1. \A a \in OldCells : \A f \in Fields :
          kid[a][f] \in Source \/ kid[a][f] \in OldOrNull \/ kid[a][f] \in ToCells
    BY DEF MinorInv, OldInv
  <2> QED BY <2>1 DEF Source, OldOrNull, Occupied
<1>4. \A r \in Roots : roots[r] \in Occupied \cup {Null}
  <2>1. \A r \in Roots : roots[r] \in Source \/ roots[r] \in Done
    BY DEF MinorInv, RootInv
  <2> QED BY <2>1 DEF Source, Done, Occupied
<1>5. \A a \in YoungCells : fwd[a] # Null => fwd[a] \in ToCells \cup OldCells
  BY DEF MinorInv, FromInv, Done
<1> QED BY <1>1, <1>2, <1>3, <1>4, <1>5, Geometry DEF Occupied

LEMMA SteadyCoherent ==
  ASSUME TypeOK, IdInv, Steady, phase \in {"run", "resume", "major", "mark", "forward"}
  PROVE  Coherent
<1>0. /\ phase # "slide" /\ phase \notin MinorPhases /\ Names = Live
      /\ \A p : Designates(p) = Tag(p)
  BY TagIs DEF MinorPhases, Names
<1>1. /\ id \in [Addr -> 0 .. 2 * Semi] /\ Live \subseteq Addr /\ Null \notin Live
      /\ \A a \in Addr : id[a] # 0 <=> a \in Live
      /\ \A a, b \in Live : id[a] = id[b] => a = b
  BY Geometry DEF IdInv, IdSteady, Live
<1>2. \A p \in Live : Designates(p) = id[p] /\ id[p] \in Id
  <2>1. \A n \in 0 .. 2 * Semi : n # 0 => n \in Id
    BY HeapAssumption DEF Id
  <2> QED BY <1>0, <1>1, <2>1 DEF Tag
<1>3. Known = {id[p] : p \in Live} /\ Known \subseteq Id /\ 0 \notin Known
  BY <1>0, <1>1, <1>2 DEF Known
<1>4. \A a \in Addr : id[a] \in Known => a \in Live
  BY <1>1, <1>3
<1>5. \A a, b \in Addr : id[a] = id[b] /\ id[a] \in Known => a = b
  BY <1>1, <1>4
<1>6. /\ \A r \in Roots : roots[r] \in Names \cup {Null}
      /\ \A a \in Live : \A f \in Fields : kid[a][f] \in Names \cup {Null}
  BY <1>0 DEF Steady, Closed
<1> QED BY <1>1, <1>3, <1>4, <1>5, <1>6 DEF Coherent

LEMMA MinorCoherent ==
  ASSUME TypeOK, IdInv, MinorInv, phase \in MinorPhases
  PROVE  Coherent
<1>0. phase # "slide" /\ Names = Occupied /\ \A p : Designates(p) = Tag(p)
  BY TagIs DEF MinorPhases, Names
<1>1. /\ id \in [Addr -> 0 .. 2 * Semi] /\ Occupied \subseteq Addr /\ Null \notin Occupied
      /\ \A a \in Addr : id[a] # 0 <=> a \in Occupied
  BY Geometry DEF IdInv, IdMinor, Occupied
<1>2. \A p \in Occupied : Designates(p) = id[p] /\ id[p] \in Id
  <2>1. \A n \in 0 .. 2 * Semi : n # 0 => n \in Id
    BY HeapAssumption DEF Id
  <2> QED BY <1>0, <1>1, <2>1 DEF Tag
<1>3. Known = {id[p] : p \in Occupied} /\ Known \subseteq Id /\ 0 \notin Known
  BY <1>0, <1>1, <1>2 DEF Known
<1>4. \A a \in Addr : id[a] \in Known => a \in Occupied
  BY <1>1, <1>3
<1>5. \A a \in Occupied : \E h \in Heads :
        id[h] = id[a] /\ \A f \in Fields : Tag(kid[h][f]) = Tag(kid[a][f])
  <2> TAKE a \in Occupied
  <2>1. CASE a \in Heads
    BY <2>1
  <2>2. CASE a \notin Heads
    <3>1. a \in YoungCells /\ fwd[a] # Null
      BY <2>2 DEF Occupied, Heads
    <3>2. fwd[a] \in Heads
      BY <3>1, CleanMinor DEF Heads
    <3> QED BY <3>1, <3>2 DEF IdInv, IdMinor
  <2> QED BY <2>1, <2>2
<1>6. \A a, b \in Occupied : id[a] = id[b] =>
        \A f \in Fields : Tag(kid[a][f]) = Tag(kid[b][f])
  <2> SUFFICES ASSUME NEW a \in Occupied, NEW b \in Occupied, id[a] = id[b], NEW f \in Fields
               PROVE  Tag(kid[a][f]) = Tag(kid[b][f])
    OBVIOUS
  <2>1. PICK g \in Heads : id[g] = id[a] /\ Tag(kid[g][f]) = Tag(kid[a][f])
    BY <1>5
  <2>2. PICK h \in Heads : id[h] = id[b] /\ Tag(kid[h][f]) = Tag(kid[b][f])
    BY <1>5
  <2>3. g = h
    BY <2>1, <2>2 DEF IdInv, IdMinor
  <2> QED BY <2>1, <2>2, <2>3
<1>7. /\ \A r \in Roots : roots[r] \in Names \cup {Null}
      /\ \A a \in Occupied : \A f \in Fields : kid[a][f] \in Names \cup {Null}
  BY <1>0, CleanMinor
<1> QED BY <1>0, <1>1, <1>3, <1>4, <1>6, <1>7 DEF Coherent

LEMMA SlideCoherent ==
  ASSUME TypeOK, IdInv, SlideInv, phase = "slide"
  PROVE  Coherent
<1>0. Names = Kept /\ Kept \subseteq Live /\ Live \subseteq Addr /\ id \in [Addr -> 0 .. 2 * Semi]
  <2>1. NewOld \subseteq OldCells
    BY MajorTypes DEF NewOld, OldCells, OldBase, SlideInv
  <2> QED BY <2>1, Geometry DEF MinorPhases, Names, Kept, Live, IdInv
<1>1. ASSUME NEW p \in Kept
      PROVE  \E a \in Addr : Designates(p) = id[a]
  <2>1. p # Null
    BY NamesNotNull, <1>0
  <2>2. CASE \E a \in Unslid : fwd[a] = p
    <3>1. Designates(p) = id[CHOOSE a \in Unslid : fwd[a] = p]
      BY <2>1, <2>2 DEF Designates
    <3>2. (CHOOSE a \in Unslid : fwd[a] = p) \in Unslid
      BY <2>2
    <3>3. Unslid \subseteq Addr
      BY Geometry DEF Unslid
    <3> QED BY <3>1, <3>2, <3>3
  <2>3. CASE ~ \E a \in Unslid : fwd[a] = p
    <3>1. Designates(p) = id[p]
      BY <2>1, <2>3 DEF Designates
    <3> QED BY <1>0, <3>1
  <2> QED BY <2>2, <2>3
<1>2. ASSUME NEW x \in Known PROVE x \in Id /\ \E a \in Addr : id[a] = x
  <2>1. PICK p \in Kept : x = Designates(p)
    BY <1>0 DEF Known
  <2>2. PICK a \in Addr : x = id[a]
    BY <1>1, <2>1
  <2>3. x # 0
    BY <2>1 DEF IdInv, IdSlide
  <2>4. \A n \in 0 .. 2 * Semi : n # 0 => n \in Id
    BY HeapAssumption DEF Id
  <2> QED BY <1>0, <2>2, <2>3, <2>4
<1>3. \A a \in Addr : id[a] \in Known => a \in Live
  <2>1. 0 \notin Known
    BY <1>0 DEF Known, IdInv, IdSlide
  <2> QED BY <2>1 DEF IdInv, IdSlide
<1>4. \A r \in Roots : roots[r] \in Names \cup {Null}
  BY <1>0 DEF SlideInv, Kept
<1> QED BY <1>0, <1>2, <1>3, <1>4 DEF Coherent, IdInv, IdSlide

LEMMA CoherentNow == IInv /\ IdInv /\ Sound => Coherent
<1> SUFFICES ASSUME IInv, IdInv, Sound PROVE Coherent
  OBVIOUS
<1>1. TypeOK /\ PhaseInv
  BY DEF IInv, HeapInvariant, PhaseInv
<1>2. CASE phase \in {"run", "resume", "major", "mark", "forward"}
  BY <1>1, <1>2, SteadyCoherent DEF PhaseInv
<1>3. CASE phase \in MinorPhases
  BY <1>1, <1>3, MinorCoherent DEF PhaseInv
<1>4. CASE phase = "slide"
  BY <1>1, <1>4, SlideCoherent DEF PhaseInv
<1> QED BY <1>1, <1>2, <1>3, <1>4 DEF TypeOK, ControlType, MinorPhases, MajorPhases

-----------------------------------------------------------------------------
(***************************************************************************)
(* Minor collection: forwarding one pointer.                               *)
(***************************************************************************)
\* The identities after a step of the copying phases.
Follows ==
  id' = [a \in Addr |->
           IF \E p \in Addr : fwd[p] = Null /\ fwd'[p] = a
           THEN id[CHOOSE p \in Addr : fwd[p] = Null /\ fwd'[p] = a] ELSE id[a]]

\* What p and its forwarded value designate is the same object.
SameObject(p, n) == (n = Null <=> p = Null) /\ (p # Null => id'[n] = id[p])

LEMMA StampFollows ==
  ASSUME fwd \in [Addr -> Ptr], id \in [Addr -> 0 .. 2 * Semi], Follows,
         NEW p \in Addr, NEW t \in Addr, t # p, fwd[p] = Null,
         fwd' = [fwd EXCEPT ![t] = Null, ![p] = t]
  PROVE  id' = [id EXCEPT ![t] = id[p]]
<1>0. \A a \in Addr : a # Null
  BY DEF Addr, Null
<1>1. \A q, a \in Addr : (fwd[q] = Null /\ fwd'[q] = a) <=> (q = p /\ a = t)
  <2> SUFFICES ASSUME NEW q \in Addr, NEW a \in Addr
               PROVE  (fwd[q] = Null /\ fwd'[q] = a) <=> (q = p /\ a = t)
    OBVIOUS
  <2>1. CASE q = p
    BY <2>1
  <2>2. CASE q = t
    BY <1>0, <2>2
  <2>3. CASE q # p /\ q # t
    BY <1>0, <2>3
  <2> QED BY <2>1, <2>2, <2>3
<1>2. ASSUME NEW a \in Addr PROVE id'[a] = [id EXCEPT ![t] = id[p]][a]
  <2>1. CASE a = t
    <3> DEFINE q == CHOOSE q \in Addr : fwd[q] = Null /\ fwd'[q] = a
    <3>1. \E q0 \in Addr : fwd[q0] = Null /\ fwd'[q0] = a
      BY <1>1, <2>1
    <3>2. q \in Addr /\ fwd[q] = Null /\ fwd'[q] = a
      BY <3>1
    <3>3. q = p
      BY <1>1, <3>2
    <3>4. id'[a] = id[q]
      BY <3>1 DEF Follows
    <3> QED BY <2>1, <3>3, <3>4
  <2>2. CASE a # t
    <3>1. ~ \E q \in Addr : fwd[q] = Null /\ fwd'[q] = a
      BY <1>1, <2>2
    <3>2. id'[a] = id[a]
      BY <3>1 DEF Follows
    <3> QED BY <2>2, <3>2
  <2> QED BY <2>1, <2>2
<1>3. id' = [a \in Addr |-> id'[a]]
  BY DEF Follows
<1> QED BY <1>2, <1>3

LEMMA NoStamp ==
  ASSUME id \in [Addr -> 0 .. 2 * Semi], Follows, fwd' = fwd
  PROVE  id' = id
<1>1. \A a \in Addr : ~ \E p \in Addr : fwd[p] = Null /\ fwd'[p] = a
  BY DEF Addr, Null
<1>2. id' = [a \in Addr |-> id[a]]
  BY <1>1 DEF Follows
<1> QED BY <1>2

\* One forwarding copies an object or not; either way every cell keeps the object it
\* holds and every field the object it designates.
LEMMA ForwardKeepsIds ==
  ASSUME TypeOK, MinorInv, IdMinor, id \in [Addr -> 0 .. 2 * Semi], Follows,
         UNCHANGED <<from, top>>,
         NEW p \in Source, NEW t, NeedsCopy(p) => FreeCell(p, t), Evacuate(p, t),
         \A a \in Addr : \A f \in Fields :
           \/ kid'[a][f] = KidsWithCopy(p, t)[a][f]
           \/ a \in ToCells \cup OldCells /\ kid[a][f] = p /\ kid'[a][f] = Forwarded(p, t)
  PROVE  /\ id' \in [Addr -> 0 .. 2 * Semi]
         /\ IdMinor'
         /\ \A a \in Occupied : id'[a] = id[a]
         /\ \A a \in Occupied' : \E b \in Occupied : id'[a] = id[b]
         /\ \A a \in Occupied : \A f \in Fields : SameObject(kid[a][f], kid'[a][f])
         /\ SameObject(p, Forwarded(p, t))
         /\ Occupied \subseteq Occupied'
<1>0. /\ Semi \in Nat \ {0} /\ from \in {0, Semi} /\ to' = to /\ to \in {0, Semi}
      /\ top \in 0 .. Semi /\ to_top \in 0 .. Semi /\ old_top \in 0 .. Semi
      /\ kid \in [Addr -> [Fields -> Ptr]] /\ fwd \in [Addr -> Ptr]
  BY HeapAssumption DEF TypeOK, SpaceType, ObjectType, to
<1>1. YoungCells' = YoungCells
  BY DEF YoungCells
<1>2. p \in Ptr /\ p \in Occupied \cup {Null}
  BY Geometry DEF Source, Occupied, Ptr
<1>3. /\ \A a \in Occupied : \A f \in Fields : kid[a][f] \in Occupied \cup {Null}
      /\ \A a \in YoungCells : fwd[a] # Null => fwd[a] \in ToCells \cup OldCells
      /\ Occupied \subseteq Addr /\ Null \notin Occupied
  BY CleanMinor, Geometry DEF Occupied
<1>4. CASE ~NeedsCopy(p)
  <2>1. UNCHANGED <<fwd, old_top, to_top>> /\ KidsWithCopy(p, t) = kid
    BY <1>4 DEF Evacuate, Evacuates, KidsWithCopy
  <2>2. /\ ToCells' = ToCells /\ OldCells' = OldCells /\ Occupied' = Occupied /\ Heads' = Heads
    BY <1>0, <1>1, <2>1 DEF ToCells, OldCells, Occupied, Heads
  <2>3. id' = id
    BY <2>1, NoStamp
  <2>4. SameObject(p, Forwarded(p, t))
    <3>1. CASE p = Null \/ is_old(p)
      BY <1>4, <2>3, <3>1 DEF Forwarded, SameObject
    <3>2. CASE ~(p = Null \/ is_old(p))
      <4>1. fwd[p] # Null /\ Forwarded(p, t) = fwd[p] /\ p \in YoungCells
        BY <1>2, <1>4, <3>2, Geometry DEF Forwarded, NeedsCopy, Source
      <4> QED BY <2>3, <4>1, <3>2 DEF SameObject, IdMinor
    <3> QED BY <3>1, <3>2
  <2>5. ASSUME NEW a \in Occupied, NEW f \in Fields PROVE SameObject(kid[a][f], kid'[a][f])
    <3>1. a \in Addr
      BY <1>3
    <3>2. kid'[a][f] = kid[a][f] \/ (kid[a][f] = p /\ kid'[a][f] = Forwarded(p, t))
      BY <2>1, <3>1
    <3> QED BY <2>3, <2>4, <3>2 DEF SameObject
  <2>6. \A a \in Occupied : \A f \in Fields : Tag(kid[a][f])' = Tag(kid[a][f])
    BY <2>5 DEF SameObject, Tag
  <2>7. IdMinor'
    <3>1. \A a \in YoungCells : fwd[a] # Null => a \in Occupied /\ fwd[a] \in Occupied
      BY <1>3 DEF Occupied
    <3>2. ASSUME NEW a \in YoungCells, fwd[a] # Null
          PROVE  id'[fwd'[a]] = id'[a]
                 /\ \A f \in Fields : Tag(kid[fwd[a]][f])' = Tag(kid[a][f])'
      BY <2>1, <2>3, <2>6, <3>1, <3>2 DEF IdMinor
    <3> QED BY <1>1, <2>1, <2>2, <2>3, <3>2 DEF IdMinor
  <2> QED BY <2>2, <2>3, <2>4, <2>5, <2>7
<1>5. CASE NeedsCopy(p)
  <2>1. p \in YoungCells /\ p \in Addr /\ fwd[p] = Null /\ p # Null
    BY <1>2, <1>5, Geometry DEF NeedsCopy, Source
  <2>2. t \in Addr /\ t \notin Occupied /\ FreeCell(p, t)
    BY <1>0, <1>5 DEF FreeCell, YoungCells, ToCells, OldCells, to, Occupied, OldBase, Addr
  <2>3. Evacuates(p, t) /\ t # p
    BY <1>5, <2>1, <2>2 DEF Evacuates, Occupied
  <2>4. fwd' = [fwd EXCEPT ![t] = Null, ![p] = t] /\ Forwarded(p, t) = t
        /\ KidsWithCopy(p, t) = [kid EXCEPT ![t] = kid[p]]
    BY <1>5, <2>3 DEF Evacuate, Forwarded, KidsWithCopy
  <2>5. \/ /\ t = OldBase + old_top /\ old_top' = old_top + 1 /\ to_top' = to_top
        \/ /\ t = to + to_top /\ to_top' = to_top + 1 /\ old_top' = old_top
    <3>1. t >= OldBase => t = OldBase + old_top
      BY <1>0, <2>2 DEF FreeCell, OldBase
    <3>2. ~(t >= OldBase) => t = to + to_top
      BY <1>0, <2>2 DEF FreeCell, OldBase
    <3> QED BY <2>3, <3>1, <3>2 DEF Evacuate
  <2>6. \/ OldCells' = OldCells \cup {t} /\ ToCells' = ToCells
        \/ OldCells' = OldCells /\ ToCells' = ToCells \cup {t}
    <3>1. \A base \in Nat, n \in Nat : base .. base + (n + 1) - 1 = (base .. base + n - 1) \cup {base + n}
      OBVIOUS
    <3>2. OldBase \in Nat /\ to \in Nat /\ old_top \in Nat /\ to_top \in Nat
      BY <1>0 DEF OldBase
    <3>3. CASE t = OldBase + old_top /\ old_top' = old_top + 1 /\ to_top' = to_top
      BY <1>0, <3>1, <3>2, <3>3 DEF ToCells, OldCells
    <3>4. CASE t = to + to_top /\ to_top' = to_top + 1 /\ old_top' = old_top
      BY <1>0, <3>1, <3>2, <3>4 DEF ToCells, OldCells
    <3> QED BY <2>5, <3>3, <3>4
  <2>7. Occupied' = Occupied \cup {t}
    BY <1>1, <2>6 DEF Occupied
  <2>8. id' = [id EXCEPT ![t] = id[p]]
    BY <1>0, <2>1, <2>2, <2>3, <2>4, StampFollows
  <2>9. /\ id'[t] = id[p] /\ \A a \in Addr : a # t => id'[a] = id[a]
        /\ fwd'[p] = t /\ \A a \in Addr : a # t /\ a # p => fwd'[a] = fwd[a]
    BY <1>0, <2>1, <2>2, <2>3, <2>4, <2>8
  <2>10. \A a \in Occupied : a \in Addr /\ a # t /\ id'[a] = id[a]
    BY <1>3, <2>2, <2>9
  <2>11. SameObject(p, Forwarded(p, t))
    BY <1>3, <2>1, <2>2, <2>4, <2>9 DEF SameObject, Null, Addr
  <2>12. ASSUME NEW a \in Occupied, NEW f \in Fields PROVE SameObject(kid[a][f], kid'[a][f])
    <3>1. kid'[a][f] = kid[a][f] \/ (kid[a][f] = p /\ kid'[a][f] = Forwarded(p, t))
      BY <1>0, <2>4, <2>10
    <3>2. kid[a][f] # Null => id'[kid[a][f]] = id[kid[a][f]]
      BY <1>3, <2>10
    <3> QED BY <2>11, <3>1, <3>2 DEF SameObject
  <2>13. \A a \in Occupied : \A f \in Fields : Tag(kid[a][f])' = Tag(kid[a][f])
    BY <2>12 DEF SameObject, Tag
  <2>14. \A f \in Fields : kid'[t][f] = kid[p][f] /\ Tag(kid[t][f])' = Tag(kid[p][f])
    <3> TAKE f \in Fields
    <3>1. kid'[t][f] = kid[p][f]
      BY <1>0, <2>1, <2>2, <2>4 DEF Occupied
    <3>2. p \in Occupied
      BY <2>1 DEF Occupied
    <3>3. kid[p][f] # Null => id'[kid[p][f]] = id[kid[p][f]]
      BY <1>3, <2>10, <3>2
    <3> QED BY <3>1, <3>3 DEF Tag
  <2>15. IdMinor'
    <3>1. \A a \in Addr : id'[a] # 0 <=> a \in Occupied'
      <4>1. p \in Occupied
        BY <2>1 DEF Occupied
      <4> QED BY <2>1, <2>7, <2>9, <4>1 DEF IdMinor
    <3>2. ASSUME NEW a \in YoungCells, NEW b, b = fwd'[a], b # Null
          PROVE  id'[b] = id'[a] /\ \A f \in Fields : Tag(kid[b][f])' = Tag(kid[a][f])'
      <4>0. a \in Occupied
        BY DEF Occupied
      <4>1. CASE a = p
        BY <2>9, <2>10, <2>13, <2>14, <3>2, <4>0, <4>1
      <4>2. CASE a # p
        <5>1. b = fwd[a] /\ fwd[a] \in Occupied
          BY <1>3, <2>9, <2>10, <3>2, <4>0, <4>2 DEF Occupied
        <5>2. /\ id[fwd[a]] = id[a]
              /\ \A f \in Fields : Tag(kid[fwd[a]][f]) = Tag(kid[a][f])
          BY <3>2, <5>1 DEF IdMinor
        <5> QED BY <2>10, <2>13, <4>0, <5>1, <5>2
      <4> QED BY <4>1, <4>2
    <3>3. Heads' \subseteq (Heads \ {p}) \cup {t} /\ p \in Heads
      <4>1. \A a \in YoungCells : fwd'[a] = Null => a # p /\ fwd[a] = Null
        BY <1>3, <2>2, <2>9, <2>10 DEF Occupied, Null, Addr
      <4>2. p \notin ToCells \cup OldCells
        BY <2>1, Geometry
      <4> QED BY <1>1, <2>1, <2>6, <4>1, <4>2 DEF Heads
    <3>4. \A a, b \in Heads' : id'[a] = id'[b] => a = b
      <4>1. \A a \in Heads : a \in Occupied
        BY DEF Heads, Occupied
      <4>2. \A a \in Heads \ {p} : id'[a] = id[a] /\ id'[a] # id'[t]
        BY <2>9, <2>10, <3>3, <4>1 DEF IdMinor
      <4>3. \A a, b \in Heads \ {p} : id'[a] = id'[b] => a = b
        BY <4>2 DEF IdMinor
      <4> QED BY <3>3, <4>2, <4>3
    <3> QED BY <1>1, <3>1, <3>2, <3>4 DEF IdMinor
  <2>16. \A a \in Occupied' : \E b \in Occupied : id'[a] = id[b]
    BY <2>1, <2>7, <2>9, <2>10 DEF Occupied
  <2> QED BY <2>1, <2>7, <2>8, <2>10, <2>11, <2>12, <2>15, <2>16
<1> QED BY <1>4, <1>5

LEMMA FollowsNow ==
  ASSUME IdStep, phase \in MinorPhases, phase' \in MinorPhases, from' = from,
         ~(old_top' < old_top)
  PROVE  Follows
<1>1. phase \notin {"run", "resume"} /\ phase # "slide"
  BY DEF MinorPhases
<1> QED BY <1>1 DEF IdStep, Follows

\* What forwarding keeps is what the graph shows.
LEMMA MinorSilent ==
  ASSUME TypeOK, TypeOK', MinorInv, IdInv, phase \in MinorPhases, phase' \in MinorPhases,
         id' \in [Addr -> 0 .. 2 * Semi], IdMinor', Occupied \subseteq Occupied',
         \A a \in Occupied : id'[a] = id[a],
         \A a \in Occupied' : \E b \in Occupied : id'[a] = id[b],
         \A a \in Occupied : \A f \in Fields : SameObject(kid[a][f], kid'[a][f]),
         \A r \in Roots : SameObject(roots[r], roots'[r])
  PROVE  IdInv' /\ Silent
<1>0. /\ phase # "slide" /\ phase' # "slide" /\ Names = Occupied /\ Names' = Occupied'
      /\ phase' \notin {"run", "resume", "major", "mark", "forward"}
  BY DEF MinorPhases, Names
<1>1. \A p \in Occupied : p \in Addr /\ p # Null /\ Designates(p) = id[p]
  BY <1>0, CleanMinor, Geometry DEF Occupied, Designates
<1>2. \A p \in Occupied' : p # Null /\ Designates(p)' = id'[p]
  <2>1. (TypeOK => Null \notin Names)'
    BY NamesNotNull, PTL
  <2>2. \A p \in Occupied' : p # Null
    BY <1>0, <2>1
  <2> QED BY <1>0, <2>2 DEF Designates
<1>3. ASSUME NEW a \in Occupied, NEW f \in Fields
      PROVE  Designates(kid[a][f])' = Designates(kid[a][f])
  BY <1>0 DEF Designates, SameObject
<1>4. \A r \in Roots : Designates(roots[r])' = Designates(roots[r])
  BY <1>0 DEF Designates, SameObject
<1>5. ASSUME NEW x \in Known'
      PROVE  \E a, b \in Addr :
               /\ x \in Known /\ id[a] = x /\ id'[b] = x
               /\ \A f \in Fields : Designates(kid[b][f])' = Designates(kid[a][f])
  <2>1. PICK p \in Occupied' : x = Designates(p)'
    BY <1>0 DEF Known
  <2>2. PICK b \in Occupied : id[b] = x
    BY <1>2, <2>1
  <2>3. x \in Known /\ id'[b] = x /\ b \in Addr
    BY <1>0, <1>1, <2>2 DEF Known
  <2> QED BY <1>3, <2>2, <2>3
<1>6. Silent
  BY <1>4, <1>5 DEF Silent
<1> QED BY <1>0, <1>6 DEF IdInv

\* Forwarding one field of one object, whichever of the tracing loops does it.
LEMMA TraceSilent ==
  ASSUME TypeOK, TypeOK', MinorInv, IdInv, phase \in MinorPhases, phase' \in MinorPhases,
         UNCHANGED <<from, top, roots>>, Follows,
         NEW h \in ToCells \cup OldCells, slot \in Fields, kid[h][slot] \in Source,
         NEW t, NeedsCopy(kid[h][slot]) => FreeCell(kid[h][slot], t),
         Evacuate(kid[h][slot], t),
         kid' = [KidsWithCopy(kid[h][slot], t) EXCEPT
                   ![h][slot] = Forwarded(kid[h][slot], t)]
  PROVE  IdInv' /\ Silent
<1> DEFINE p == kid[h][slot]
           n == Forwarded(p, t)
           K == KidsWithCopy(p, t)
<1>1. /\ FromInv /\ \A a \in ToCells : fwd[a] = Null
      /\ IdMinor /\ id \in [Addr -> 0 .. 2 * Semi]
  BY DEF MinorInv, ToInv, IdInv
<1>2. K \in [Addr -> [Fields -> Ptr]] /\ h \in Addr
  BY <1>1, Evacuation, Geometry
<1>3. \A a \in Addr : \A f \in Fields :
        \/ kid'[a][f] = KidsWithCopy(p, t)[a][f]
        \/ a \in ToCells \cup OldCells /\ kid[a][f] = p /\ kid'[a][f] = Forwarded(p, t)
  <2>1. /\ kid'[h][slot] = n
        /\ \A a \in Addr : \A f \in Fields : ~(a = h /\ f = slot) => kid'[a][f] = K[a][f]
    <3> HIDE DEF n, K, p
    <3>1. kid' = [K EXCEPT ![h][slot] = n]
      BY DEF n, K, p
    <3> QED BY <1>2, <3>1, FieldUpdate
  <2> QED BY <2>1
<1>4. /\ id' \in [Addr -> 0 .. 2 * Semi]
      /\ IdMinor'
      /\ \A a \in Occupied : id'[a] = id[a]
      /\ \A a \in Occupied' : \E b \in Occupied : id'[a] = id[b]
      /\ \A a \in Occupied : \A f \in Fields : SameObject(kid[a][f], kid'[a][f])
      /\ Occupied \subseteq Occupied'
  <2> HIDE DEF n, K
  <2>1. p \in Source /\ (NeedsCopy(p) => FreeCell(p, t)) /\ Evacuate(p, t)
    OBVIOUS
  <2> HIDE DEF p
  <2> QED BY <1>1, <1>3, <2>1, ForwardKeepsIds
<1>5. \A r \in Roots : SameObject(roots[r], roots'[r])
  <2>1. \A r \in Roots : roots[r] \in Occupied \cup {Null}
    BY CleanMinor
  <2> QED BY <1>4, <2>1 DEF SameObject
<1> QED BY <1>4, <1>5, MinorSilent

LEMMA MinorStepSilent ==
  ASSUME TypeOK, TypeOK', PhaseInv, IdInv, IdStep, Sound', Minor, ~FinishMinor
  PROVE  IdInv' /\ Silent
<1> USE DEF space, object, remset, minor, major
<1>0. over_cap' = FALSE
  BY DEF Sound, TypeOK, ControlType
<1>1. CASE TraceRemembered
  <2>1. phase = "remset" /\ phase' = phase /\ rem # <<>> /\ UNCHANGED <<from, top, roots>>
    BY <1>1 DEF TraceRemembered
  <2>2. phase \in MinorPhases /\ MinorInv
    BY <2>1 DEF MinorPhases, PhaseInv
  <2>3. Head(rem) \in OldCells
    <3>1. Head(rem) \in SetOf(rem)
      BY <2>1, SetOfTail DEF TypeOK, RemsetType
    <3> QED BY <2>2, <3>1 DEF MinorInv
  <2>4. /\ ~PromoteSpills(kid[Head(rem)][slot])
        /\ Evacuate(kid[Head(rem)][slot], PromoteTarget(kid[Head(rem)][slot]))
        /\ kid' = [KidsWithCopy(kid[Head(rem)][slot], PromoteTarget(kid[Head(rem)][slot])) EXCEPT
                     ![Head(rem)][slot] =
                        Forwarded(kid[Head(rem)][slot], PromoteTarget(kid[Head(rem)][slot]))]
    BY <1>0, <1>1 DEF TraceRemembered, TraceFieldFromOld
  <2>5. kid[Head(rem)][slot] \in Source /\ slot \in Fields
    BY <2>1, <2>2, ForwardsSource, MinorTypes
  <2>6. ~(old_top' < old_top)
    BY <2>4, MinorTypes DEF Evacuate
  <2> QED BY <2>1, <2>2, <2>3, <2>4, <2>5, <2>6, PromoteIntoFree, FollowsNow, TraceSilent
<1>2. CASE ScanYoung
  <2>1. phase = "young" /\ phase' = phase /\ yscan < to_top /\ UNCHANGED <<from, top, roots>>
    BY <1>2 DEF ScanYoung
  <2>2. phase \in MinorPhases /\ MinorInv
    BY <2>1 DEF MinorPhases, PhaseInv
  <2>3. to + yscan \in ToCells
    BY <2>1, MinorTypes DEF ToCells
  <2> DEFINE p == kid[to + yscan][slot]
  <2>4. /\ ~CopyFails(p) /\ Evacuate(p, CopyTarget(p))
        /\ kid' = [KidsWithCopy(p, CopyTarget(p)) EXCEPT
                     ![to + yscan][slot] = Forwarded(p, CopyTarget(p))]
    BY <1>0, <1>2 DEF ScanYoung, TraceField
  <2>5. p \in Source /\ slot \in Fields
    BY <2>1, <2>2, ForwardsSource, MinorTypes
  <2>6. ~(old_top' < old_top)
    BY <2>4, MinorTypes DEF Evacuate
  <2> QED BY <2>1, <2>2, <2>3, <2>4, <2>5, <2>6, CopyIntoFree, FollowsNow, TraceSilent
<1>3. CASE ScanOld
  <2>1. phase = "old" /\ phase' = phase /\ old_scan < old_top /\ UNCHANGED <<from, top, roots>>
    BY <1>3 DEF ScanOld
  <2>2. phase \in MinorPhases /\ MinorInv
    BY <2>1 DEF MinorPhases, PhaseInv
  <2>3. OldBase + old_scan \in OldCells
    BY <2>1, MinorTypes DEF OldCells, OldBase
  <2> DEFINE p == kid[OldBase + old_scan][slot]
  <2>4. /\ ~PromoteSpills(p) /\ Evacuate(p, PromoteTarget(p))
        /\ kid' = [KidsWithCopy(p, PromoteTarget(p)) EXCEPT
                     ![OldBase + old_scan][slot] = Forwarded(p, PromoteTarget(p))]
    BY <1>0, <1>3 DEF ScanOld, TraceFieldFromOld
  <2>5. p \in Source /\ slot \in Fields
    BY <2>1, <2>2, ForwardsSource, MinorTypes
  <2>6. ~(old_top' < old_top)
    BY <2>4, MinorTypes DEF Evacuate
  <2> QED BY <2>1, <2>2, <2>3, <2>4, <2>5, <2>6, PromoteIntoFree, FollowsNow, TraceSilent
<1>4. CASE ForwardRoot
  <2> DEFINE p == roots[slot]
             t == CopyTarget(p)
  <2>1. /\ phase = "roots" /\ phase' \in MinorPhases /\ UNCHANGED <<from, top>>
        /\ ~CopyFails(p) /\ Evacuate(p, t) /\ kid' = KidsWithCopy(p, t)
        /\ roots' = [roots EXCEPT ![slot] = Forwarded(p, t)]
    BY <1>0, <1>4 DEF ForwardRoot, MinorPhases
  <2>2. phase \in MinorPhases /\ MinorInv
    BY <2>1 DEF MinorPhases, PhaseInv
  <2>3. p \in Source /\ slot \in Roots /\ roots \in [Roots -> Ptr]
    BY <2>1, <2>2, ForwardsSource, MinorTypes DEF TypeOK, ObjectType
  <2>4. ~(old_top' < old_top)
    BY <2>1, MinorTypes DEF Evacuate
  <2>5. IdMinor /\ id \in [Addr -> 0 .. 2 * Semi] /\ Follows
    BY <2>1, <2>2, <2>4, FollowsNow DEF IdInv
  <2>6. NeedsCopy(p) => FreeCell(p, t)
    BY <2>1, <2>3, CopyIntoFree
  <2>7. \A a \in Addr : \A f \in Fields : kid'[a][f] = KidsWithCopy(p, t)[a][f]
    BY <2>1
  <2> HIDE DEF p, t
  <2>8. /\ id' \in [Addr -> 0 .. 2 * Semi]
        /\ IdMinor'
        /\ \A a \in Occupied : id'[a] = id[a]
        /\ \A a \in Occupied' : \E b \in Occupied : id'[a] = id[b]
        /\ \A a \in Occupied : \A f \in Fields : SameObject(kid[a][f], kid'[a][f])
        /\ SameObject(p, Forwarded(p, t))
        /\ Occupied \subseteq Occupied'
    BY <2>1, <2>2, <2>3, <2>5, <2>6, <2>7, ForwardKeepsIds
  <2>9. \A r \in Roots : SameObject(roots[r], roots'[r])
    <3> TAKE r \in Roots
    <3>1. CASE r = slot
      BY <2>1, <2>3, <2>8, <3>1 DEF p
    <3>2. CASE r # slot
      <4>1. roots'[r] = roots[r] /\ roots[r] \in Occupied \cup {Null}
        BY <2>1, <2>2, <2>3, <3>2, CleanMinor
      <4> QED BY <2>8, <4>1 DEF SameObject
    <3> QED BY <3>1, <3>2
  <2> QED BY <2>1, <2>2, <2>8, <2>9, MinorSilent
<1>5. CASE RememberedDone \/ YoungDrained \/ OldDrainedYoungNot
  <2>1. /\ phase \in MinorPhases /\ phase' \in MinorPhases /\ MinorInv
        /\ UNCHANGED <<from, top, to_top, old_top, kid, fwd, roots>>
    BY <1>5 DEF RememberedDone, YoungDrained, OldDrainedYoungNot, MinorPhases, PhaseInv
  <2>2. /\ IdMinor /\ id \in [Addr -> 0 .. 2 * Semi] /\ Follows
    BY <2>1, MinorTypes, FollowsNow DEF IdInv
  <2>3. id' = id /\ Occupied' = Occupied /\ Heads' = Heads /\ YoungCells' = YoungCells
    BY <2>1, <2>2, NoStamp DEF Occupied, Heads, YoungCells, ToCells, OldCells, to
  <2>4. IdMinor'
    BY <2>1, <2>2, <2>3 DEF IdMinor, Tag
  <2>5. /\ \A a \in Occupied : \A f \in Fields : SameObject(kid[a][f], kid'[a][f])
        /\ \A r \in Roots : SameObject(roots[r], roots'[r])
    BY <2>1, <2>3 DEF SameObject
  <2> QED BY <2>1, <2>2, <2>3, <2>4, <2>5, MinorSilent
<1> QED BY <1>1, <1>2, <1>3, <1>4, <1>5 DEF Minor

-----------------------------------------------------------------------------
(***************************************************************************)
(* The steps between the copying phases and the sliding.                   *)
(***************************************************************************)
SteadyPhases == {"run", "resume", "major", "mark", "forward"}

\* Steps that touch no pointer and no identity.
LEMMA StillSilent ==
  ASSUME TypeOK, IdInv, Steady, phase \in SteadyPhases, phase' \in SteadyPhases,
         UNCHANGED <<id, from, top, old_top, kid, roots>>
  PROVE  IdInv' /\ Silent
<1>0. /\ phase # "slide" /\ phase' # "slide" /\ Names = Live /\ Names' = Live'
      /\ phase' \notin MinorPhases /\ phase \notin MinorPhases
  BY DEF MinorPhases, SteadyPhases, Names
<1>1. Live' = Live /\ YoungCells' = YoungCells
  BY DEF Live, YoungCells, OldCells
<1>2. IdSteady /\ id \in [Addr -> 0 .. 2 * Semi]
  BY DEF IdInv, SteadyPhases
<1>3. IdInv'
  BY <1>0, <1>1, <1>2 DEF IdInv, IdSteady
<1>4. \A p : Designates(p)' = Designates(p)
  BY <1>0 DEF Designates
<1>5. \A r \in Roots : Designates(roots[r])' = Designates(roots[r])
  BY <1>0 DEF Designates
<1>6. \A a \in Addr : \A f \in Fields : Designates(kid[a][f])' = Designates(kid[a][f])
  BY <1>0 DEF Designates
<1>7. Known' = Known
  BY <1>0, <1>1, <1>4 DEF Known
<1>8. Coherent
  BY SteadyCoherent DEF SteadyPhases
<1>9. Silent
  BY <1>5, <1>6, <1>7, <1>8 DEF Silent, Coherent
<1> QED BY <1>3, <1>9

\* A collection begins: nothing has been copied yet.
LEMMA BeginSilent ==
  ASSUME TypeOK, TypeOK', IdInv, IdStep, Steady, NEW i \in Roots, AllocCollects(i)
  PROVE  IdInv' /\ Silent
<1>0. /\ phase = "run" /\ phase' = "remset" /\ to_top' = 0
      /\ UNCHANGED <<from, top, old_top, kid, fwd, roots>>
  BY DEF AllocCollects, Running, object
<1>1. /\ phase # "slide" /\ phase' # "slide" /\ Names = Live /\ Names' = Occupied'
      /\ phase' \in MinorPhases /\ phase' \notin SteadyPhases
  BY <1>0 DEF MinorPhases, SteadyPhases, Names
<1>2. IdSteady /\ id \in [Addr -> 0 .. 2 * Semi]
  BY <1>0 DEF IdInv
<1>3. id' = id
  <2>1. Allocated = {}
    BY <1>0, MinorTypes DEF Allocated
  <2>2. id' = [a \in Addr |-> id[a]]
    BY <1>0, <2>1 DEF IdStep
  <2> QED BY <1>2, <2>2
<1>4. ToCells' = {} /\ YoungCells' = YoungCells /\ OldCells' = OldCells /\ Occupied' = Live
  <2>1. ToCells' = {}
    BY <1>0, MinorTypes DEF ToCells, to
  <2> QED BY <1>0, <2>1 DEF Occupied, Live, YoungCells, OldCells
<1>5. \A a \in YoungCells : fwd'[a] = Null
  BY <1>0 DEF Steady
<1>6. IdMinor'
  <2>1. Heads' = Live
    BY <1>4, <1>5 DEF Heads, Live
  <2> QED BY <1>2, <1>3, <1>4, <1>5, <2>1 DEF IdMinor, IdSteady
<1>7. IdInv'
  BY <1>0, <1>1, <1>2, <1>3, <1>6 DEF IdInv, MinorPhases
<1>8. \A p : Designates(p)' = Designates(p)
  BY <1>1, <1>3 DEF Designates
<1>9. /\ \A r \in Roots : Designates(roots[r])' = Designates(roots[r])
      /\ \A a \in Addr : \A f \in Fields : Designates(kid[a][f])' = Designates(kid[a][f])
  BY <1>0, <1>1, <1>3 DEF Designates
<1>10. Known' = Known
  BY <1>1, <1>4, <1>8 DEF Known
<1>11. Coherent
  BY <1>0, SteadyCoherent
<1>12. Silent
  BY <1>3, <1>9, <1>10, <1>11 DEF Silent, Coherent
<1> QED BY <1>7, <1>12

\* A minor collection ends: the survivors are known by their new cells alone.
LEMMA FinishMinorSilent ==
  ASSUME TypeOK, TypeOK', IdInv, IdStep, MinorInv, phase \in MinorPhases, FinishMinor
  PROVE  IdInv' /\ Silent
<1>0. /\ phase = "old" /\ phase' \in {"major", "resume"} /\ old_scan = old_top /\ yscan = to_top
      /\ from' = to /\ top' = to_top /\ to_top' = 0
      /\ kid' = [a \in Addr |-> IF is_young(a) THEN Blank ELSE kid[a]]
      /\ UNCHANGED <<old_top, roots>>
  BY DEF FinishMinor
<1>1. /\ phase # "slide" /\ phase' # "slide" /\ Names = Occupied /\ Names' = Live'
      /\ phase \notin {"run", "resume"} /\ phase' \notin MinorPhases
      /\ phase' \in SteadyPhases
  BY <1>0 DEF MinorPhases, SteadyPhases, Names
<1>2. IdMinor /\ id \in [Addr -> 0 .. 2 * Semi]
  BY DEF IdInv
<1>3. id' = [a \in Addr |-> IF is_young(a) THEN 0 ELSE id[a]]
  <2>1. from' # from
    BY <1>0, MinorTypes DEF to
  <2> QED BY <1>1, <2>1 DEF IdStep
<1>4. Live' = ToCells \cup OldCells /\ Live' \subseteq Addr /\ Null \notin Live'
  <2>1. YoungCells' = ToCells /\ OldCells' = OldCells
    BY <1>0 DEF YoungCells, ToCells, OldCells
  <2> QED BY <2>1, Geometry DEF Live
<1>5. \A a \in Live' : ~is_young(a) /\ id'[a] = id[a] /\ kid'[a] = kid[a] /\ a \in Heads
  BY <1>0, <1>3, <1>4, Geometry DEF Heads
<1>6. IdSteady'
  <2>1. ASSUME NEW a \in Addr PROVE id'[a] # 0 <=> a \in Live'
    <3>1. CASE a \in Live'
      BY <1>2, <1>4, <1>5, <3>1 DEF IdMinor, Occupied
    <3>2. CASE a \notin Live'
      BY <1>2, <1>3, <1>4, <3>2, Geometry DEF IdMinor, Occupied
    <3> QED BY <3>1, <3>2
  <2> QED BY <1>2, <1>5, <2>1 DEF IdSteady, IdMinor
<1>7. IdInv'
  <2>1. \A a \in Addr : id'[a] \in 0 .. 2 * Semi
    BY <1>2, <1>3, HeapAssumption
  <2>2. id' \in [Addr -> 0 .. 2 * Semi]
    BY <1>3, <2>1
  <2> QED BY <1>1, <1>6, <2>2 DEF IdInv
<1>8. \A p \in Live' \cup {Null} : Designates(p)' = Designates(p)
  BY <1>1, <1>5 DEF Designates
<1>9. \A r \in Roots : roots[r] \in Live' \cup {Null}
  <2>1. RootInv
    BY DEF MinorInv
  <2> QED BY <1>0, <1>4, <2>1 DEF RootInv, Done
<1>10. \A a \in Live' : \A f \in Fields : kid[a][f] \in Live' \cup {Null}
  <2>1. \A a \in ToCells : \A f \in Fields : kid[a][f] \in Done
    <3>1. \A a \in ToCells : a < to + yscan
      BY <1>0, MinorTypes DEF ToCells
    <3> QED BY <1>0, <3>1 DEF MinorInv, ToInv
  <2>2. \A a \in OldCells : \A f \in Fields :
          kid[a][f] \in OldOrNull \/ kid[a][f] \in ToCells
    <3>1. \A a \in OldCells : a < OldBase + old_scan
      BY <1>0, MinorTypes DEF OldCells, OldBase
    <3> QED BY <1>0, <3>1 DEF MinorInv, OldInv
  <2> QED BY <1>4, <2>1, <2>2 DEF Done, OldOrNull
<1>11. \A r \in Roots : Designates(roots[r])' = Designates(roots[r])
  <2>1. ASSUME NEW r \in Roots PROVE Designates(roots[r])' = Designates(roots[r])
    <3>1. roots'[r] = roots[r] /\ roots[r] \in Live' \cup {Null}
      BY <1>0, <1>9
    <3> QED BY <1>1, <1>5, <3>1 DEF Designates
  <2> QED BY <2>1
<1>12. ASSUME NEW a \in Live', NEW f \in Fields
       PROVE  Designates(kid[a][f])' = Designates(kid[a][f])
  <2>1. kid'[a][f] = kid[a][f] /\ kid[a][f] \in Live' \cup {Null}
    BY <1>5, <1>10
  <2> QED BY <1>1, <1>5, <2>1 DEF Designates
<1>13. ASSUME NEW x \in Known'
       PROVE  \E a, b \in Addr :
                /\ x \in Known /\ id[a] = x /\ id'[b] = x
                /\ \A f \in Fields : Designates(kid[b][f])' = Designates(kid[a][f])
  <2>1. PICK p \in Live' : x = Designates(p)'
    BY <1>1 DEF Known
  <2>2. x = id'[p] /\ x = id[p] /\ p \in Addr /\ Designates(p) = id[p]
    BY <1>1, <1>4, <1>5, <2>1 DEF Designates
  <2>3. x \in Known
    BY <1>1, <1>4, <2>2 DEF Known, Occupied
  <2> QED BY <1>12, <2>2, <2>3
<1> QED BY <1>7, <1>11, <1>13 DEF Silent

-----------------------------------------------------------------------------
(***************************************************************************)
(* Compaction of the old arena.                                            *)
(***************************************************************************)
\* While objects slide an address is read through the object that will occupy it.
LEMMA ReadThrough ==
  TypeOK /\ SlideInv /\ phase = "slide" =>
    /\ \A a, b \in Unslid : fwd[a] = fwd[b] => a = b
    /\ \A a \in Unslid : a \in Live /\ a \in Addr
    /\ \A a \in Unslid : \A p : p = fwd[a] => Designates(p) = id[a]
    /\ \A p \in Kept : (~ \E a \in Unslid : fwd[a] = p) => Designates(p) = id[p]
    /\ Kept \subseteq Live /\ Live \subseteq Addr /\ Null \notin Live
<1> SUFFICES ASSUME TypeOK, SlideInv, phase = "slide"
             PROVE  /\ \A a, b \in Unslid : fwd[a] = fwd[b] => a = b
                    /\ \A a \in Unslid : a \in Live /\ a \in Addr
                    /\ \A a \in Unslid : \A p : p = fwd[a] => Designates(p) = id[a]
                    /\ \A p \in Kept : (~ \E a \in Unslid : fwd[a] = p) => Designates(p) = id[p]
                    /\ Kept \subseteq Live /\ Live \subseteq Addr /\ Null \notin Live
  OBVIOUS
<1>1. NewOld \subseteq OldCells
  BY MajorTypes, RangeGrows DEF NewOld, OldCells, OldBase, SlideInv
<1>2. Kept \subseteq Live /\ Live \subseteq Addr /\ Null \notin Live
  BY <1>1, Geometry DEF Kept, Live
<1>3. \A a \in Unslid : a \in Live /\ a \in Addr /\ a \in Int
  BY <1>2, MajorTypes DEF Unslid, Live, OldCells, OldBase
<1>4. ASSUME NEW a \in Unslid, NEW b \in Unslid, fwd[a] = fwd[b] PROVE a = b
  <2>1. a < b => fwd[a] < fwd[b]
    BY DEF SlideInv
  <2>2. b < a => fwd[b] < fwd[a]
    BY DEF SlideInv
  <2>3. fwd[a] \in Int
    BY MajorTypes DEF SlideInv, NewOld, OldBase
  <2> QED BY <1>3, <1>4, <2>1, <2>2, <2>3
<1>5. ASSUME NEW a \in Unslid PROVE Designates(fwd[a]) = id[a]
  <2> DEFINE c == CHOOSE b \in Unslid : fwd[b] = fwd[a]
  <2>1. c \in Unslid /\ fwd[c] = fwd[a]
    OBVIOUS
  <2>2. c = a
    BY <1>4, <2>1
  <2>3. fwd[a] # Null
    BY <1>1, <1>2 DEF SlideInv, Live
  <2> QED BY <2>2, <2>3 DEF Designates
<1>6. \A p \in Kept : (~ \E a \in Unslid : fwd[a] = p) => Designates(p) = id[p]
  BY <1>2 DEF Designates
<1> QED BY <1>2, <1>3, <1>4, <1>5, <1>6

\* Every pointer is replaced by the address its object will have.
LEMMA UpdateSilent ==
  ASSUME TypeOK, TypeOK', IdInv, IdStep, Steady, Marked, mark_work = {}, Packed,
         UpdatePointers, ~stale'
  PROVE  IdInv' /\ Silent
<1> DEFINE Survives == YoungCells \cup (OldCells \cap mark)
<1>0. /\ phase = "forward" /\ phase' = "slide" /\ cursor = old_top /\ cursor' = 0
      /\ roots' = [r \in Roots |-> forward_old(roots[r])]
      /\ kid' = [a \in Addr |->
                   IF a \in Survives THEN [f \in Fields |-> forward_old(kid[a][f])] ELSE kid[a]]
      /\ UNCHANGED <<from, top, old_top, fwd, mark, new_top>>
  BY DEF UpdatePointers, space
<1>1. /\ Names = Live /\ Names' = Kept' /\ phase' \notin MinorPhases
      /\ phase' \notin {"run", "resume", "major", "mark", "forward"}
  BY <1>0 DEF MinorPhases, Names
<1>2. /\ YoungCells' = YoungCells /\ OldCells' = OldCells /\ Live' = Live /\ NewOld' = NewOld
      /\ Kept' = Kept
  BY <1>0 DEF YoungCells, OldCells, NewOld, Live, Kept
<1>3. id' = id /\ IdSteady /\ id \in [Addr -> 0 .. 2 * Semi]
  <2>1. id' = id
    BY <1>0, MajorTypes DEF IdStep, MinorPhases
  <2> QED BY <1>0, <2>1 DEF IdInv
<1>4. SlideInv'
  BY <1>0, UpdatePointersSafe
<1>5. Unslid' = OldCells \cap mark
  <2>1. \A a \in OldCells : a >= OldBase + cursor'
    BY <1>0, MajorTypes DEF OldCells, OldBase
  <2> QED BY <1>0, <1>2, <2>1 DEF Unslid
<1>6. /\ \A a \in OldCells \cap mark : \A p : p = fwd[a] => Designates(p)' = id[a]
      /\ \A p \in Kept : (~ \E a \in OldCells \cap mark : fwd[a] = p) => Designates(p)' = id[p]
      /\ \A a, b \in OldCells \cap mark : fwd[a] = fwd[b] => a = b
      /\ Survives \subseteq Live /\ Kept \subseteq Live /\ Live \subseteq Addr /\ Null \notin Live
  <2>1. (TypeOK /\ SlideInv /\ phase = "slide" =>
          /\ \A a, b \in Unslid : fwd[a] = fwd[b] => a = b
          /\ \A a \in Unslid : a \in Live /\ a \in Addr
          /\ \A a \in Unslid : \A p : p = fwd[a] => Designates(p) = id[a]
          /\ \A p \in Kept : (~ \E a \in Unslid : fwd[a] = p) => Designates(p) = id[p]
          /\ Kept \subseteq Live /\ Live \subseteq Addr /\ Null \notin Live)'
    BY ReadThrough, PTL
  <2>2. Survives \subseteq Live
    BY DEF Live
  <2>3. \A a, b \in Unslid' : fwd'[a] = fwd'[b] => a = b
    BY <1>0, <1>4, <2>1
  <2>4. \A a \in Unslid' : \A p : p = fwd'[a] => Designates(p)' = id'[a]
    BY <1>0, <1>4, <2>1
  <2>5. \A p \in Kept' : (~ \E a \in Unslid' : fwd'[a] = p) => Designates(p)' = id'[p]
    BY <1>0, <1>4, <2>1
  <2>6. Kept \subseteq Live /\ Live \subseteq Addr /\ Null \notin Live
    BY <1>0, <1>2, <1>4, <2>1
  <2>7. \A a \in OldCells \cap mark : \A p : p = fwd[a] => Designates(p)' = id[a]
    BY <1>0, <1>3, <1>5, <2>4
  <2>8. \A p \in Kept : (~ \E a \in OldCells \cap mark : fwd[a] = p) => Designates(p)' = id[p]
    BY <1>0, <1>2, <1>3, <1>5, <2>5
  <2> QED BY <1>0, <1>5, <2>2, <2>3, <2>6, <2>7, <2>8
<1>7. \A a \in OldCells \cap mark : fwd[a] \in NewOld
  <2>1. \A a \in OldCells : a < OldBase + cursor
    BY <1>0, MajorTypes DEF OldCells, OldBase
  <2> QED BY <2>1 DEF Packed, NewOld
<1>8. NewOld \cap YoungCells = {} /\ \A p \in Live \cup {Null} : p # Null => p \in Addr
  <2>1. NewOld \subseteq OldCells
    BY <1>0, MajorTypes, RangeGrows DEF NewOld, OldCells, OldBase
  <2> QED BY <1>6, <2>1, Geometry
\* Through the new addresses the graph reads as before.
<1>9. ASSUME NEW p \in Live \cup {Null}, p \in OldCells => p \in mark,
             NEW n, n = forward_old(p)
      PROVE  Designates(n)' = Designates(p) /\ n \in Kept \cup {Null}
  <2>0. Designates(p) = IF p = Null THEN 0 ELSE id[p]
    BY <1>0 DEF Designates
  <2>1. CASE p \in OldCells
    <3>1. n = fwd[p] /\ p # Null /\ p \in OldCells \cap mark
      BY <1>0, <1>6, <1>9, <2>1, ForwardOld DEF Live
    <3> QED BY <1>6, <1>7, <2>0, <3>1 DEF Kept
  <2>2. CASE p \in YoungCells
    <3>1. n = p /\ p # Null
      BY <1>0, <1>6, <1>9, <2>2, ForwardOld, Geometry DEF Live
    <3>2. p \in Kept /\ ~ \E a \in OldCells \cap mark : fwd[a] = p
      BY <1>7, <1>8, <2>2 DEF Kept
    <3> QED BY <1>6, <2>0, <3>1, <3>2
  <2>3. CASE p = Null
    <3>1. n = Null
      BY <1>0, <1>6, <1>9, <2>3, ForwardOld DEF Live
    <3> QED BY <2>3, <3>1 DEF Designates
  <2> QED BY <2>1, <2>2, <2>3 DEF Live
<1>10. ASSUME NEW a \in Survives, NEW f \in Fields
       PROVE  /\ Designates(kid[a][f])' = Designates(kid[a][f])
              /\ kid'[a][f] \in Kept \cup {Null}
  <2>1. kid[a][f] \in Live \cup {Null} /\ a \in Addr /\ kid'[a][f] = forward_old(kid[a][f])
    BY <1>0, <1>6 DEF Steady, Closed
  <2>2. kid[a][f] \in OldCells => kid[a][f] \in mark
    BY DEF Marked, OldChildren
  <2>3. ASSUME NEW n, n = kid'[a][f]
        PROVE  Designates(n)' = Designates(kid[a][f]) /\ n \in Kept \cup {Null}
    BY <1>9, <2>1, <2>2, <2>3
  <2> QED BY <2>3 DEF Designates
<1>11. ASSUME NEW r \in Roots PROVE Designates(roots[r])' = Designates(roots[r])
  <2>1. roots[r] \in Live \cup {Null} /\ roots'[r] = forward_old(roots[r])
    BY <1>0 DEF Steady, Closed
  <2>2. roots[r] \in OldCells => roots[r] \in mark
    BY DEF Marked
  <2>3. ASSUME NEW n, n = roots'[r] PROVE Designates(n)' = Designates(roots[r])
    BY <1>9, <2>1, <2>2, <2>3
  <2> QED BY <2>3 DEF Designates
<1>12. ASSUME NEW p \in Kept
       PROVE  \E a \in Survives : /\ Designates(p)' = id[a]
                                  /\ p = IF a \in YoungCells THEN a ELSE fwd[a]
  <2>1. CASE p \in YoungCells
    <3>1. ~ \E a \in OldCells \cap mark : fwd[a] = p
      BY <1>7, <1>8, <2>1
    <3> QED BY <1>6, <2>1, <3>1
  <2>2. CASE p \in NewOld
    <3>1. PICK a \in OldCells \cap mark : fwd[a] = p
      BY <2>2 DEF Packed, NewOld
    <3> QED BY <1>6, <3>1, Geometry
  <2> QED BY <2>1, <2>2 DEF Kept
<1>13. \A x \in Known' : \E a \in Survives : x = id[a]
  BY <1>1, <1>2, <1>12 DEF Known
<1>14. \A a \in Live : id'[a] \in Known' => a \in Survives
  BY <1>3, <1>6, <1>13 DEF IdSteady
<1>15. \A a, b \in Live : id'[a] = id'[b] => a = b
  BY <1>3 DEF IdSteady
<1>16. IdSlide'
  <2>1. /\ \A a \in Addr : id'[a] # 0 => a \in Live'
        /\ \A p \in Kept' : Designates(p)' # 0
    BY <1>2, <1>3, <1>6, <1>12 DEF IdSteady
  <2>2. \A p, q \in Kept' : Designates(p)' = Designates(q)' => p = q
    <3> SUFFICES ASSUME NEW p \in Kept, NEW q \in Kept, Designates(p)' = Designates(q)'
                 PROVE  p = q
      BY <1>2
    <3>1. PICK a \in Survives :
            Designates(p)' = id[a] /\ p = IF a \in YoungCells THEN a ELSE fwd[a]
      BY <1>12
    <3>2. PICK b \in Survives :
            Designates(q)' = id[b] /\ q = IF b \in YoungCells THEN b ELSE fwd[b]
      BY <1>12
    <3>3. a = b
      BY <1>3, <1>6, <3>1, <3>2 DEF IdSteady
    <3> QED BY <3>1, <3>2, <3>3
  <2>3. \A a \in Live' : id'[a] \in Known' => \A f \in Fields : kid'[a][f] \in Kept' \cup {Null}
    BY <1>2, <1>10, <1>14
  <2>4. \A a, b \in Live' : id'[a] = id'[b] /\ id'[a] \in Known' =>
          \A f \in Fields : Designates(kid[a][f])' = Designates(kid[b][f])'
    BY <1>2, <1>15
  <2> QED BY <2>1, <2>2, <2>3, <2>4 DEF IdSlide
<1>17. IdInv'
  BY <1>1, <1>3, <1>16 DEF IdInv
<1>18. ASSUME NEW x \in Known'
       PROVE  \E a, b \in Addr :
                /\ x \in Known /\ id[a] = x /\ id'[b] = x
                /\ \A f \in Fields : Designates(kid[b][f])' = Designates(kid[a][f])
  <2>1. PICK a \in Survives : x = id[a]
    BY <1>13
  <2>2. a \in Addr /\ a \in Live /\ a # Null
    BY <1>6
  <2>3. Designates(a) = id[a]
    BY <1>0, <2>2 DEF Designates
  <2>4. x \in Known
    BY <1>1, <2>1, <2>2, <2>3 DEF Known
  <2> QED BY <1>3, <1>10, <2>1, <2>2, <2>4
<1> QED BY <1>11, <1>17, <1>18 DEF Silent

\* One object slides down: the cell it reaches holds a copy of it.
LEMMA SlideSilent ==
  ASSUME TypeOK, TypeOK', IdInv, IdStep, SlideInv, SlideInv', phase = "slide", Slide
  PROVE  IdInv' /\ Silent
<1> DEFINE o == OldBase + cursor
           t == fwd[o]
           src(a) == IF o \in mark /\ a = t THEN o ELSE a
<1>0. /\ phase' = "slide" /\ cursor < old_top /\ cursor' = cursor + 1
      /\ IF o \in mark
         THEN /\ kid' = [kid EXCEPT ![t] = kid[o]] /\ fwd' = [fwd EXCEPT ![t] = t]
              /\ mark' = mark \cup {t}
         ELSE UNCHANGED <<kid, fwd, mark>>
      /\ UNCHANGED <<from, top, old_top, roots, new_top>>
  BY DEF Slide, space, object
<1>1. /\ Names = Kept /\ Names' = Kept' /\ phase' \notin MinorPhases
      /\ phase' \notin {"run", "resume", "major", "mark", "forward"}
  BY <1>0 DEF MinorPhases, Names
<1>2. /\ YoungCells' = YoungCells /\ OldCells' = OldCells /\ Live' = Live /\ NewOld' = NewOld
      /\ Kept' = Kept
  BY <1>0 DEF YoungCells, OldCells, NewOld, Live, Kept
<1>3. IdSlide /\ id \in [Addr -> 0 .. 2 * Semi]
  BY DEF IdInv
<1>4. id' = IF o \in mark THEN [id EXCEPT ![t] = id[o]] ELSE id
  BY <1>0 DEF IdStep
<1>5. /\ \A a, b \in Unslid : fwd[a] = fwd[b] => a = b
      /\ \A a \in Unslid : a \in Live /\ a \in Addr
      /\ \A a \in Unslid : \A p : p = fwd[a] => Designates(p) = id[a]
      /\ \A p \in Kept : (~ \E a \in Unslid : fwd[a] = p) => Designates(p) = id[p]
      /\ Kept \subseteq Live /\ Live \subseteq Addr /\ Null \notin Live
  BY ReadThrough
<1>6. /\ \A a \in Unslid' : \A p : p = fwd'[a] => Designates(p)' = id'[a]
      /\ \A p \in Kept : (~ \E a \in Unslid' : fwd'[a] = p) => Designates(p)' = id'[p]
  <2>1. (TypeOK /\ SlideInv /\ phase = "slide" =>
          /\ \A a, b \in Unslid : fwd[a] = fwd[b] => a = b
          /\ \A a \in Unslid : a \in Live /\ a \in Addr
          /\ \A a \in Unslid : \A p : p = fwd[a] => Designates(p) = id[a]
          /\ \A p \in Kept : (~ \E a \in Unslid : fwd[a] = p) => Designates(p) = id[p]
          /\ Kept \subseteq Live /\ Live \subseteq Addr /\ Null \notin Live)'
    BY ReadThrough, PTL
  <2> QED BY <1>0, <1>2, <2>1
<1>7. /\ o \in OldCells /\ o \in Int /\ OldBase + cursor' = o + 1
      /\ \A a \in OldCells : a \in Int
  <2>1. o \in OldCells
    BY <1>0, MajorTypes DEF OldCells, OldBase
  <2>2. \A a \in OldCells : a \in Int
    BY DEF OldCells
  <2>3. OldBase \in Int /\ cursor \in Int
    BY MajorTypes DEF OldBase
  <2> QED BY <1>0, <2>1, <2>2, <2>3
<1>8. ASSUME o \in mark
      PROVE  /\ o \in Unslid /\ t \in NewOld /\ t \in Addr /\ o \in Addr
             /\ Unslid' = Unslid \ {o}
             /\ \A a \in Unslid' : a # t
             /\ id'[t] = id[o] /\ kid'[t] = kid[o]
             /\ \A a \in Addr : a # t => id'[a] = id[a] /\ kid'[a] = kid[a] /\ fwd'[a] = fwd[a]
  <2>1. o \in Unslid /\ t \in NewOld /\ t <= o
    BY <1>7, <1>8, MajorTypes DEF Unslid, SlideInv
  <2>2. t \in Addr /\ o \in Addr /\ t \in Int
    BY <1>5, <2>1, MajorTypes DEF Kept, NewOld, OldBase
  <2>3. Unslid' = Unslid \ {o}
    <3>1. \A a \in OldCells : a >= o + 1 <=> (a >= o /\ a # o)
      BY <1>7, NextCell
    <3>2. ~(t >= o + 1)
      BY <1>7, <2>1, <2>2
    <3> QED BY <1>0, <1>2, <1>7, <1>8, <3>1, <3>2 DEF Unslid
  <2>4. \A a \in Unslid' : a # t
    <3>1. \A a \in Unslid' : a \in Int /\ a >= o + 1
      BY <1>2, <1>7 DEF Unslid
    <3> QED BY <1>7, <2>1, <2>2, <3>1
  <2>5. /\ id'[t] = id[o] /\ kid'[t] = kid[o]
        /\ \A a \in Addr : a # t => id'[a] = id[a] /\ kid'[a] = kid[a] /\ fwd'[a] = fwd[a]
    <3> HIDE DEF t, o
    <3> QED BY <1>0, <1>3, <1>4, <1>8, <2>2, MajorTypes
  <2> QED BY <2>1, <2>2, <2>3, <2>4, <2>5
<1>9. ASSUME o \notin mark PROVE Unslid' = Unslid /\ UNCHANGED <<id, kid, fwd>>
  <2>1. \A a \in OldCells \cap mark : a >= o + 1 <=> a >= o
    BY <1>7, <1>9, NextCell
  <2> QED BY <1>0, <1>2, <1>4, <1>7, <1>9, <2>1 DEF Unslid
<1> HIDE DEF o, t
\* No pointer changes what it designates.
<1>10. \A p \in Kept \cup {Null} : Designates(p)' = Designates(p)
  <2> SUFFICES ASSUME NEW p \in Kept PROVE Designates(p)' = Designates(p)
    BY DEF Designates
  <2>0. p \in Addr
    BY <1>5
  <2>1. CASE o \notin mark
    <3>1. CASE \E a \in Unslid : fwd[a] = p
      BY <1>5, <1>6, <1>9, <2>1, <3>1
    <3>2. CASE ~ \E a \in Unslid : fwd[a] = p
      BY <1>5, <1>6, <1>9, <2>1, <3>2
    <3> QED BY <3>1, <3>2
  <2>2. CASE o \in mark /\ p = t
    <3>1. Designates(p) = id[o]
      BY <1>5, <1>8, <2>2 DEF t
    <3>2. ~ \E a \in Unslid' : fwd'[a] = p
      <4> SUFFICES ASSUME NEW a \in Unslid', fwd'[a] = p PROVE FALSE
        OBVIOUS
      <4>1. a \in Unslid /\ a # o /\ a # t /\ a \in Addr
        BY <1>5, <1>8, <2>2
      <4>2. fwd[a] = fwd[o]
        BY <1>8, <2>2, <4>1 DEF t
      <4> QED BY <1>5, <1>8, <2>2, <4>1, <4>2
    <3> QED BY <1>6, <1>8, <2>2, <3>1, <3>2
  <2>3. CASE o \in mark /\ p # t /\ \E a \in Unslid : fwd[a] = p
    <3>1. PICK a \in Unslid : fwd[a] = p
      BY <2>3
    <3>2. a # o
      BY <2>3, <3>1 DEF t
    <3>3. a \in Unslid' /\ fwd'[a] = p /\ id'[a] = id[a]
      BY <1>5, <1>8, <2>3, <3>1, <3>2
    <3> QED BY <1>5, <1>6, <3>1, <3>3
  <2>4. CASE o \in mark /\ p # t /\ ~ \E a \in Unslid : fwd[a] = p
    <3>1. ~ \E a \in Unslid' : fwd'[a] = p
      BY <1>5, <1>8, <2>4
    <3> QED BY <1>5, <1>6, <1>8, <2>0, <2>4, <3>1
  <2> QED BY <2>1, <2>2, <2>3, <2>4
<1>11. Known' = Known
  <2>1. \A x : x \in Known' <=> \E p \in Kept : x = Designates(p)'
    BY <1>1, <1>2 DEF Known
  <2>2. \A x : x \in Known <=> \E p \in Kept : x = Designates(p)
    BY <1>1 DEF Known
  <2> QED BY <1>10, <2>1, <2>2
<1>12. \A a \in Live : src(a) \in Live /\ id'[a] = id[src(a)] /\ kid'[a] = kid[src(a)]
  BY <1>5, <1>8, <1>9
<1>13. \A a \in Addr : id'[a] # 0 => a \in Live
  <2>1. t \in NewOld => t \in Live
    BY <1>5 DEF Kept
  <2> QED BY <1>3, <1>8, <1>9, <2>1 DEF IdSlide
<1> HIDE DEF src
<1>14. ASSUME NEW a \in Live, id'[a] \in Known, NEW f \in Fields
       PROVE  /\ kid'[a][f] \in Kept \cup {Null}
              /\ Designates(kid[a][f])' = Designates(kid[src(a)][f])
  <2>1. kid'[a][f] = kid[src(a)][f] /\ kid[src(a)][f] \in Kept \cup {Null}
    BY <1>3, <1>12, <1>14 DEF IdSlide
  <2>2. ASSUME NEW n, n = kid'[a][f] PROVE Designates(n)' = Designates(kid[src(a)][f])
    BY <1>10, <2>1, <2>2
  <2> QED BY <2>1, <2>2 DEF Designates
<1>15. ASSUME NEW r \in Roots PROVE Designates(roots[r])' = Designates(roots[r])
  <2>1. roots'[r] = roots[r] /\ roots[r] \in Kept \cup {Null}
    BY <1>0 DEF SlideInv, Kept
  <2>2. ASSUME NEW n, n = roots'[r] PROVE Designates(n)' = Designates(roots[r])
    BY <1>10, <2>1, <2>2
  <2> QED BY <2>2 DEF Designates
<1>16. IdSlide'
  <2>1. \A p \in Kept' : Designates(p)' # 0
    BY <1>2, <1>3, <1>10 DEF IdSlide
  <2>2. \A p, q \in Kept' : Designates(p)' = Designates(q)' => p = q
    BY <1>2, <1>3, <1>10 DEF IdSlide
  <2>3. \A a \in Live' : id'[a] \in Known' => \A f \in Fields : kid'[a][f] \in Kept' \cup {Null}
    BY <1>2, <1>11, <1>14
  <2>4. ASSUME NEW a \in Live', NEW b \in Live', id'[a] = id'[b], id'[a] \in Known',
               NEW f \in Fields
        PROVE  Designates(kid[a][f])' = Designates(kid[b][f])'
    <3>1. /\ Designates(kid[a][f])' = Designates(kid[src(a)][f])
          /\ Designates(kid[b][f])' = Designates(kid[src(b)][f])
      BY <1>2, <1>11, <1>14, <2>4
    <3>2. Designates(kid[src(a)][f]) = Designates(kid[src(b)][f])
      BY <1>2, <1>3, <1>11, <1>12, <2>4 DEF IdSlide
    <3> QED BY <3>1, <3>2
  <2> QED BY <1>2, <1>13, <2>1, <2>2, <2>3, <2>4 DEF IdSlide
<1>17. IdInv'
  <2>1. id' \in [Addr -> 0 .. 2 * Semi]
    BY <1>3, <1>4, <1>8, <1>9
  <2> QED BY <1>1, <1>16, <2>1 DEF IdInv
<1>18. Coherent'
  <2>1. (TypeOK /\ IdInv /\ SlideInv /\ phase = "slide" => Coherent)'
    <3>1. TypeOK /\ IdInv /\ SlideInv /\ phase = "slide" => Coherent
      BY SlideCoherent
    <3> QED BY SlideCoherent, PTL
  <2> QED BY <1>0, <1>17, <2>1
<1>19. ASSUME NEW x \in Known'
       PROVE  \E a, b \in Addr :
                /\ x \in Known /\ id[a] = x /\ id'[b] = x
                /\ \A f \in Fields : Designates(kid[b][f])' = Designates(kid[a][f])
  <2>1. PICK b \in Addr : id'[b] = x
    BY <1>18 DEF Coherent
  <2>2. x # 0
    BY <1>1, <1>11, <1>3 DEF Known, IdSlide
  <2>3. b \in Live /\ src(b) \in Live /\ id[src(b)] = x /\ src(b) \in Addr
    BY <1>5, <1>12, <1>13, <2>1, <2>2
  <2>4. \A f \in Fields : Designates(kid[b][f])' = Designates(kid[src(b)][f])
    BY <1>11, <1>14, <2>1, <2>3
  <2> QED BY <1>11, <2>1, <2>3, <2>4
<1> QED BY <1>15, <1>17, <1>19 DEF Silent

\* The freed tail is blanked: nothing designated was left in it.
LEMMA FinishMajorSilent ==
  ASSUME TypeOK, TypeOK', IdInv, IdStep, SlideInv, phase = "slide", FinishMajor
  PROVE  IdInv' /\ Silent
<1>0. /\ phase' = "resume" /\ cursor = old_top /\ old_top' = new_top
      /\ kid' = [a \in Addr |-> IF a >= OldBase + new_top THEN Blank ELSE kid[a]]
      /\ UNCHANGED <<from, top, roots>>
  BY DEF FinishMajor
<1>1. Names = Kept /\ Names' = Live' /\ phase' \notin MinorPhases /\ phase \notin MinorPhases
  BY <1>0 DEF MinorPhases, Names
<1>2. YoungCells' = YoungCells /\ Live' = Kept
  BY <1>0 DEF YoungCells, OldCells, NewOld, Live, Kept
<1>3. IdSlide /\ id \in [Addr -> 0 .. 2 * Semi]
  BY DEF IdInv
<1>4. Unslid = {}
  BY <1>0, MajorTypes DEF Unslid, OldCells, OldBase
<1>5. /\ \A p \in Kept : Designates(p) = id[p]
      /\ Kept \subseteq Live /\ Live \subseteq Addr /\ Null \notin Live
  BY <1>4, ReadThrough
<1>6. \A a \in Kept : a \in Addr /\ ~(a >= OldBase + new_top)
  BY MajorTypes DEF YoungCells, NewOld, Kept, OldBase, Addr
<1>7. \A a \in Addr : id'[a] = IF a \in Kept THEN id[a] ELSE 0
  <2>1. CASE old_top' < old_top
    <3>1. id' = [a \in Addr |-> IF a >= OldBase + old_top' THEN 0 ELSE id[a]]
      BY <1>0, <2>1, MajorTypes DEF IdStep
    <3>2. ASSUME NEW a \in Addr, a \notin Kept, ~(a >= OldBase + new_top) PROVE a \notin Live
      BY <3>2, MajorTypes DEF Kept, Live, NewOld, OldCells, OldBase, Addr
    <3> QED BY <1>0, <1>3, <1>6, <3>1, <3>2 DEF IdSlide
  <2>2. CASE ~(old_top' < old_top)
    <3>1. id' = id
      BY <1>0, <1>1, <2>2 DEF IdStep
    <3>2. new_top = old_top
      <4>1. new_top <= old_top
        BY DEF SlideInv
      <4>2. new_top \in Int /\ old_top \in Int
        BY MajorTypes
      <4> QED BY <1>0, <2>2, <4>1, <4>2
    <3>3. Kept = Live
      BY <3>2 DEF Kept, Live, NewOld, OldCells
    <3> QED BY <1>3, <3>1, <3>3 DEF IdSlide
  <2> QED BY <2>1, <2>2
<1>8. \A a \in Kept : id'[a] = id[a] /\ kid'[a] = kid[a] /\ Designates(a)' = Designates(a)
  BY <1>0, <1>5, <1>6, <1>7 DEF Designates
<1>9. IdSteady'
  <2>1. \A a \in Kept : id[a] # 0
    BY <1>3, <1>5 DEF IdSlide
  <2>2. \A a, b \in Kept : id[a] = id[b] => a = b
    BY <1>3, <1>5 DEF IdSlide
  <2> QED BY <1>2, <1>7, <1>8, <2>1, <2>2 DEF IdSteady
<1>10. IdInv'
  <2>1. id' \in [Addr -> 0 .. 2 * Semi]
    <3>1. \A a \in Addr : id'[a] \in 0 .. 2 * Semi
      BY <1>3, <1>7, HeapAssumption
    <3>2. id' = [a \in Addr |-> id'[a]]
      <4>1. CASE old_top' < old_top
        BY <1>0, <4>1 DEF IdStep
      <4>2. CASE ~(old_top' < old_top)
        BY <1>0, <1>1, <1>3, <4>2 DEF IdStep
      <4> QED BY <4>1, <4>2
    <3> QED BY <3>1, <3>2
  <2> QED BY <1>0, <1>1, <1>9, <2>1 DEF IdInv
<1>11. /\ \A r \in Roots : roots[r] \in Kept \cup {Null}
       /\ \A a \in Kept : \A f \in Fields : kid[a][f] \in Kept \cup {Null}
  BY <1>4 DEF SlideInv, Kept
<1>12. ASSUME NEW a \in Kept, NEW f \in Fields
       PROVE  Designates(kid[a][f])' = Designates(kid[a][f])
  BY <1>0, <1>4, <1>5, <1>8, <1>11 DEF Designates
<1>13. \A r \in Roots : Designates(roots[r])' = Designates(roots[r])
  BY <1>0, <1>4, <1>5, <1>8, <1>11 DEF Designates
<1>14. ASSUME NEW x \in Known'
       PROVE  \E a, b \in Addr :
                /\ x \in Known /\ id[a] = x /\ id'[b] = x
                /\ \A f \in Fields : Designates(kid[b][f])' = Designates(kid[a][f])
  <2>1. PICK p \in Kept : x = Designates(p)'
    BY <1>1, <1>2 DEF Known
  <2>2. x = id[p] /\ x = id'[p] /\ p \in Addr /\ x \in Known
    BY <1>1, <1>5, <1>8, <2>1 DEF Known
  <2> QED BY <1>12, <2>2
<1> QED BY <1>10, <1>13, <1>14 DEF Silent

-----------------------------------------------------------------------------
(***************************************************************************)
(* The program: each of its steps is the step of the graph.                *)
(***************************************************************************)
\* What IdInv says while the program runs.
LEMMA RunFacts ==
  ASSUME TypeOK, IdInv, Steady, phase \in {"run", "resume"}
  PROVE  /\ Coherent /\ IdSteady /\ id \in [Addr -> 0 .. 2 * Semi]
         /\ Names = Live /\ Live \subseteq Addr /\ Null \notin Live
         /\ \A p \in Live : Designates(p) = id[p] /\ id[p] \in Known /\ id[p] # 0
         /\ kid \in [Addr -> [Fields -> Ptr]] /\ roots \in [Roots -> Ptr]
         /\ \A r \in Roots : roots[r] \in Live \cup {Null}
         /\ phase # "slide" /\ phase \notin MinorPhases
<1>1. Coherent /\ phase # "slide" /\ phase \notin MinorPhases
  BY SteadyCoherent DEF MinorPhases
<1>2. Names = Live /\ Live \subseteq Addr /\ Null \notin Live /\ IdSteady
  BY <1>1, Geometry DEF Names, Live, IdInv
<1>3. \A p \in Live : Designates(p) = id[p] /\ id[p] \in Known /\ id[p] # 0
  BY <1>1, <1>2 DEF Designates, Known, IdSteady
<1> QED BY <1>1, <1>2, <1>3 DEF IdInv, TypeOK, ObjectType, Steady, Closed

\* A step that changes only root slot i.
LEMMA RootStep ==
  ASSUME TypeOK, TypeOK', IdInv, IdStep, Steady, Steady', phase = "run",
         NEW i \in Roots, NEW v \in Live \cup {Null}, roots' = [roots EXCEPT ![i] = v],
         UNCHANGED <<phase, from, top, old_top, kid>>
  PROVE  IdInv' /\ Graph!Becomes([RootOf EXCEPT ![i] = Designates(v)], EdgeOf)
<1>0. /\ IdSteady /\ id \in [Addr -> 0 .. 2 * Semi] /\ Live' = Live
      /\ phase # "slide" /\ phase' # "slide" /\ phase' \notin MinorPhases
  BY RunFacts DEF Live, YoungCells, OldCells
<1>1. id' = id
  <2>1. Allocated = {}
    BY MajorTypes DEF Allocated
  <2> QED BY <1>0, <2>1 DEF IdStep
<1>2. IdInv'
  BY <1>0, <1>1 DEF IdInv, IdSteady
<1>3. Coherent'
  <2>1. (TypeOK /\ IdInv /\ Steady /\ phase \in {"run", "resume", "major", "mark", "forward"}
           => Coherent)'
    <3>1. TypeOK /\ IdInv /\ Steady /\ phase \in {"run", "resume", "major", "mark", "forward"}
            => Coherent
      BY SteadyCoherent
    <3> QED BY SteadyCoherent, PTL
  <2> QED BY <1>2, <2>1
<1>4. EdgeOf' = EdgeOf
  BY <1>0, <1>1 DEF EdgeOf, FieldsOf, CellsOf, Designates
<1>5. RootOf' = [RootOf EXCEPT ![i] = Designates(v)]
  <2>1. \A r \in Roots : roots'[r] = IF r = i THEN v ELSE roots[r]
    BY DEF TypeOK, ObjectType
  <2>2. \A r \in Roots : Designates(roots[r])' = IF r = i THEN Designates(v)
                                                 ELSE Designates(roots[r])
    BY <1>0, <1>1, <2>1 DEF Designates
  <2>3. RootOf' = [r \in Roots |-> IF r = i THEN Designates(v) ELSE Designates(roots[r])]
    BY <2>2 DEF RootOf
  <2> QED BY <2>3 DEF RootOf
<1> QED BY <1>2, <1>3, <1>4, <1>5, Match

\* holder.f = v, whether or not the write barrier logs it.
LEMMA FieldStep ==
  ASSUME TypeOK, TypeOK', IdInv, IdStep, Steady, Steady', phase = "run",
         NEW i \in Roots, NEW g \in Fields, NEW v \in Live \cup {Null}, roots[i] # Null,
         kid' = [kid EXCEPT ![roots[i]][g] = v],
         UNCHANGED <<phase, from, top, old_top, roots>>
  PROVE  /\ IdInv' /\ RootOf[i] # 0
         /\ Graph!Becomes(RootOf, [EdgeOf EXCEPT ![RootOf[i]][g] = Designates(v)])
<1> DEFINE h == roots[i]
<1>0. /\ Coherent /\ IdSteady /\ id \in [Addr -> 0 .. 2 * Semi] /\ Live' = Live
      /\ Names = Live /\ Live \subseteq Addr /\ Null \notin Live
      /\ kid \in [Addr -> [Fields -> Ptr]]
      /\ \A p \in Live : Designates(p) = id[p] /\ id[p] \in Known /\ id[p] # 0
      /\ h \in Live /\ phase # "slide" /\ phase' # "slide" /\ phase' \notin MinorPhases
  BY RunFacts DEF Live, YoungCells, OldCells
<1>1. id' = id
  <2>1. Allocated = {}
    BY MajorTypes DEF Allocated
  <2> QED BY <1>0, <2>1 DEF IdStep
<1>2. IdInv'
  BY <1>0, <1>1 DEF IdInv, IdSteady
<1>3. Coherent'
  <2>1. (TypeOK /\ IdInv /\ Steady /\ phase \in {"run", "resume", "major", "mark", "forward"}
           => Coherent)'
    <3>1. TypeOK /\ IdInv /\ Steady /\ phase \in {"run", "resume", "major", "mark", "forward"}
            => Coherent
      BY SteadyCoherent
    <3> QED BY SteadyCoherent, PTL
  <2> QED BY <1>2, <2>1
<1>4. RootOf' = RootOf /\ RootOf[i] = id[h]
  BY <1>0, <1>1 DEF RootOf, Designates
<1>5. Known' = Known
  BY <1>0, <1>1 DEF Known, Names, Designates
<1>6. /\ kid'[h][g] = v
      /\ \A a \in Addr : \A f \in Fields : ~(a = h /\ f = g) => kid'[a][f] = kid[a][f]
  <2> HIDE DEF h
  <2>1. kid' = [kid EXCEPT ![h][g] = v] /\ h \in Addr
    BY <1>0 DEF h
  <2> QED BY <1>0, <2>1, FieldUpdate
<1>7. ASSUME NEW x \in Known'
      PROVE  (EdgeOf')[x] = [EdgeOf EXCEPT ![id[h]][g] = Designates(v)][x]
  <2>1. PICK c \in Addr : id[c] = x
    BY <1>0, <1>5 DEF Coherent
  <2>2. EdgeOf[x] = CellFields(c)
    BY <1>0, <1>5, <2>1, EdgeIs
  <2>3. (EdgeOf')[x] = CellFields(c)'
    <3>1. (Coherent => \A a \in Addr : id[a] \in Known => EdgeOf[id[a]] = CellFields(a))'
      BY EdgeIs, PTL
    <3> QED BY <1>1, <1>3, <2>1, <3>1
  <2>4. CellFields(c)' = [f \in Fields |-> IF c = h /\ f = g THEN Designates(v)
                                                             ELSE Designates(kid[c][f])]
    BY <1>0, <1>1, <1>6 DEF CellFields, Designates
  <2>5. c = h <=> x = id[h]
    <3>1. x # 0
      BY <1>0, <1>5 DEF Known
    <3> QED BY <1>0, <2>1, <3>1 DEF IdSteady
  <2>6. x \in Id
    BY <1>0, <1>5 DEF Coherent
  <2>7. CASE c = h
    <3>1. [EdgeOf EXCEPT ![id[h]][g] = Designates(v)][x] = [EdgeOf[x] EXCEPT ![g] = Designates(v)]
      BY <2>5, <2>6, <2>7 DEF EdgeOf
    <3>2. CellFields(c)' = [CellFields(c) EXCEPT ![g] = Designates(v)]
      BY <2>4, <2>7 DEF CellFields
    <3> QED BY <2>2, <2>3, <3>1, <3>2
  <2>8. CASE c # h
    <3>1. [EdgeOf EXCEPT ![id[h]][g] = Designates(v)][x] = EdgeOf[x]
      BY <2>5, <2>6, <2>8 DEF EdgeOf
    <3>2. CellFields(c)' = CellFields(c)
      BY <2>4, <2>8 DEF CellFields
    <3> QED BY <2>2, <2>3, <3>1, <3>2
  <2> QED BY <2>7, <2>8
<1> QED BY <1>0, <1>2, <1>3, <1>4, <1>7, Match

LEMMA CellCount ==
  ASSUME NEW b \in Int, NEW n \in Nat
  PROVE  IsFiniteSet(b .. b + n - 1) /\ Cardinality(b .. b + n - 1) = n
<1> DEFINE c == b + n - 1
<1>1. c \in Int /\ (IF b > c THEN 0 ELSE c - b + 1) = n
  OBVIOUS
<1> HIDE DEF c
<1>2. IsFiniteSet(b .. c) /\ Cardinality(b .. c) = n
  BY <1>1, FS_Interval
<1> QED BY <1>2 DEF c

\* An allocation always finds an identity that no cell has: the cells are fewer.
LEMMA UnusedExists ==
  ASSUME TypeOK, IdInv, IdSteady, top < Semi
  PROVE  Unused # {}
<1> DEFINE ids == {id[a] : a \in Live}
<1>1. /\ IsFiniteSet(YoungCells) /\ Cardinality(YoungCells) = top
      /\ IsFiniteSet(OldCells) /\ Cardinality(OldCells) = old_top
  <2>1. from \in Int /\ top \in Nat /\ OldBase \in Int /\ old_top \in Nat
    BY MajorTypes DEF OldBase
  <2> QED BY <2>1, CellCount DEF YoungCells, OldCells
<1>2. IsFiniteSet(Live) /\ Cardinality(Live) <= top + old_top
      /\ Cardinality(Live) \in Nat
  <2>1. /\ IsFiniteSet(YoungCells \cup OldCells)
        /\ Cardinality(YoungCells \cup OldCells) =
             Cardinality(YoungCells) + Cardinality(OldCells)
               - Cardinality(YoungCells \cap OldCells)
    BY <1>1, FS_Union
  <2>2. YoungCells \cap OldCells = {}
    BY Geometry
  <2>3. Cardinality(Live) = top + old_top - 0
    BY <1>1, <2>1, <2>2, FS_EmptySet DEF Live
  <2> QED BY <2>1, <2>3, MajorTypes DEF Live
<1>3. IsFiniteSet(ids) /\ Cardinality(ids) <= Cardinality(Live) /\ Cardinality(ids) \in Nat
  <2>1. IsFiniteSet(ids) /\ Cardinality(ids) <= Cardinality(Live)
    <3> DEFINE m == [a \in Live |-> id[a]]
    <3>1. m \in Surjection(Live, ids)
      BY DEF Surjection
    <3> HIDE DEF m, ids
    <3> QED BY <1>2, <3>1, FS_Surjection
  <2> QED BY <2>1, FS_CardinalityType
<1>4. Cardinality(Id) = 2 * Semi
  <2>1. Cardinality(Id) = IF 1 > 2 * Semi THEN 0 ELSE 2 * Semi - 1 + 1
    BY HeapAssumption, FS_Interval DEF Id
  <2> QED BY <2>1, HeapAssumption
<1>5. ~(Id \subseteq ids)
  <2>1. Id \subseteq ids => Cardinality(Id) <= Cardinality(ids)
    BY <1>3, FS_Subset
  <2> HIDE DEF ids
  <2> QED BY <1>2, <1>3, <1>4, <2>1, MajorTypes
<1>6. PICK x \in Id : x \notin ids
  BY <1>5
<1>7. x # 0
  BY DEF Id
<1>8. \A a \in Addr : id[a] # x
  BY <1>6, <1>7 DEF IdSteady
<1> QED BY <1>8 DEF Unused

\* An allocation is New, with an identity no reachable object has.
LEMMA PlaceStep ==
  ASSUME TypeOK, TypeOK', IdInv, IdStep, Steady, Steady', phase \in {"run", "resume"},
         phase' = "run", NEW i \in Roots, top < Semi, Place(i), UNCHANGED <<from, old_top>>
  PROVE  IdInv' /\ \E x \in Id : Graph!New(i, x)
<1> DEFINE q == from + top
           c == CHOOSE x \in Unused : TRUE
<1>0. /\ Coherent /\ IdSteady /\ id \in [Addr -> 0 .. 2 * Semi]
      /\ Names = Live /\ Live \subseteq Addr /\ Null \notin Live
      /\ kid \in [Addr -> [Fields -> Ptr]] /\ roots \in [Roots -> Ptr]
      /\ \A p \in Live : Designates(p) = id[p] /\ id[p] \in Known /\ id[p] # 0
      /\ \A r \in Roots : roots[r] \in Live \cup {Null}
      /\ phase # "slide" /\ phase' # "slide" /\ phase' \notin MinorPhases
  BY RunFacts DEF MinorPhases
<1>1. /\ kid' = [kid EXCEPT ![q] = Blank] /\ top' = top + 1
      /\ roots' = [roots EXCEPT ![i] = q]
  BY DEF Place
<1>2. q \in Addr /\ q \notin Live /\ q # Null /\ Live' = Live \cup {q}
  <2>1. from \in Nat /\ top \in Nat
    BY MajorTypes
  <2>2. \A b, n \in Nat : b .. b + (n + 1) - 1 = (b .. b + n - 1) \cup {b + n}
    OBVIOUS
  <2>3. YoungCells' = YoungCells \cup {q} /\ OldCells' = OldCells
    BY <1>1, <2>1, <2>2 DEF YoungCells, OldCells
  <2>4. q \in Addr /\ q \notin Live /\ q # Null
    BY MajorTypes DEF Live, YoungCells, OldCells, OldBase, Addr, Null
  <2> QED BY <2>3, <2>4 DEF Live
<1>3. c \in Id /\ c # 0 /\ c \in 0 .. 2 * Semi /\ \A a \in Addr : id[a] # c
  <2>1. c \in Unused
    BY <1>0, UnusedExists
  <2>2. c \in Id /\ \A a \in Addr : id[a] # c
    BY <2>1 DEF Unused
  <2> HIDE DEF c
  <2> QED BY <2>2, HeapAssumption DEF Id
<1>4. id' = [a \in Addr |-> IF a = q THEN c ELSE id[a]]
  <2>1. Allocated = {q}
    BY <1>1 DEF Allocated
  <2> QED BY <2>1 DEF IdStep
<1> HIDE DEF c, q
<1>5. id'[q] = c /\ \A a \in Addr : a # q => id'[a] = id[a]
  BY <1>2, <1>4
<1>6. IdInv'
  <2>1. id' \in [Addr -> 0 .. 2 * Semi]
    BY <1>0, <1>3, <1>4
  <2>2. \A a \in Addr : id'[a] # 0 <=> a \in Live'
    BY <1>0, <1>2, <1>3, <1>5 DEF IdSteady
  <2>3. \A a, b \in Live' : id'[a] = id'[b] => a = b
    BY <1>0, <1>2, <1>3, <1>5 DEF IdSteady
  <2> QED BY <1>0, <2>1, <2>2, <2>3 DEF IdInv, IdSteady
<1>7. Coherent'
  <2>1. (TypeOK /\ IdInv /\ Steady /\ phase \in {"run", "resume", "major", "mark", "forward"}
           => Coherent)'
    <3>1. TypeOK /\ IdInv /\ Steady /\ phase \in {"run", "resume", "major", "mark", "forward"}
            => Coherent
      BY SteadyCoherent
    <3> QED BY SteadyCoherent, PTL
  <2> QED BY <1>6, <2>1
<1>8. RootOf' = [RootOf EXCEPT ![i] = c]
  <2>1. \A r \in Roots : Designates(roots[r])' = IF r = i THEN c ELSE Designates(roots[r])
    BY <1>0, <1>1, <1>2, <1>5 DEF Designates
  <2>2. RootOf' = [r \in Roots |-> IF r = i THEN c ELSE Designates(roots[r])]
    BY <2>1 DEF RootOf
  <2> QED BY <2>2 DEF RootOf
<1>9. \A a \in Live : \A f \in Fields :
        kid'[a][f] = kid[a][f] /\ Designates(kid[a][f])' = Designates(kid[a][f])
  <2>1. \A a \in Live : \A f \in Fields : kid'[a] = kid[a] /\ kid[a][f] \in Live \cup {Null}
    BY <1>0, <1>1, <1>2 DEF Steady, Closed
  <2> QED BY <1>0, <1>2, <1>5, <2>1 DEF Designates
<1>10. ASSUME NEW x \in Known'
       PROVE  (EdgeOf')[x] = [EdgeOf EXCEPT ![c] = [f \in Fields |-> 0]][x]
  <2>0. (Coherent => \A a \in Addr : id[a] \in Known => EdgeOf[id[a]] = CellFields(a))'
    BY EdgeIs, PTL
  <2>1. PICK a \in Addr : id'[a] = x
    BY <1>7 DEF Coherent
  <2>2. (EdgeOf')[x] = CellFields(a)' /\ x \in Id
    BY <1>7, <2>0, <2>1 DEF Coherent
  <2>3. CASE a = q
    <3>1. x = c
      BY <1>5, <2>1, <2>3
    <3>2. CellFields(a)' = [f \in Fields |-> 0]
      <4>1. \A f \in Fields : kid'[q][f] = Null
        BY <1>0, <1>1, <1>2 DEF Blank
      <4> QED BY <2>3, <4>1 DEF CellFields, Designates
    <3> QED BY <2>2, <3>1, <3>2 DEF EdgeOf
  <2>4. CASE a # q
    <3>1. x = id[a] /\ x # c /\ x # 0
      <4>1. x # 0
        BY <2>2 DEF Id
      <4> QED BY <1>3, <1>5, <2>1, <2>4, <4>1
    <3>2. a \in Live /\ id[a] \in Known
      BY <1>0, <3>1 DEF IdSteady
    <3>3. EdgeOf[x] = CellFields(a)
      BY <1>0, <3>1, <3>2, EdgeIs
    <3>4. CellFields(a)' = CellFields(a)
      BY <1>9, <3>2 DEF CellFields
    <3> QED BY <2>2, <3>1, <3>3, <3>4 DEF EdgeOf
  <2> QED BY <2>3, <2>4
<1>11. Graph!Becomes([RootOf EXCEPT ![i] = c], [EdgeOf EXCEPT ![c] = [f \in Fields |-> 0]])
  BY <1>7, <1>8, <1>10, Match
<1>12. c \notin Graph!Reachable(RootOf, EdgeOf)
  <2>1. Known \subseteq Id
    BY <1>0 DEF Coherent
  <2>2. Graph!Reachable(RootOf, EdgeOf) \subseteq Known
    BY <1>0, <2>1, KnownClosed, AgreeOnClosed
  <2>3. c \notin Known
    BY <1>0, <1>3 DEF Known
  <2> QED BY <2>2, <2>3
<1> QED BY <1>3, <1>6, <1>11, <1>12
    DEF Graph!New, RootOf, EdgeOf, Graph!NoEdge, Graph!Fields, Graph!Nil, Fields

LEMMA MutatorSteps ==
  ASSUME TypeOK, TypeOK', PhaseInv, PhaseInv', IdInv, IdStep, Mutator
  PROVE  IdInv' /\ (Graph!Next \/ Silent)
<1> USE DEF space, object, remset, minor, major
<1>0. phase = "run" /\ Steady /\ slot = 1
  <2>1. phase = "run"
    BY DEF Mutator, MoveRoot, LoadField, StoreField, Alloc, AllocCollects, Running
  <2> QED BY <2>1 DEF PhaseInv, MinorPhases
<1>1. /\ Coherent /\ kid \in [Addr -> [Fields -> Ptr]] /\ Live \subseteq Addr
      /\ \A p \in Live : Designates(p) = id[p] /\ id[p] \in Known /\ id[p] # 0
      /\ \A r \in Roots : roots[r] \in Live \cup {Null}
      /\ \A a \in Live : \A f \in Fields : kid[a][f] \in Live \cup {Null}
  BY <1>0, RunFacts DEF Steady, Closed
<1>2. \A v \in {roots[j] : j \in Roots} \cup {Null} :
        v \in Live \cup {Null} /\ Designates(v) \in Graph!Values
  <2>1. \A j \in Roots : Designates(roots[j]) \in Graph!Values
    BY DEF Graph!Values, Graph!Roots, Roots
  <2>2. Designates(Null) \in Graph!Values
    BY NullDesignatesNothing DEF Graph!Values, Graph!Nil
  <2> QED BY <1>1, <2>1, <2>2
<1>3. ASSUME NEW i \in Roots, NEW v \in {roots[j] : j \in Roots} \cup {Null}, MoveRoot(i, v)
      PROVE  IdInv' /\ Graph!Next
  <2>1. /\ phase' = "run" /\ roots' = [roots EXCEPT ![i] = v]
        /\ UNCHANGED <<phase, from, top, old_top, kid>>
    BY <1>0, <1>3 DEF MoveRoot
  <2>2. Steady'
    BY <2>1 DEF PhaseInv
  <2>3. IdInv' /\ Graph!Becomes([RootOf EXCEPT ![i] = Designates(v)], EdgeOf)
    BY <1>0, <1>2, <2>1, <2>2, RootStep
  <2>4. Graph!Move(i, Designates(v))
    BY <2>3 DEF Graph!Move, RootOf, EdgeOf
  <2> QED BY <1>2, <2>3, <2>4 DEF Graph!Next, Graph!Roots, Roots
<1>4. ASSUME NEW i \in Roots, NEW v \in {roots[j] : j \in Roots} \cup {Null},
             NEW f \in Fields, StoreField(i, f, v)
      PROVE  IdInv' /\ Graph!Next
  <2>1. /\ phase' = "run" /\ roots[i] # Null /\ kid' = [kid EXCEPT ![roots[i]][f] = v]
        /\ UNCHANGED <<phase, from, top, old_top, roots>>
    BY <1>0, <1>4 DEF StoreField
  <2>2. Steady'
    BY <2>1 DEF PhaseInv
  <2>3. /\ IdInv' /\ RootOf[i] # 0
        /\ Graph!Becomes(RootOf, [EdgeOf EXCEPT ![RootOf[i]][f] = Designates(v)])
    BY <1>0, <1>2, <2>1, <2>2, FieldStep
  <2>4. Graph!Store(i, f, Designates(v))
    BY <2>3 DEF Graph!Store, RootOf, EdgeOf, Graph!Nil
  <2> QED BY <1>2, <2>3, <2>4 DEF Graph!Next, Graph!Roots, Graph!Fields, Roots, Fields
<1>5. ASSUME NEW i \in Roots, NEW j \in Roots, NEW f \in Fields, LoadField(i, j, f)
      PROVE  IdInv' /\ Graph!Next
  <2> DEFINE v == kid[roots[j]][f]
  <2>1. /\ phase' = "run" /\ roots[j] # Null /\ roots' = [roots EXCEPT ![i] = v]
        /\ UNCHANGED <<phase, from, top, old_top, kid>>
    BY <1>0, <1>5 DEF LoadField
  <2>2. Steady'
    BY <2>1 DEF PhaseInv
  <2>3. roots[j] \in Live /\ v \in Live \cup {Null}
    BY <1>1, <2>1
  <2>4. RootOf[j] = id[roots[j]] /\ EdgeOf[RootOf[j]][f] = Designates(v) /\ RootOf[j] # 0
    <3>1. RootOf[j] = id[roots[j]] /\ RootOf[j] # 0
      BY <1>1, <2>3 DEF RootOf
    <3>2. EdgeOf[id[roots[j]]] = CellFields(roots[j])
      BY <1>1, <2>3, EdgeIs
    <3> QED BY <3>1, <3>2 DEF CellFields
  <2> HIDE DEF v
  <2>5. IdInv' /\ Graph!Becomes([RootOf EXCEPT ![i] = Designates(v)], EdgeOf)
    BY <1>0, <2>1, <2>2, <2>3, RootStep
  <2>6. Graph!Load(i, j, f)
    <3>1. RootOf[j] # 0 /\ Graph!Becomes([RootOf EXCEPT ![i] = EdgeOf[RootOf[j]][f]], EdgeOf)
      BY <2>4, <2>5
    <3> QED BY <3>1 DEF Graph!Load, RootOf, EdgeOf, Graph!Nil
  <2> QED BY <2>5, <2>6 DEF Graph!Next, Graph!Roots, Graph!Fields, Roots, Fields
<1>6. ASSUME NEW i \in Roots, Alloc(i) PROVE IdInv' /\ Graph!Next
  <2>1. phase' = "run" /\ top < Semi /\ Place(i) /\ UNCHANGED <<from, old_top>>
    BY <1>0, <1>6 DEF Alloc
  <2>2. Steady'
    BY <2>1 DEF PhaseInv
  <2>3. IdInv' /\ \E x \in Id : Graph!New(i, x)
    BY <1>0, <2>1, <2>2, PlaceStep
  <2> QED BY <2>3 DEF Graph!Next, Graph!Roots, Roots
<1>7. ASSUME NEW i \in Roots, AllocCollects(i) PROVE IdInv' /\ Silent
  BY <1>0, <1>7, BeginSilent
<1> QED BY <1>3, <1>4, <1>5, <1>6, <1>7 DEF Mutator

LEMMA CollectorSteps ==
  ASSUME TypeOK, TypeOK', PhaseInv, PhaseInv', IdInv, IdStep, Sound', Collector
  PROVE  IdInv' /\ (Graph!Next \/ Silent)
<1> USE DEF space, object, remset, minor, major
<1>0. over_cap' # TRUE /\ ~stale'
  BY DEF Sound, NotStale
<1>1. CASE Minor /\ ~FinishMinor
  BY <1>1, MinorStepSilent
<1>2. CASE FinishMinor
  <2>1. phase \in MinorPhases /\ MinorInv
    BY <1>2 DEF FinishMinor, MinorPhases, PhaseInv
  <2> QED BY <1>2, <2>1, FinishMinorSilent
<1>3. CASE MarkRoots \/ MarkChildren \/ MarkDone \/ ComputeForward
  <2>1. /\ phase \in {"major", "mark", "forward"} /\ phase' \in {"mark", "forward"}
        /\ UNCHANGED <<from, top, old_top, kid, roots>>
    BY <1>3 DEF MarkRoots, MarkChildren, MarkDone, ComputeForward
  <2>2. Steady
    BY <2>1 DEF PhaseInv
  <2>3. id' = id
    BY <2>1, MajorTypes DEF IdStep, MinorPhases
  <2> QED BY <2>1, <2>2, <2>3, StillSilent DEF SteadyPhases
<1>4. CASE UpdatePointers
  <2>1. phase = "forward"
    BY <1>4 DEF UpdatePointers
  <2>2. Steady /\ Marked /\ mark_work = {} /\ Packed
    BY <2>1 DEF PhaseInv
  <2> QED BY <1>0, <1>4, <2>2, UpdateSilent
<1>5. CASE Slide
  <2>1. phase = "slide" /\ phase' = "slide"
    BY <1>5 DEF Slide
  <2>2. SlideInv /\ SlideInv'
    BY <2>1 DEF PhaseInv
  <2> QED BY <1>5, <2>1, <2>2, SlideSilent
<1>6. CASE FinishMajor
  <2>1. phase = "slide"
    BY <1>6 DEF FinishMajor
  <2>2. SlideInv
    BY <2>1 DEF PhaseInv
  <2> QED BY <1>6, <2>1, <2>2, FinishMajorSilent
<1>7. CASE Resume
  <2>1. phase = "resume" /\ phase' = "run" /\ UNCHANGED <<from, old_top>>
    BY <1>7 DEF Resume
  <2>2. Steady /\ Steady'
    BY <2>1 DEF PhaseInv
  <2>3. top < Semi /\ Place(pending) /\ pending \in Roots
    BY <1>0, <1>7 DEF Resume, TypeOK, ControlType
  <2>4. IdInv' /\ \E x \in Id : Graph!New(pending, x)
    BY <2>1, <2>2, <2>3, PlaceStep
  <2> QED BY <2>3, <2>4 DEF Graph!Next, Graph!Roots, Roots
<1> QED BY <1>1, <1>2, <1>3, <1>4, <1>5, <1>6, <1>7 DEF Collector, Major

LEMMA Stutter ==
  ASSUME UNCHANGED gvars
  PROVE  /\ IdInv <=> IdInv'
         /\ UNCHANGED <<RootOf, Graph!Trim(RootOf, EdgeOf)>>
<1>1. UNCHANGED <<id, from, top, to_top, old_top, kid, fwd, mark, roots, phase, cursor, new_top>>
  BY DEF gvars, vars, space, object, major
<1>2. /\ YoungCells' = YoungCells /\ ToCells' = ToCells /\ OldCells' = OldCells
      /\ NewOld' = NewOld
  BY <1>1 DEF YoungCells, ToCells, to, OldCells, NewOld
<1>3. /\ Live' = Live /\ Unslid' = Unslid /\ Heads' = Heads /\ Occupied' = Occupied
      /\ Kept' = Kept
  BY <1>1, <1>2 DEF Live, Unslid, Heads, Occupied, Kept
<1>4. \A p : Designates(p)' = Designates(p)
  BY <1>1, <1>3 DEF Designates
<1>5. Known' = Known
  BY <1>1, <1>3, <1>4 DEF Known, Names
<1>6. \A a, f : Designates(kid[a][f])' = Designates(kid[a][f])
  BY <1>1, <1>3 DEF Designates
<1>7. (IdSteady <=> IdSteady') /\ (IdMinor <=> IdMinor')
  BY <1>1, <1>2, <1>3 DEF IdSteady, IdMinor, Tag
<1>8. IdSlide <=> IdSlide'
  BY <1>1, <1>3, <1>4, <1>5, <1>6 DEF IdSlide
<1>9. IdInv <=> IdInv'
  BY <1>1, <1>7, <1>8 DEF IdInv
<1>10. RootOf' = RootOf /\ EdgeOf' = EdgeOf
  BY <1>1, <1>3 DEF RootOf, EdgeOf, FieldsOf, CellsOf, Designates
<1> QED BY <1>9, <1>10

-----------------------------------------------------------------------------
(***************************************************************************)
(* The theorems.                                                           *)
(***************************************************************************)
GraphInv == IInv /\ (Sound => IdInv)

LEMMA GraphInit == GInit => GraphInv /\ Graph!Init
<1> SUFFICES ASSUME GInit PROVE GraphInv /\ Graph!Init
  OBVIOUS
<1>1. IInv
  BY TypeInit, HeapInit DEF GInit, IInv
<1>2. /\ YoungCells = {} /\ OldCells = {} /\ phase = "run"
      /\ id = [a \in Addr |-> 0] /\ roots = [r \in Roots |-> Null]
  BY HeapAssumption DEF GInit, Init, YoungCells, OldCells, OldBase
<1>3. IdInv
  <2>1. id \in [Addr -> 0 .. 2 * Semi]
    BY <1>2, HeapAssumption
  <2>2. IdSteady
    BY <1>2 DEF IdSteady, Live
  <2> QED BY <1>2, <2>1, <2>2 DEF IdInv, MinorPhases
<1>4. Graph!Init
  <2>1. \A r \in Roots : Designates(roots[r]) = 0
    BY <1>2 DEF Designates
  <2> QED BY <2>1 DEF Graph!Init, Graph!Roots, Graph!Nil, Roots
<1> QED BY <1>1, <1>3, <1>4 DEF GraphInv

LEMMA GraphStep ==
  ASSUME GraphInv, Sound, Sound', GNext
  PROVE  IdInv' /\ (Graph!Next \/ Silent)
<1>1. Next /\ IdStep /\ IInv /\ IInv' /\ IdInv
  BY InvStep DEF GraphInv, GNext
<1>2. TypeOK /\ TypeOK' /\ PhaseInv /\ PhaseInv'
  BY <1>1 DEF IInv, HeapInvariant, PhaseInv
<1> QED BY <1>1, <1>2, MutatorSteps, CollectorSteps DEF Next

LEMMA GraphInvStep == GraphInv /\ [GNext]_gvars => GraphInv'
<1> SUFFICES ASSUME GraphInv, [GNext]_gvars PROVE GraphInv'
  OBVIOUS
<1>1. [Next]_vars
  BY DEF GNext, gvars
<1>2. IInv'
  BY <1>1, InvStep DEF GraphInv
<1>3. ASSUME Sound' PROVE IdInv'
  <2>1. Sound
    BY <1>1, <1>3, SoundBefore DEF GraphInv, IInv
  <2>2. CASE GNext
    BY <1>3, <2>1, <2>2, GraphStep
  <2>3. CASE UNCHANGED gvars
    BY <2>1, <2>3, Stutter DEF GraphInv
  <2> QED BY <2>2, <2>3
<1> QED BY <1>2, <1>3 DEF GraphInv

LEMMA StepsRefine ==
  GraphInv /\ GraphInv' /\ Sound /\ Sound' /\ [GNext]_gvars =>
    [Graph!Next]_<<[r \in Roots |-> Designates(roots[r])],
                   Graph!Trim([r \in Roots |-> Designates(roots[r])],
                              [x \in Id |-> FieldsOf(x)])>>
<1> SUFFICES ASSUME GraphInv, GraphInv', Sound, Sound', [GNext]_gvars
             PROVE  Graph!Next \/ UNCHANGED <<RootOf, Graph!Trim(RootOf, EdgeOf)>>
  BY DEF RootOf, EdgeOf
<1>1. Coherent /\ Coherent'
  <2>1. (IInv /\ IdInv /\ Sound => Coherent)'
    BY CoherentNow, PTL
  <2> QED BY <2>1, CoherentNow DEF GraphInv
<1>2. CASE GNext
  BY <1>1, <1>2, GraphStep, Invisible
<1>3. CASE UNCHANGED gvars
  BY <1>3, Stutter
<1> QED BY <1>2, <1>3

LEMMA GraphInvariance == GSpec => []GraphInv
BY GraphInit, GraphInvStep, PTL DEF GSpec

\* The heap implements the graph of objects: as long as it has not run out and no
\* compaction has lost a remembered entry, every step of the program is the step
\* of the graph it stands for, and no step of a collection can be observed: objects
\* are copied, promoted and slid without one being lost, merged or split.
THEOREM HeapImplementsGraph == GSpec /\ []Sound => ImplementsGraph
BY GraphInit, GraphInvariance, StepsRefine, PTL DEF GSpec, ImplementsGraph, Graph!Spec

\* Between collections no object has two cells, however many pointers led to it when
\* it was moved.
THEOREM NoObjectTwice == GSpec => []OneCellPerObject
<1>1. GraphInv => OneCellPerObject
  BY DEF GraphInv, OneCellPerObject, IdInv, IdSteady
<1> QED BY <1>1, GraphInvariance, PTL
=============================================================================
