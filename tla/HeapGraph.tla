----------------------------- MODULE HeapGraph ------------------------------
(***************************************************************************)
(* Heap implements ObjectGraph.  A history variable gives every object an  *)
(* identity that follows it when the collector moves it.                   *)
(***************************************************************************)
EXTENDS HeapInv, FiniteSets

Id == 1 .. 2 * Semi           \* enough: two arenas bound the objects alive

VARIABLE id                   \* ghost: identity of the object at an address, or 0

gvars == <<vars, id>>

GInit == Init /\ id = [a \in Addr |-> 0]

Unused == Id \ {id[a] : a \in Addr}

\* The address, if any, that this step allocated for a new object.
Allocated == IF top' = top + 1 /\ from' = from THEN {from + top} ELSE {}

\* A step that moves the object at a moves its identity; a step that blanks a cell
\* forgets it.
IdStep ==
  id' = IF phase \in {"run", "resume"}
        THEN [a \in Addr |-> IF a \in Allocated THEN CHOOSE x \in Unused : TRUE ELSE id[a]]
        ELSE IF phase = "slide" /\ phase' = "slide"
        THEN LET o == OldBase + cursor IN
             IF o \in mark THEN [id EXCEPT ![fwd[o]] = id[o]] ELSE id
        ELSE IF from' # from
        THEN [a \in Addr |-> IF is_young(a) THEN 0 ELSE id[a]]
        ELSE IF old_top' < old_top
        THEN [a \in Addr |-> IF a >= OldBase + old_top' THEN 0 ELSE id[a]]
        ELSE IF phase \in MinorPhases
        THEN [a \in Addr |->
                IF \E p \in Addr : fwd[p] = Null /\ fwd'[p] = a
                THEN id[CHOOSE p \in Addr : fwd[p] = Null /\ fwd'[p] = a] ELSE id[a]]
        ELSE id

GNext == Next /\ IdStep
GSpec == GInit /\ [][GNext]_gvars

-----------------------------------------------------------------------------
\* While objects slide a pointer already names the cell its object will occupy.
Designates(p) ==
  IF p = Null THEN 0
  ELSE IF phase = "slide" /\ \E a \in Unslid : fwd[a] = p
  THEN id[CHOOSE a \in Unslid : fwd[a] = p]
  ELSE id[p]

\* Two cells hold the same object while it is being copied or slid: then their
\* fields designate the same objects, and either may be read.
CellsOf(x) == {a \in Addr : id[a] = x}
FieldsOf(x) ==
  IF CellsOf(x) = {} THEN [f \in Fields |-> 0]
  ELSE LET a == CHOOSE a \in CellsOf(x) : TRUE
       IN  [f \in Fields |-> Designates(kid[a][f])]

Graph == INSTANCE ObjectGraph WITH root <- [r \in Roots |-> Designates(roots[r])],
                                   edge <- [x \in Id |-> FieldsOf(x)]

\* The heap implements the graph: collections are invisible, every mutator step is
\* the step of the graph it stands for (copy, copy_promote and compact_old move
\* objects without losing, merging or splitting any).
ImplementsGraph == Graph!Spec

\* Between collections no object exists twice, however many pointers led to it
\* when it was moved.
OneCellPerObject == Sound /\ phase = "run" =>
  \A a, b \in Live : id[a] = id[b] => a = b
=============================================================================
