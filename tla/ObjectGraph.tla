---------------------------- MODULE ObjectGraph -----------------------------
(***************************************************************************)
(* What the heap promises to the interpreter and the builtins: a graph of  *)
(* objects that keep their identity and their fields, reached from a fixed *)
(* number of root slots.  There are no addresses, no generations and no    *)
(* collections here; an object that cannot be reached does not exist.      *)
(***************************************************************************)
EXTENDS Naturals, FiniteSets

CONSTANTS Id,      \* object identities: a finite set without Nil
          NRoots, NFields

Nil    == 0
Roots  == 1 .. NRoots
Fields == 1 .. NFields
NoEdge == [f \in Fields |-> Nil]

VARIABLES root,    \* the object each root slot designates
          edge     \* the fields of each object; of no meaning when unreachable

\* The objects reachable from root values r through fields e.
Reachable(r, e) ==
  LET R[n \in 0 .. Cardinality(Id)] ==
        IF n = 0 THEN {r[i] : i \in Roots} \ {Nil}
        ELSE LET near == R[n - 1]
             IN  near \cup ({e[x][f] : x \in near, f \in Fields} \ {Nil})
  IN  R[Cardinality(Id)]

\* What can be observed of the graph: the fields of unreachable objects are masked.
Trim(r, e) ==
  LET seen == Reachable(r, e) IN [x \in Id |-> IF x \in seen THEN e[x] ELSE NoEdge]

Values == {root[i] : i \in Roots} \cup {Nil}

Init == root = [i \in Roots |-> Nil]

Becomes(r, e) == root' = r /\ Trim(root', edge') = Trim(r, e)

Move(i, v)     == Becomes([root EXCEPT ![i] = v], edge)
Load(i, j, f)  == root[j] # Nil /\ Becomes([root EXCEPT ![i] = edge[root[j]][f]], edge)
Store(i, f, v) == root[i] # Nil /\ Becomes(root, [edge EXCEPT ![root[i]][f] = v])
New(i, x)      == x \notin Reachable(root, edge)
                    /\ Becomes([root EXCEPT ![i] = x], [edge EXCEPT ![x] = NoEdge])

Next ==
  \/ \E i \in Roots, v \in Values : Move(i, v) \/ \E f \in Fields : Store(i, f, v)
  \/ \E i, j \in Roots, f \in Fields : Load(i, j, f)
  \/ \E i \in Roots, x \in Id : New(i, x)

Spec == Init /\ [][Next]_<<root, Trim(root, edge)>>
=============================================================================
