------------------------------ MODULE HeapInv -------------------------------
(***************************************************************************)
(* The safety properties of Heap and the inductive invariant behind them.  *)
(* HeapSafetyProofs proves it; the heap run checks it.                     *)
(***************************************************************************)
EXTENDS Heap, FiniteSets

OldAddr == OldBase .. 3 * Semi - 1
SetOf(s) == {s[i] : i \in DOMAIN s}      \* the entries of a remembered set

MinorPhases == {"remset", "roots", "young", "old"}
MajorPhases == {"major", "mark", "forward", "slide"}

SpaceType ==
  /\ from \in {0, Semi}
  /\ top \in 0 .. Semi /\ to_top \in 0 .. Semi /\ old_top \in 0 .. Semi
ObjectType ==
  /\ kid \in [Addr -> [Fields -> Ptr]]
  /\ age \in [Addr -> 0 .. MaxAge]
  /\ fwd \in [Addr -> Ptr]
  /\ mark \subseteq Ptr
  /\ roots \in [Roots -> Ptr]
RemsetType ==
  /\ remembered \in Seq(OldAddr) /\ remembered_next \in Seq(OldAddr)
  /\ rem \in Seq(OldAddr)
  /\ mark_work \subseteq OldAddr
ControlType ==
  /\ over_cap \in BOOLEAN /\ stale \in BOOLEAN /\ young_child \in BOOLEAN
  /\ phase \in {"run", "resume"} \cup MinorPhases \cup MajorPhases
  /\ pending \in Roots
  /\ slot \in (IF phase = "roots" THEN Roots ELSE Fields)
  /\ yscan \in Nat /\ old_scan \in Nat
  /\ cursor \in Nat /\ new_top \in 0 .. Semi
  /\ phase = "forward" => new_top <= cursor

\* Every variable has the type the code gives it; slot is an index of whatever
\* the phase walks over, and addresses stay inside the three arenas.
TypeOK == SpaceType /\ ObjectType /\ RemsetType /\ ControlType

-----------------------------------------------------------------------------
(***************************************************************************)
(* What the mutator relies on.                                             *)
(***************************************************************************)
\* The heap has neither run out (the VM then raises) nor lost a remembered entry
\* to a compaction (see the README: compact_old never forwards remembered_).
NotStale == ~stale
Sound == ~over_cap /\ NotStale

\* No root and no field of an unreclaimed object points outside the heap.
Closed ==
  /\ \A r \in Roots : roots[r] \in Live \cup {Null}
  /\ \A a \in Live : \A f \in Fields : kid[a][f] \in Live \cup {Null}

\* The collector moves every live object, yet between two collections no register,
\* handle or object holds the address an object was moved away from.
NoDangling == Sound /\ phase = "run" => Closed

\* Every old-to-young pointer is found through the remembered set.
OldToYoungRemembered ==
  \A a \in OldCells : \A f \in Fields :
    kid[a][f] \in YoungCells => a \in SetOf(remembered)

\* A minor collection scans no old object that is not remembered, so the write
\* barrier and re-remembering must cover every old-to-young pointer.
RememberedComplete == Sound /\ phase = "run" => OldToYoungRemembered

\* A full old arena makes copy_promote() leave a child of an old object young
\* (heap.cc:140-141): the edge that was to become old-to-old must be remembered like
\* any other.  over_cap, which the spill sets, is no excuse.
SpillRemembered == NotStale /\ phase \in {"run", "resume"} => OldToYoungRemembered

\* copy() never finds the spare semispace full: it still has room for every object
\* not yet evacuated, because no object is copied into it twice.
ToSpaceSuffices == Sound /\ phase \in MinorPhases =>
  to_top + Cardinality({a \in YoungCells : fwd[a] = Null}) <= Semi

\* The old objects reachable from a root or a young survivor through old objects.
OldReachable ==
  LET Near[n \in 0 .. Semi] ==
        IF n = 0
        THEN OldCells \cap ({roots[r] : r \in Roots} \cup
                              UNION {{kid[y][f] : f \in Fields} : y \in YoungCells})
        ELSE LET near == Near[n - 1] IN near \cup UNION {OldChildren(o) : o \in near}
  IN  Near[Semi]

\* A compaction keeps exactly the reachable old objects: it loses none, and the
\* space of every other one is reclaimed.
MarkPrecise == Sound /\ phase = "forward" => mark \cap OldCells = OldReachable

\* The collector's loops end, so every allocation returns to the program.
CollectionTerminates == (phase # "run") ~> (phase = "run")

\* compact_old is meant to update every pointer into the old arena and to leave
\* remembered_ holding the old-to-young edges.
CompactionKeepsRemembered == ~over_cap /\ phase = "run" => OldToYoungRemembered

-----------------------------------------------------------------------------
(***************************************************************************)
(* The inductive invariant.                                                *)
(***************************************************************************)
ToCells   == to .. to + to_top - 1        \* survivors kept young this cycle
Source    == YoungCells \cup OldCells \cup {Null}   \* not yet forwarded
Done      == ToCells \cup OldCells \cup {Null}      \* forwarded
OldOrNull == OldCells \cup {Null}

\* Between collections, and while a compaction marks and computes addresses.
Steady ==
  /\ Closed /\ OldToYoungRemembered
  /\ \A a \in YoungCells : fwd[a] = Null
  /\ SetOf(remembered) \subseteq OldCells

\* The space being evacuated keeps its contents and only gains forwarding stamps.
FromInv ==
  /\ \A a \in YoungCells : \A f \in Fields : kid[a][f] \in Source
  /\ \A a \in YoungCells : fwd[a] \in Done

\* The young frontier: fields below it are forwarded, the others still sources.
ToInv ==
  /\ yscan <= to_top
  /\ \A a \in ToCells : fwd[a] = Null
  /\ \A a \in ToCells : \A f \in Fields :
       kid[a][f] \in
         (IF a < to + yscan \/ (a = to + yscan /\ phase = "young" /\ f < slot)
          THEN Done ELSE Source)

\* Old objects below the frontier are unremembered, or traced, or still in rem.
OldInv ==
  /\ old_scan <= old_top
  /\ \A a \in OldCells : \A f \in Fields :
       IF a < OldBase + old_scan
       THEN IF phase = "remset"
            THEN \/ kid[a][f] \in OldOrNull
                 \/ a \in SetOf(rem) /\ kid[a][f] \in Source
                      /\ ~(a = rem[1] /\ f < slot)
            ELSE \/ kid[a][f] \in OldOrNull
                 \/ kid[a][f] \in ToCells /\ a \in SetOf(remembered_next)
       ELSE IF a = OldBase + old_scan /\ phase = "old" /\ f < slot
            THEN \/ kid[a][f] \in OldOrNull
                 \/ kid[a][f] \in ToCells /\ young_child
            ELSE kid[a][f] \in Source

RootInv ==
  \A r \in Roots :
    roots[r] \in (IF phase = "remset" \/ (phase = "roots" /\ r >= slot)
                  THEN Source ELSE Done)

MinorInv ==
  /\ FromInv /\ ToInv /\ OldInv /\ RootInv
  /\ SetOf(rem) \subseteq OldCells /\ SetOf(remembered_next) \subseteq OldCells
  /\ \A i \in DOMAIN rem : rem[i] < OldBase + old_scan
  /\ phase = "remset" => to_top = 0 /\ remembered_next = <<>> /\ ~young_child
  /\ phase # "remset" => rem = <<>>
  /\ slot = 1 => ~young_child
  /\ phase \in {"roots", "young"} => ~young_child
  /\ phase = "young" /\ slot # 1 => yscan < to_top
  /\ phase = "old" /\ slot # 1 => old_scan < old_top

\* The roots and the young survivors have marked their old referents, and so has
\* every marked object no longer on the work list.
Marked ==
  /\ mark_work \subseteq OldCells \cap mark
  /\ \A r \in Roots : roots[r] \in OldCells => roots[r] \in mark
  /\ \A a \in YoungCells : OldChildren(a) \subseteq mark
  /\ \A a \in (OldCells \cap mark) \ mark_work : OldChildren(a) \subseteq mark

\* The marked objects below the cursor are packed onto the first new_top cells in
\* address order; nothing else has a forwarding address.
Packed ==
  /\ cursor <= old_top
  /\ \A a \in OldCells :
       IF a \in mark /\ a < OldBase + cursor
       THEN fwd[a] \in OldBase .. OldBase + new_top - 1 /\ fwd[a] <= a
       ELSE fwd[a] = Null
  /\ \A a, b \in OldCells \cap mark :
       a < b /\ b < OldBase + cursor => fwd[a] < fwd[b]
  /\ \A n \in OldBase .. OldBase + new_top - 1 :
       \E a \in OldCells \cap mark : a < OldBase + cursor /\ fwd[a] = n

\* While objects slide every pointer already has its post-compaction value.
Unslid == {a \in OldCells \cap mark : a >= OldBase + cursor}
NewOld == OldBase .. OldBase + new_top - 1
SlideInv ==
  LET Moved == YoungCells \cup NewOld \cup {Null} IN
  /\ cursor <= old_top
  /\ new_top <= old_top
  /\ \A r \in Roots : roots[r] \in Moved
  /\ \A a \in YoungCells : fwd[a] = Null
  /\ \A a \in YoungCells \cup Unslid : \A f \in Fields : kid[a][f] \in Moved
  /\ \A a \in Unslid : fwd[a] \in NewOld /\ fwd[a] <= a
  /\ \A a, b \in Unslid : a < b => fwd[a] < fwd[b]
  /\ SetOf(remembered) \subseteq NewOld
  /\ \A a \in Unslid : \A f \in Fields :
       kid[a][f] \in YoungCells => fwd[a] = a /\ a \in SetOf(remembered)
  /\ \A n \in NewOld :
       \/ \E a \in Unslid : fwd[a] = n
       \/ \A f \in Fields : /\ kid[n][f] \in Moved
                            /\ kid[n][f] \in YoungCells => n \in SetOf(remembered)

HeapInvariant ==
  Sound =>
    /\ phase \in {"run", "resume", "major", "mark", "forward"} => Steady
    /\ phase \in MinorPhases => MinorInv
    /\ phase = "mark" => Marked /\ \A a \in OldCells : fwd[a] = Null
    /\ phase = "forward" => mark_work = {} /\ Marked /\ Packed
    /\ phase = "slide" => SlideInv
    /\ phase \notin MinorPhases => slot = 1 /\ ~young_child /\ rem = <<>> /\ remembered_next = <<>>
    /\ phase \in MinorPhases => remembered = <<>>

IInv == TypeOK /\ HeapInvariant
=============================================================================
