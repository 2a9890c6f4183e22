-------------------------- MODULE HeapSafetyProofs --------------------------
(***************************************************************************)
(* The collector is safe: as long as the heap has not run out and no       *)
(* compaction has lost a remembered entry, no pointer dangles and every    *)
(* old-to-young pointer is remembered.  For every heap size, number of     *)
(* roots and fields, age limit and bound on the remembered set.            *)
(***************************************************************************)
EXTENDS HeapInv, SequenceTheorems, FiniteSetTheorems, Induction, TLAPS

USE DEF Roots, Fields, Addr, Ptr, Null, OldBase, OldSize

LEMMA SeqFacts ==
  ASSUME NEW S, NEW s \in Seq(S)
  PROVE  /\ \A e \in S : Append(s, e) \in Seq(S)
         /\ s # <<>> => Head(s) \in S /\ Tail(s) \in Seq(S)
         /\ <<>> \in Seq(S)
BY AppendProperties, HeadTailProperties, EmptySeq

-----------------------------------------------------------------------------
(***************************************************************************)
(* Where copy() and copy_promote() may put an object.                      *)
(***************************************************************************)
\* Room(p, t): t is p itself or the next free cell of the arena it lies in.
Room(p, t) ==
  \/ t = p
  \/ t = OldBase + old_top /\ old_top < Semi
  \/ t = to + to_top /\ to_top < Semi

LEMMA CopyTargetRoom ==
  ASSUME TypeOK, NEW p \in Addr
  PROVE  CopyTarget(p) \in Addr /\ Room(p, CopyTarget(p))
BY HeapAssumption DEF TypeOK, SpaceType, ObjectType, RemsetType, ControlType, CopyTarget, Room, to, PROMOTE_THRESHOLD

LEMMA PromoteTargetRoom ==
  ASSUME TypeOK, NEW p \in Addr
  PROVE  PromoteTarget(p) \in Addr /\ Room(p, PromoteTarget(p))
<1>1. CASE old_top < OldSize
  BY <1>1, HeapAssumption DEF TypeOK, SpaceType, ObjectType, RemsetType, ControlType, PromoteTarget, Room
<1>2. CASE ~(old_top < OldSize)
  BY <1>2, CopyTargetRoom DEF PromoteTarget
<1> QED BY <1>1, <1>2

\* One forwarding step keeps the types of everything it may write.
LEMMA EvacuateType ==
  ASSUME TypeOK, NEW p \in Ptr, NEW t, p # Null => t \in Addr /\ Room(p, t),
         Evacuate(p, t)
  PROVE  /\ age' \in [Addr -> 0 .. MaxAge] /\ fwd' \in [Addr -> Ptr]
         /\ mark' \subseteq Ptr
         /\ to_top' \in 0 .. Semi /\ old_top' \in 0 .. Semi
         /\ Forwarded(p, t) \in Ptr
         /\ KidsWithCopy(p, t) \in [Addr -> [Fields -> Ptr]]
<1>1. CASE ~Evacuates(p, t)
  <2>1. UNCHANGED <<age, fwd, mark, old_top, to_top>>
    BY <1>1 DEF Evacuate
  <2>2. Forwarded(p, t) \in Ptr
    BY DEF Forwarded, NeedsCopy, TypeOK, SpaceType, ObjectType, RemsetType, ControlType
  <2> QED BY <1>1, <2>1, <2>2 DEF KidsWithCopy, TypeOK, SpaceType, ObjectType, RemsetType, ControlType
<1>2. CASE Evacuates(p, t)
  <2>1. p \in Addr /\ t \in Addr /\ Room(p, t) /\ p # t
    BY <1>2 DEF Evacuates, NeedsCopy
  <2>2. AgedOneCycle(p) \in 0 .. MaxAge
    BY <2>1, HeapAssumption DEF AgedOneCycle, TypeOK, SpaceType, ObjectType, RemsetType, ControlType
  <2>3. to_top' \in 0 .. Semi /\ old_top' \in 0 .. Semi
    <3>1. /\ from \in {0, Semi} /\ Semi \in Nat
          /\ to_top \in 0 .. Semi /\ old_top \in 0 .. Semi
      BY HeapAssumption DEF TypeOK, SpaceType, ObjectType, RemsetType, ControlType
    <3>2. CASE t >= OldBase
      <4>1. old_top' = old_top + 1 /\ to_top' = to_top
        BY <1>2, <3>2 DEF Evacuate
      <4>2. old_top < Semi
        BY <2>1, <3>1, <3>2 DEF Room, to
      <4> QED BY <3>1, <4>1, <4>2
    <3>3. CASE ~(t >= OldBase)
      <4>1. to_top' = to_top + 1 /\ old_top' = old_top
        BY <1>2, <3>3 DEF Evacuate
      <4>2. to_top < Semi
        BY <2>1, <3>1, <3>3 DEF Room
      <4> QED BY <3>1, <4>1, <4>2
    <3> QED BY <3>2, <3>3
  <2>4. age' \in [Addr -> 0 .. MaxAge]
    <3>1. age \in [Addr -> 0 .. MaxAge] /\ 0 \in 0 .. MaxAge
      BY HeapAssumption DEF TypeOK, SpaceType, ObjectType, RemsetType, ControlType
    <3>2. CASE t >= OldBase
      BY <1>2, <2>1, <3>1, <3>2 DEF Evacuate
    <3>3. CASE ~(t >= OldBase)
      BY <1>2, <2>1, <2>2, <3>1, <3>3 DEF Evacuate
    <3> QED BY <3>2, <3>3
  <2>5. fwd' \in [Addr -> Ptr] /\ mark' \subseteq Ptr
    <3>1. fwd \in [Addr -> Ptr] /\ mark \subseteq Ptr
      BY DEF TypeOK, ObjectType
    <3>2. /\ fwd' = [fwd EXCEPT ![t] = Null, ![p] = t]
          /\ mark' = IF p \in mark THEN mark \cup {t} ELSE mark \ {t}
      BY <1>2 DEF Evacuate
    <3> QED BY <2>1, <3>1, <3>2
  <2>6. Forwarded(p, t) \in Ptr
    BY <2>1 DEF Forwarded, TypeOK, SpaceType, ObjectType, RemsetType, ControlType
  <2>7. KidsWithCopy(p, t) \in [Addr -> [Fields -> Ptr]]
    BY <2>1 DEF KidsWithCopy, TypeOK, SpaceType, ObjectType, RemsetType, ControlType
  <2> QED BY <2>3, <2>4, <2>5, <2>6, <2>7
<1> QED BY <1>1, <1>2

\* One field of trace() and of trace_from_old().
LEMMA TraceFieldType ==
  ASSUME TypeOK, NEW h \in Addr, slot \in Fields, TraceField(h)
  PROVE  /\ kid' \in [Addr -> [Fields -> Ptr]]
         /\ age' \in [Addr -> 0 .. MaxAge] /\ fwd' \in [Addr -> Ptr]
         /\ mark' \subseteq Ptr
         /\ to_top' \in 0 .. Semi /\ old_top' \in 0 .. Semi
         /\ over_cap' \in BOOLEAN
<1> DEFINE p == kid[h][slot]
           t == CopyTarget(p)
<1>1. p \in Ptr /\ (p # Null => t \in Addr /\ Room(p, t))
  BY CopyTargetRoom DEF TypeOK, SpaceType, ObjectType, RemsetType, ControlType
<1>2. Evacuate(p, t) /\ kid' = [KidsWithCopy(p, t) EXCEPT ![h][slot] = Forwarded(p, t)]
      /\ over_cap' = (over_cap \/ CopyFails(p))
  BY DEF TraceField
<1>3. over_cap' \in BOOLEAN
  BY <1>2 DEF TypeOK, SpaceType, ObjectType, RemsetType, ControlType
<1>4. /\ age' \in [Addr -> 0 .. MaxAge] /\ fwd' \in [Addr -> Ptr]
      /\ mark' \subseteq Ptr
      /\ to_top' \in 0 .. Semi /\ old_top' \in 0 .. Semi
      /\ Forwarded(p, t) \in Ptr
      /\ KidsWithCopy(p, t) \in [Addr -> [Fields -> Ptr]]
  BY <1>1, <1>2, EvacuateType
<1>5. kid' \in [Addr -> [Fields -> Ptr]]
  BY <1>2, <1>4
<1> QED BY <1>3, <1>4, <1>5

LEMMA TraceFieldFromOldType ==
  ASSUME TypeOK, NEW h \in OldAddr, slot \in Fields, TraceFieldFromOld(h)
  PROVE  /\ kid' \in [Addr -> [Fields -> Ptr]]
         /\ age' \in [Addr -> 0 .. MaxAge] /\ fwd' \in [Addr -> Ptr]
         /\ mark' \subseteq Ptr
         /\ to_top' \in 0 .. Semi /\ old_top' \in 0 .. Semi
         /\ over_cap' \in BOOLEAN /\ young_child' \in BOOLEAN
         /\ remembered_next' \in Seq(OldAddr)
<1> DEFINE p == kid[h][slot]
           t == PromoteTarget(p)
<1>0. h \in Addr
  BY HeapAssumption DEF OldAddr
<1>1. p \in Ptr /\ (p # Null => t \in Addr /\ Room(p, t))
  BY <1>0, PromoteTargetRoom DEF TypeOK, SpaceType, ObjectType, RemsetType, ControlType
<1>2. Evacuate(p, t) /\ kid' = [KidsWithCopy(p, t) EXCEPT ![h][slot] = Forwarded(p, t)]
      /\ over_cap' = (over_cap \/ PromoteSpills(p))
  BY DEF TraceFieldFromOld
<1>3. over_cap' \in BOOLEAN /\ young_child' \in BOOLEAN
  BY <1>2 DEF TraceFieldFromOld, TypeOK, SpaceType, ObjectType, RemsetType, ControlType
<1>4. remembered_next' \in Seq(OldAddr)
  <2>1. remembered_next \in Seq(OldAddr)
    BY DEF TypeOK, SpaceType, ObjectType, RemsetType, ControlType
  <2>2. Append(remembered_next, h) \in Seq(OldAddr)
    BY <2>1, SeqFacts
  <2> QED BY <2>1, <2>2 DEF TraceFieldFromOld
<1>5. /\ age' \in [Addr -> 0 .. MaxAge] /\ fwd' \in [Addr -> Ptr]
      /\ mark' \subseteq Ptr
      /\ to_top' \in 0 .. Semi /\ old_top' \in 0 .. Semi
      /\ Forwarded(p, t) \in Ptr
      /\ KidsWithCopy(p, t) \in [Addr -> [Fields -> Ptr]]
  BY <1>1, <1>2, EvacuateType
<1>6. kid' \in [Addr -> [Fields -> Ptr]]
  BY <1>0, <1>2, <1>5
<1> QED BY <1>3, <1>4, <1>5, <1>6

LEMMA NextSlotType ==
  ASSUME NEW n \in Nat \ {0}, NEW s \in 1 .. n
  PROVE  (IF s = n THEN 1 ELSE s + 1) \in 1 .. n
OBVIOUS

LEMMA PlaceType ==
  ASSUME TypeOK, NEW i \in Roots, top < Semi, Place(i)
  PROVE  /\ kid' \in [Addr -> [Fields -> Ptr]]
         /\ age' \in [Addr -> 0 .. MaxAge] /\ fwd' \in [Addr -> Ptr]
         /\ mark' \subseteq Ptr
         /\ roots' \in [Roots -> Ptr] /\ top' \in 0 .. Semi
<1>1. from + top \in Addr /\ top + 1 \in 0 .. Semi
  BY HeapAssumption DEF TypeOK, SpaceType, ObjectType, RemsetType, ControlType
<1>2. Blank \in [Fields -> Ptr] /\ 0 \in 0 .. MaxAge
  BY HeapAssumption DEF Blank
<1> QED BY <1>1, <1>2 DEF Place, TypeOK, SpaceType, ObjectType, RemsetType, ControlType

-----------------------------------------------------------------------------
LEMMA ConstantFacts ==
  /\ Blank \in [Fields -> Ptr] /\ 0 \in 0 .. MaxAge
  /\ 1 \in Roots /\ 1 \in Fields /\ Semi \in Nat /\ 0 \in 0 .. Semi
  /\ OldAddr \subseteq Addr
BY HeapAssumption DEF Blank, OldAddr

LEMMA OldCellsType == SpaceType => OldCells \subseteq OldAddr
BY HeapAssumption DEF SpaceType, OldCells, OldAddr

LEMMA TypeInit == Init => TypeOK
<1> SUFFICES ASSUME Init PROVE TypeOK
  OBVIOUS
<1> USE ConstantFacts
<1>1. SpaceType
  BY DEF Init, SpaceType
<1>2. ObjectType
  BY DEF Init, ObjectType
<1>3. RemsetType
  BY EmptySeq DEF Init, RemsetType
<1>4. ControlType
  BY DEF Init, ControlType, MinorPhases, MajorPhases
<1> QED BY <1>1, <1>2, <1>3, <1>4 DEF TypeOK

LEMMA TypeStep == TypeOK /\ [Next]_vars => TypeOK'
<1> SUFFICES ASSUME TypeOK, [Next]_vars PROVE TypeOK'
  OBVIOUS
<1> USE DEF MinorPhases, MajorPhases, space, object, remset, minor, major
<1>0. SpaceType /\ ObjectType /\ RemsetType /\ ControlType
  BY DEF TypeOK
<1>1. ASSUME NEW i \in Roots, NEW v \in {roots[j] : j \in Roots} \cup {Null},
             MoveRoot(i, v)
      PROVE  TypeOK'
  <2>1. SpaceType'
    BY <1>0, <1>1 DEF MoveRoot, SpaceType
  <2>2. ObjectType'
    BY <1>0, <1>1 DEF MoveRoot, ObjectType
  <2>3. RemsetType'
    BY <1>0, <1>1 DEF MoveRoot, RemsetType
  <2>4. ControlType'
    BY <1>0, <1>1 DEF MoveRoot, ControlType
  <2> QED BY <2>1, <2>2, <2>3, <2>4 DEF TypeOK
<1>2. ASSUME NEW i \in Roots, NEW v \in {roots[j] : j \in Roots} \cup {Null},
             NEW f \in Fields, StoreField(i, f, v)
      PROVE  TypeOK'
  <2>1. SpaceType'
    BY <1>0, <1>2 DEF StoreField, SpaceType
  <2>2. ObjectType'
    BY <1>0, <1>2 DEF StoreField, ObjectType
  <2>3. RemsetType'
    <3>1. remembered \in Seq(OldAddr) /\ roots[i] \in Ptr
      BY <1>0 DEF ObjectType, RemsetType
    <3>2. is_old(roots[i]) => Append(remembered, roots[i]) \in Seq(OldAddr)
      <4>1. is_old(roots[i]) => roots[i] \in OldAddr
        BY <1>0, <3>1, HeapAssumption DEF is_old, OldAddr, SpaceType
      <4> QED BY <3>1, <4>1, SeqFacts
    <3> QED BY <1>0, <1>2, <3>1, <3>2 DEF StoreField, RemsetType
  <2>4. ControlType'
    BY <1>0, <1>2 DEF StoreField, ControlType
  <2> QED BY <2>1, <2>2, <2>3, <2>4 DEF TypeOK
<1>3. ASSUME NEW i \in Roots, NEW j \in Roots, NEW f \in Fields,
             LoadField(i, j, f)
      PROVE  TypeOK'
  <2>1. SpaceType'
    BY <1>0, <1>3 DEF LoadField, SpaceType
  <2>2. ObjectType'
    <3>1. kid[roots[j]][f] \in Ptr
      <4>1. roots[j] \in Addr
        BY <1>0, <1>3 DEF LoadField, ObjectType
      <4>2. kid[roots[j]] \in [Fields -> Ptr]
        BY <1>0, <4>1 DEF ObjectType
      <4> QED BY <4>2
    <3> QED BY <1>0, <1>3, <3>1 DEF LoadField, ObjectType
  <2>3. RemsetType'
    BY <1>0, <1>3 DEF LoadField, RemsetType
  <2>4. ControlType'
    BY <1>0, <1>3 DEF LoadField, ControlType
  <2> QED BY <2>1, <2>2, <2>3, <2>4 DEF TypeOK
<1>4. ASSUME NEW i \in Roots, Alloc(i)
      PROVE  TypeOK'
  <2>1. SpaceType'
    BY <1>0, <1>4, PlaceType DEF Alloc, SpaceType
  <2>2. ObjectType'
    BY <1>0, <1>4, PlaceType DEF Alloc, ObjectType
  <2>3. RemsetType'
    BY <1>0, <1>4 DEF Alloc, RemsetType
  <2>4. ControlType'
    BY <1>0, <1>4 DEF Alloc, ControlType
  <2> QED BY <2>1, <2>2, <2>3, <2>4 DEF TypeOK
<1>5. ASSUME NEW i \in Roots, AllocCollects(i)
      PROVE  TypeOK'
  <2>1. SpaceType'
    BY <1>0, <1>5, ConstantFacts DEF AllocCollects, SpaceType
  <2>2. ObjectType'
    BY <1>0, <1>5 DEF AllocCollects, ObjectType
  <2>3. RemsetType'
    BY <1>0, <1>5, EmptySeq DEF AllocCollects, RemsetType
  <2>4. ControlType'
    <3>1. old_scan' \in Nat /\ yscan' \in Nat
      BY <1>0, <1>5, ConstantFacts DEF AllocCollects, SpaceType
    <3> QED BY <1>0, <1>5, <3>1, ConstantFacts DEF AllocCollects, ControlType
  <2> QED BY <2>1, <2>2, <2>3, <2>4 DEF TypeOK
<1>6. CASE Resume
  <2>a. pending \in Roots
    BY <1>0 DEF ControlType
  <2>b. \/ UNCHANGED <<top, object, roots>>
        \/ /\ kid' \in [Addr -> [Fields -> Ptr]]
           /\ age' \in [Addr -> 0 .. MaxAge] /\ fwd' \in [Addr -> Ptr]
           /\ mark' \subseteq Ptr
           /\ roots' \in [Roots -> Ptr] /\ top' \in 0 .. Semi
    BY <1>6, <2>a, PlaceType DEF Resume
  <2>1. SpaceType'
    BY <1>0, <1>6, <2>a, <2>b DEF Resume, SpaceType
  <2>2. ObjectType'
    BY <1>0, <1>6, <2>a, <2>b DEF Resume, ObjectType
  <2>3. RemsetType'
    BY <1>0, <1>6 DEF Resume, RemsetType
  <2>4. ControlType'
    BY <1>0, <1>6, ConstantFacts DEF Resume, ControlType
  <2> QED BY <2>1, <2>2, <2>3, <2>4 DEF TypeOK
<1>7. CASE TraceRemembered
  <2>a. slot \in Fields /\ Head(rem) \in OldAddr /\ Tail(rem) \in Seq(OldAddr)
    <3>1. rem \in Seq(OldAddr) /\ rem # <<>> /\ slot \in Fields
      BY <1>0, <1>7 DEF TraceRemembered, RemsetType, ControlType
    <3> QED BY <3>1, SeqFacts
  <2>b. NextSlot(NFields) \in Fields
    BY <2>a, HeapAssumption DEF NextSlot
  <2>c. /\ kid' \in [Addr -> [Fields -> Ptr]]
        /\ age' \in [Addr -> 0 .. MaxAge] /\ fwd' \in [Addr -> Ptr]
        /\ mark' \subseteq Ptr
        /\ to_top' \in 0 .. Semi /\ old_top' \in 0 .. Semi
        /\ over_cap' \in BOOLEAN /\ young_child' \in BOOLEAN
        /\ remembered_next' \in Seq(OldAddr)
    BY <1>7, <2>a, TraceFieldFromOldType DEF TraceRemembered
  <2>1. SpaceType'
    BY <1>0, <1>7, <2>c DEF TraceRemembered, SpaceType
  <2>2. ObjectType'
    BY <1>0, <1>7, <2>c DEF TraceRemembered, ObjectType
  <2>3. RemsetType'
    BY <1>0, <1>7, <2>a, <2>c DEF TraceRemembered, RemsetType
  <2>4. ControlType'
    BY <1>0, <1>7, <2>b, <2>c DEF TraceRemembered, ControlType
  <2> QED BY <2>1, <2>2, <2>3, <2>4 DEF TypeOK
<1>8. CASE RememberedDone
  <2>1. SpaceType'
    BY <1>0, <1>8 DEF RememberedDone, SpaceType
  <2>2. ObjectType'
    BY <1>0, <1>8 DEF RememberedDone, ObjectType
  <2>3. RemsetType'
    BY <1>0, <1>8 DEF RememberedDone, RemsetType
  <2>4. ControlType'
    BY <1>0, <1>8, ConstantFacts DEF RememberedDone, ControlType
  <2> QED BY <2>1, <2>2, <2>3, <2>4 DEF TypeOK
<1>9. CASE ForwardRoot
  <2> DEFINE p == roots[slot]
             t == CopyTarget(p)
  <2>a. slot \in Roots /\ p \in Ptr /\ (p # Null => t \in Addr /\ Room(p, t))
    <3>1. slot \in Roots /\ p \in Ptr
      BY <1>0, <1>9 DEF ForwardRoot, ObjectType, ControlType
    <3> QED BY <3>1, CopyTargetRoom
  <2>b. /\ KidsWithCopy(p, t) \in [Addr -> [Fields -> Ptr]]
        /\ age' \in [Addr -> 0 .. MaxAge] /\ fwd' \in [Addr -> Ptr]
        /\ mark' \subseteq Ptr
        /\ to_top' \in 0 .. Semi /\ old_top' \in 0 .. Semi
        /\ Forwarded(p, t) \in Ptr
    BY <1>9, <2>a, EvacuateType DEF ForwardRoot
  <2>c. /\ kid' = KidsWithCopy(p, t)
        /\ roots' = [roots EXCEPT ![slot] = Forwarded(p, t)]
    BY <1>9 DEF ForwardRoot
  <2>d. slot' \in (IF phase' = "roots" THEN Roots ELSE Fields)
    BY <1>9, <2>a, HeapAssumption DEF ForwardRoot, NextSlot
  <2>1. SpaceType'
    BY <1>0, <1>9, <2>b DEF ForwardRoot, SpaceType
  <2>2. ObjectType'
    BY <1>0, <1>9, <2>b, <2>c DEF ForwardRoot, ObjectType
  <2>3. RemsetType'
    BY <1>0, <1>9 DEF ForwardRoot, RemsetType
  <2>4. ControlType'
    BY <1>0, <1>9, <2>a, <2>d DEF ForwardRoot, ControlType
  <2> QED BY <2>1, <2>2, <2>3, <2>4 DEF TypeOK
<1>10. CASE ScanYoung
  <2>a. slot \in Fields /\ to + yscan \in Addr
    BY <1>0, <1>10, HeapAssumption DEF ScanYoung, SpaceType, ControlType, to
  <2>b. NextSlot(NFields) \in Fields
    BY <2>a, HeapAssumption DEF NextSlot
  <2>c. /\ kid' \in [Addr -> [Fields -> Ptr]]
        /\ age' \in [Addr -> 0 .. MaxAge] /\ fwd' \in [Addr -> Ptr]
        /\ mark' \subseteq Ptr
        /\ to_top' \in 0 .. Semi /\ old_top' \in 0 .. Semi
        /\ over_cap' \in BOOLEAN
    BY <1>10, <2>a, TraceFieldType DEF ScanYoung
  <2>1. SpaceType'
    BY <1>0, <1>10, <2>c DEF ScanYoung, SpaceType
  <2>2. ObjectType'
    BY <1>0, <1>10, <2>c DEF ScanYoung, ObjectType
  <2>3. RemsetType'
    BY <1>0, <1>10, <2>c DEF ScanYoung, RemsetType
  <2>4. ControlType'
    BY <1>0, <1>10, <2>b, <2>c DEF ScanYoung, ControlType
  <2> QED BY <2>1, <2>2, <2>3, <2>4 DEF TypeOK
<1>11. CASE YoungDrained
  <2>1. SpaceType'
    BY <1>0, <1>11 DEF YoungDrained, SpaceType
  <2>2. ObjectType'
    BY <1>0, <1>11 DEF YoungDrained, ObjectType
  <2>3. RemsetType'
    BY <1>0, <1>11 DEF YoungDrained, RemsetType
  <2>4. ControlType'
    BY <1>0, <1>11 DEF YoungDrained, ControlType
  <2> QED BY <2>1, <2>2, <2>3, <2>4 DEF TypeOK
<1>12. CASE ScanOld
  <2>a. slot \in Fields /\ OldBase + old_scan \in OldAddr
    BY <1>0, <1>12, HeapAssumption DEF ScanOld, SpaceType, ControlType, OldAddr
  <2>b. NextSlot(NFields) \in Fields
    BY <2>a, HeapAssumption DEF NextSlot
  <2>c. /\ kid' \in [Addr -> [Fields -> Ptr]]
        /\ age' \in [Addr -> 0 .. MaxAge] /\ fwd' \in [Addr -> Ptr]
        /\ mark' \subseteq Ptr
        /\ to_top' \in 0 .. Semi /\ old_top' \in 0 .. Semi
        /\ over_cap' \in BOOLEAN /\ young_child' \in BOOLEAN
        /\ remembered_next' \in Seq(OldAddr)
    BY <1>12, <2>a, TraceFieldFromOldType DEF ScanOld
  <2>1. SpaceType'
    BY <1>0, <1>12, <2>c DEF ScanOld, SpaceType
  <2>2. ObjectType'
    BY <1>0, <1>12, <2>c DEF ScanOld, ObjectType
  <2>3. RemsetType'
    BY <1>0, <1>12, <2>c DEF ScanOld, RemsetType
  <2>4. ControlType'
    BY <1>0, <1>12, <2>b, <2>c DEF ScanOld, ControlType
  <2> QED BY <2>1, <2>2, <2>3, <2>4 DEF TypeOK
<1>13. CASE OldDrainedYoungNot
  <2>1. SpaceType'
    BY <1>0, <1>13 DEF OldDrainedYoungNot, SpaceType
  <2>2. ObjectType'
    BY <1>0, <1>13 DEF OldDrainedYoungNot, ObjectType
  <2>3. RemsetType'
    BY <1>0, <1>13 DEF OldDrainedYoungNot, RemsetType
  <2>4. ControlType'
    BY <1>0, <1>13 DEF OldDrainedYoungNot, ControlType
  <2> QED BY <2>1, <2>2, <2>3, <2>4 DEF TypeOK
<1>14. CASE FinishMinor
  <2>1. SpaceType'
    BY <1>0, <1>14, ConstantFacts DEF FinishMinor, SpaceType, to
  <2>2. ObjectType'
    BY <1>0, <1>14, ConstantFacts DEF FinishMinor, ObjectType
  <2>3. RemsetType'
    BY <1>0, <1>14 DEF FinishMinor, RemsetType
  <2>4. ControlType'
    BY <1>0, <1>14 DEF FinishMinor, ControlType
  <2> QED BY <2>1, <2>2, <2>3, <2>4 DEF TypeOK
<1>15. CASE MarkRoots
  <2>a. (({roots[r] : r \in Roots} \cap OldCells)
           \cup UNION {OldChildren(y) : y \in YoungCells}) \subseteq OldAddr
    BY <1>0, OldCellsType DEF OldChildren
  <2>1. SpaceType'
    BY <1>0, <1>15 DEF MarkRoots, SpaceType
  <2>2. ObjectType'
    BY <1>0, <1>15, <2>a, ConstantFacts DEF MarkRoots, ObjectType
  <2>3. RemsetType'
    BY <1>0, <1>15, <2>a DEF MarkRoots, RemsetType
  <2>4. ControlType'
    BY <1>0, <1>15 DEF MarkRoots, ControlType
  <2> QED BY <2>1, <2>2, <2>3, <2>4 DEF TypeOK
<1>16. CASE MarkChildren
  <2>a. \A o \in mark_work : OldChildren(o) \ mark \subseteq OldAddr
    BY <1>0, OldCellsType DEF OldChildren
  <2>1. SpaceType'
    BY <1>0, <1>16 DEF MarkChildren, SpaceType
  <2>2. ObjectType'
    BY <1>0, <1>16, <2>a, ConstantFacts DEF MarkChildren, ObjectType
  <2>3. RemsetType'
    BY <1>0, <1>16, <2>a DEF MarkChildren, RemsetType
  <2>4. ControlType'
    BY <1>0, <1>16 DEF MarkChildren, ControlType
  <2> QED BY <2>1, <2>2, <2>3, <2>4 DEF TypeOK
<1>17. CASE MarkDone
  <2>1. SpaceType'
    BY <1>0, <1>17 DEF MarkDone, SpaceType
  <2>2. ObjectType'
    BY <1>0, <1>17 DEF MarkDone, ObjectType
  <2>3. RemsetType'
    BY <1>0, <1>17 DEF MarkDone, RemsetType
  <2>4. ControlType'
    BY <1>0, <1>17, ConstantFacts DEF MarkDone, ControlType
  <2> QED BY <2>1, <2>2, <2>3, <2>4 DEF TypeOK
<1>18. CASE ComputeForward
  <2>1. SpaceType'
    BY <1>0, <1>18 DEF ComputeForward, SpaceType
  <2>2. ObjectType'
    <3>1. OldBase + cursor \in Addr /\ OldBase + new_top \in Addr
      BY <1>0, <1>18, HeapAssumption DEF ComputeForward, SpaceType, ControlType
    <3> QED BY <1>0, <1>18, <3>1 DEF ComputeForward, ObjectType
  <2>3. RemsetType'
    BY <1>0, <1>18 DEF ComputeForward, RemsetType
  <2>4. ControlType'
    <3>1. cursor \in Nat /\ new_top \in Nat /\ new_top <= cursor /\ cursor < Semi
      BY <1>0, <1>18, HeapAssumption DEF ComputeForward, SpaceType, ControlType
    <3>2. cursor' = cursor + 1 /\ (new_top' = new_top \/ new_top' = new_top + 1)
      BY <1>18 DEF ComputeForward
    <3>3. cursor' \in Nat /\ new_top' \in 0 .. Semi /\ new_top' <= cursor'
      BY <3>1, <3>2, HeapAssumption
    <3> QED BY <1>0, <1>18, <3>3 DEF ComputeForward, ControlType
  <2> QED BY <2>1, <2>2, <2>3, <2>4 DEF TypeOK
<1>19. CASE UpdatePointers
  <2>1. SpaceType'
    BY <1>0, <1>19 DEF UpdatePointers, SpaceType
  <2>2. ObjectType'
    <3>1. \A q \in Ptr : forward_old(q) \in Ptr
      BY <1>0, HeapAssumption DEF forward_old, is_old, SpaceType, ObjectType
    <3>2. \A a \in Addr : [f \in Fields |-> forward_old(kid[a][f])] \in [Fields -> Ptr]
      BY <1>0, <3>1 DEF ObjectType
    <3>3. kid' \in [Addr -> [Fields -> Ptr]]
      BY <1>0, <1>19, <3>2 DEF UpdatePointers, ObjectType
    <3>4. roots' \in [Roots -> Ptr]
      BY <1>0, <1>19, <3>1 DEF UpdatePointers, ObjectType
    <3> QED BY <1>0, <1>19, <3>3, <3>4 DEF UpdatePointers, ObjectType
  <2>3. RemsetType'
    BY <1>0, <1>19 DEF UpdatePointers, RemsetType
  <2>4. ControlType'
    BY <1>0, <1>19, ConstantFacts DEF UpdatePointers, ControlType
  <2> QED BY <2>1, <2>2, <2>3, <2>4 DEF TypeOK
<1>20. CASE Slide
  <2>1. SpaceType'
    BY <1>0, <1>20 DEF Slide, SpaceType
  <2>2. ObjectType'
    <3> DEFINE o == OldBase + cursor
    <3>1. o \in Addr
      BY <1>0, <1>20, HeapAssumption DEF Slide, SpaceType, ControlType
    <3>2. CASE o \in mark
      <4>1. kid[o] \in [Fields -> Ptr] /\ age[o] \in 0 .. MaxAge /\ fwd[o] \in Ptr
        BY <1>0, <3>1 DEF ObjectType
      <4>2. mark' \subseteq Ptr
        <5>1. mark' = mark \cup {fwd[o]} /\ mark \subseteq Ptr
          BY <1>0, <1>20, <3>2 DEF Slide, ObjectType
        <5> QED BY <4>1, <5>1
      <4> QED BY <1>0, <1>20, <3>2, <4>1, <4>2 DEF Slide, ObjectType
    <3>3. CASE o \notin mark
      BY <1>0, <1>20, <3>3 DEF Slide, ObjectType
    <3> QED BY <3>2, <3>3
  <2>3. RemsetType'
    BY <1>0, <1>20 DEF Slide, RemsetType
  <2>4. ControlType'
    BY <1>0, <1>20 DEF Slide, ControlType
  <2> QED BY <2>1, <2>2, <2>3, <2>4 DEF TypeOK
<1>21. CASE FinishMajor
  <2>1. SpaceType'
    BY <1>0, <1>21 DEF FinishMajor, SpaceType, ControlType
  <2>2. ObjectType'
    BY <1>0, <1>21, ConstantFacts DEF FinishMajor, ObjectType
  <2>3. RemsetType'
    BY <1>0, <1>21 DEF FinishMajor, RemsetType
  <2>4. ControlType'
    BY <1>0, <1>21, ConstantFacts DEF FinishMajor, ControlType
  <2> QED BY <2>1, <2>2, <2>3, <2>4 DEF TypeOK
<1>22. CASE UNCHANGED vars
  BY <1>0, <1>22 DEF vars, TypeOK, SpaceType, ObjectType, RemsetType, ControlType
<1> QED
  BY <1>1, <1>2, <1>3, <1>4, <1>5, <1>6, <1>7, <1>8, <1>9, <1>10, <1>11,
     <1>12, <1>13, <1>14, <1>15, <1>16, <1>17, <1>18, <1>19, <1>20, <1>21, <1>22
  DEF Next, Mutator, Collector, Minor, Major

\* Every reachable state of the heap is well typed: every address it holds lies
\* in one of the three arenas and every cursor stays inside what it walks over.
THEOREM TypeCorrect == Spec => []TypeOK
<1>1. Init => TypeOK
  BY TypeInit
<1>2. TypeOK /\ [Next]_vars => TypeOK'
  BY TypeStep
<1> QED BY <1>1, <1>2, PTL DEF Spec

-----------------------------------------------------------------------------
(***************************************************************************)
(* The arenas do not overlap.                                              *)
(***************************************************************************)
LEMMA Geometry ==
  ASSUME TypeOK
  PROVE  /\ YoungCells \subseteq Addr /\ ToCells \subseteq Addr /\ OldCells \subseteq Addr
         /\ YoungCells \cap ToCells = {} /\ YoungCells \cap OldCells = {}
         /\ ToCells \cap OldCells = {}
         /\ Null \notin YoungCells \cup ToCells \cup OldCells
         /\ \A p \in Ptr : is_old(p) <=> p \in OldCells
         /\ \A a \in YoungCells : is_young(a)
         /\ \A a \in ToCells : in_to_space(a) /\ ~is_young(a)
         /\ \A a \in OldCells : ~is_young(a) /\ ~in_to_space(a)
         /\ ~in_to_space(Null) /\ ~is_young(Null)
<1>1. /\ Semi \in Nat \ {0} /\ from \in {0, Semi}
      /\ top \in 0 .. Semi /\ to_top \in 0 .. Semi /\ old_top \in 0 .. Semi
  BY HeapAssumption DEF TypeOK, SpaceType
<1>2. /\ YoungCells \subseteq Addr /\ ToCells \subseteq Addr /\ OldCells \subseteq Addr
  BY <1>1 DEF YoungCells, ToCells, OldCells, to
<1>3. /\ YoungCells \cap ToCells = {} /\ YoungCells \cap OldCells = {}
      /\ ToCells \cap OldCells = {}
  BY <1>1 DEF YoungCells, ToCells, OldCells, to
<1>4. Null \notin YoungCells \cup ToCells \cup OldCells
  BY <1>2
<1>5. \A p \in Ptr : is_old(p) <=> p \in OldCells
  BY <1>1 DEF is_old, OldCells
<1>6. /\ \A a \in YoungCells : is_young(a)
      /\ \A a \in ToCells : in_to_space(a) /\ ~is_young(a)
      /\ \A a \in OldCells : ~is_young(a) /\ ~in_to_space(a)
      /\ ~in_to_space(Null) /\ ~is_young(Null)
  BY <1>1 DEF YoungCells, ToCells, OldCells, is_young, in_to_space, to
<1> QED BY <1>2, <1>3, <1>4, <1>5, <1>6

-----------------------------------------------------------------------------
(***************************************************************************)
(* What forwarding one pointer does, whatever copied it: either nothing is *)
(* copied, or one fresh cell at an arena's top receives the object.        *)
(***************************************************************************)
\* The next free cell of the arena that receives a copy.
FreeCell(p, t) == \/ t = OldBase + old_top /\ old_top < Semi
                  \/ t = to + to_top /\ to_top < Semi

LEMMA Evacuation ==
  ASSUME TypeOK, FromInv, \A a \in ToCells : fwd[a] = Null,
         UNCHANGED <<from, top>>,
         NEW p \in Source, NEW t, NeedsCopy(p) => FreeCell(p, t), Evacuate(p, t)
  PROVE  /\ YoungCells' = YoungCells
         /\ ToCells \subseteq ToCells' /\ OldCells \subseteq OldCells'
         /\ \A a \in ToCells' \ ToCells : a = to + to_top
         /\ \A a \in OldCells' \ OldCells : a = OldBase + old_top
         /\ ToCells' \subseteq Addr /\ OldCells' \subseteq Addr
         /\ ((ToCells' \ ToCells) \cup (OldCells' \ OldCells)) \cap (ToCells \cup OldCells) = {}
         /\ to_top <= to_top' /\ old_top <= old_top'
         /\ Forwarded(p, t) \in Done'
         /\ \A a \in YoungCells : fwd'[a] \in Done'
         /\ \A a \in ToCells' : fwd'[a] = Null
         /\ \A a \in YoungCells \cup ToCells \cup OldCells : KidsWithCopy(p, t)[a] = kid[a]
         /\ \A a \in (ToCells' \ ToCells) \cup (OldCells' \ OldCells) : \A f \in Fields :
              KidsWithCopy(p, t)[a][f] \in Source
         /\ KidsWithCopy(p, t) \in [Addr -> [Fields -> Ptr]]
<1>0. /\ Semi \in Nat \ {0} /\ from \in {0, Semi} /\ to' = to /\ to \in {0, Semi}
      /\ top \in 0 .. Semi /\ to_top \in 0 .. Semi /\ old_top \in 0 .. Semi
      /\ kid \in [Addr -> [Fields -> Ptr]] /\ fwd \in [Addr -> Ptr]
  BY HeapAssumption DEF TypeOK, SpaceType, ObjectType, to
<1>1. YoungCells' = YoungCells
  BY DEF YoungCells
<1>2. p \in Ptr /\ Source \subseteq Ptr
  BY Geometry DEF Source
<1>3. CASE ~NeedsCopy(p)
  <2>1. UNCHANGED <<age, fwd, mark, old_top, to_top>> /\ KidsWithCopy(p, t) = kid
    BY <1>3 DEF Evacuate, Evacuates, KidsWithCopy
  <2>2. ToCells' = ToCells /\ OldCells' = OldCells /\ Done' = Done
    BY <1>0, <2>1 DEF ToCells, OldCells, Done
  <2>3. Forwarded(p, t) \in Done
    <3>1. CASE p = Null \/ is_old(p)
      BY <1>2, <1>3, <3>1, Geometry DEF Forwarded, Done
    <3>2. CASE ~(p = Null \/ is_old(p))
      BY <1>2, <1>3, <3>2, Geometry DEF Forwarded, FromInv, Source
    <3> QED BY <3>1, <3>2
  <2> QED BY <1>0, <1>1, <2>1, <2>2, <2>3, Geometry DEF FromInv
<1>4. CASE NeedsCopy(p)
  <2>1. p \in YoungCells /\ p \in Addr
    BY <1>2, <1>4, Geometry DEF NeedsCopy, Source
  <2>2. t \in Addr /\ t \notin YoungCells \cup ToCells \cup OldCells /\ FreeCell(p, t)
    BY <1>0, <1>4 DEF FreeCell, YoungCells, ToCells, OldCells, to
  <2>3. Evacuates(p, t)
    BY <1>4, <2>1, <2>2 DEF Evacuates
  <2>4. fwd' = [fwd EXCEPT ![t] = Null, ![p] = t] /\ Forwarded(p, t) = t
        /\ KidsWithCopy(p, t) = [kid EXCEPT ![t] = kid[p]]
    BY <1>4, <2>3 DEF Evacuate, Forwarded, KidsWithCopy
  <2>5. \/ /\ t = OldBase + old_top /\ old_top' = old_top + 1 /\ to_top' = to_top
        \/ /\ t = to + to_top /\ to_top' = to_top + 1 /\ old_top' = old_top
    <3>1. t >= OldBase => t = OldBase + old_top
      BY <1>0, <2>2 DEF FreeCell
    <3>2. ~(t >= OldBase) => t = to + to_top
      BY <1>0, <2>2 DEF FreeCell
    <3> QED BY <2>3, <3>1, <3>2 DEF Evacuate
  <2>6. /\ ToCells \subseteq ToCells' /\ OldCells \subseteq OldCells'
        /\ \A a \in ToCells' \ ToCells : a = to + to_top
        /\ \A a \in OldCells' \ OldCells : a = OldBase + old_top
        /\ to_top <= to_top' /\ old_top <= old_top'
    BY <1>0, <2>5 DEF ToCells, OldCells
  <2>7. t \in ToCells' \cup OldCells' /\ (ToCells' \ ToCells) \cup (OldCells' \ OldCells) = {t}
    BY <1>0, <2>2, <2>5 DEF ToCells, OldCells
  <2>14. ToCells' \subseteq Addr /\ OldCells' \subseteq Addr
    BY <2>2, <2>7, Geometry
  <2>15. ((ToCells' \ ToCells) \cup (OldCells' \ OldCells)) \cap (ToCells \cup OldCells) = {}
    BY <2>2, <2>7
  <2>8. Done \subseteq Done' /\ t \in Done'
    BY <2>6, <2>7 DEF Done
  <2>9. \A a \in YoungCells : fwd'[a] \in Done'
    BY <1>0, <2>1, <2>2, <2>4, <2>8, Geometry DEF FromInv
  <2>10. \A a \in ToCells' : fwd'[a] = Null
    BY <1>0, <2>1, <2>2, <2>4, <2>7, Geometry
  <2>11. \A a \in YoungCells \cup ToCells \cup OldCells : KidsWithCopy(p, t)[a] = kid[a]
    BY <1>0, <2>2, <2>4, Geometry
  <2>12. \A f \in Fields : KidsWithCopy(p, t)[t][f] \in Source
    BY <1>0, <2>1, <2>2, <2>4 DEF FromInv
  <2>13. KidsWithCopy(p, t) \in [Addr -> [Fields -> Ptr]]
    BY <1>0, <2>1, <2>2, <2>4
  <2> QED BY <1>1, <2>4, <2>6, <2>7, <2>8, <2>9, <2>10, <2>11, <2>12, <2>13, <2>14, <2>15
<1> QED BY <1>3, <1>4

\* What is forwarded stays forwarded and what is a source stays one.
LEMMA Growth ==
  ASSUME YoungCells' = YoungCells, ToCells \subseteq ToCells', OldCells \subseteq OldCells'
  PROVE  Source \subseteq Source' /\ Done \subseteq Done' /\ OldOrNull \subseteq OldOrNull'
BY DEF Source, Done, OldOrNull

\* An assignment to one field of one object changes nothing else.
LEMMA FieldUpdate ==
  ASSUME NEW D, NEW E, NEW V, NEW K, K \in [D -> [E -> V]], NEW h \in D, NEW s \in E, NEW n,
         NEW k, k = [K EXCEPT ![h][s] = n]
  PROVE  /\ k[h][s] = n
         /\ \A a \in D : \A f \in E : ~(a = h /\ f = s) => k[a][f] = K[a][f]
OBVIOUS

\* Forwarding field slot of h: the field becomes forwarded, no other field of a
\* live object changes, and the fields of a new copy are not forwarded yet.
LEMMA TraceEffect ==
  ASSUME TypeOK, FromInv, \A a \in ToCells : fwd[a] = Null,
         UNCHANGED <<from, top>>,
         NEW h \in ToCells \cup OldCells, slot \in Fields, kid[h][slot] \in Source,
         NEW t, NeedsCopy(kid[h][slot]) => FreeCell(kid[h][slot], t),
         Evacuate(kid[h][slot], t),
         kid' = [KidsWithCopy(kid[h][slot], t) EXCEPT
                   ![h][slot] = Forwarded(kid[h][slot], t)]
  PROVE  /\ YoungCells' = YoungCells
         /\ ToCells \subseteq ToCells' /\ OldCells \subseteq OldCells'
         /\ \A a \in ToCells' \ ToCells : a = to + to_top
         /\ \A a \in OldCells' \ OldCells : a = OldBase + old_top
         /\ to_top <= to_top' /\ old_top <= old_top'
         /\ FromInv'
         /\ \A a \in ToCells' : fwd'[a] = Null
         /\ kid'[h][slot] = Forwarded(kid[h][slot], t)
         /\ Forwarded(kid[h][slot], t) \in Done'
         /\ \A a \in ToCells \cup OldCells : \A f \in Fields :
              ~(a = h /\ f = slot) => kid'[a][f] = kid[a][f]
         /\ \A a \in (ToCells' \ ToCells) \cup (OldCells' \ OldCells) : \A f \in Fields :
              kid'[a][f] \in Source
         /\ Source \subseteq Source' /\ Done \subseteq Done' /\ OldOrNull \subseteq OldOrNull'
<1> DEFINE p == kid[h][slot]
           K == KidsWithCopy(p, t)
<1>1. /\ YoungCells' = YoungCells
      /\ ToCells \subseteq ToCells' /\ OldCells \subseteq OldCells'
      /\ \A a \in ToCells' \ ToCells : a = to + to_top
      /\ \A a \in OldCells' \ OldCells : a = OldBase + old_top
      /\ ToCells' \subseteq Addr /\ OldCells' \subseteq Addr
      /\ ((ToCells' \ ToCells) \cup (OldCells' \ OldCells)) \cap (ToCells \cup OldCells) = {}
      /\ to_top <= to_top' /\ old_top <= old_top'
      /\ Forwarded(p, t) \in Done'
      /\ \A a \in YoungCells : fwd'[a] \in Done'
      /\ \A a \in ToCells' : fwd'[a] = Null
      /\ \A a \in YoungCells \cup ToCells \cup OldCells : K[a] = kid[a]
      /\ \A a \in (ToCells' \ ToCells) \cup (OldCells' \ OldCells) : \A f \in Fields :
           K[a][f] \in Source
      /\ K \in [Addr -> [Fields -> Ptr]]
  BY Evacuation
<1>2. Source \subseteq Source' /\ Done \subseteq Done' /\ OldOrNull \subseteq OldOrNull'
  BY <1>1, Growth
<1>3. /\ h \in Addr /\ h \notin YoungCells
      /\ YoungCells \subseteq Addr /\ ToCells \subseteq Addr /\ OldCells \subseteq Addr
  BY Geometry
<1> HIDE DEF K
<1>5. kid' = [K EXCEPT ![h][slot] = Forwarded(p, t)]
  BY DEF K
<1>6. K \in [Addr -> [Fields -> Ptr]] /\ h \in Addr
  BY <1>1, <1>3
<1>7. /\ kid'[h][slot] = Forwarded(p, t)
      /\ \A a \in Addr : \A f \in Fields : ~(a = h /\ f = slot) => kid'[a][f] = K[a][f]
  <2> DEFINE n == Forwarded(p, t)
  <2> HIDE DEF n, p
  <2>1. kid' = [K EXCEPT ![h][slot] = n]
    BY <1>5 DEF n
  <2>2. kid' = [K EXCEPT ![h] = [K[h] EXCEPT ![slot] = n]]
    BY <2>1
  <2>3. kid'[h] = [K[h] EXCEPT ![slot] = n]
    BY <1>6, <2>2
  <2>4. \A a \in Addr : a # h => kid'[a] = K[a]
    BY <1>6, <2>2
  <2>5. K[h] \in [Fields -> Ptr]
    BY <1>6
  <2>6. kid'[h][slot] = n
    BY <2>3, <2>5
  <2>7. \A f \in Fields : f # slot => kid'[h][f] = K[h][f]
    BY <2>3, <2>5
  <2> QED BY <2>4, <2>6, <2>7 DEF n
<1>8. FromInv'
  BY <1>1, <1>2, <1>3, <1>7 DEF FromInv
<1>9. \A a \in ToCells \cup OldCells : \A f \in Fields :
        ~(a = h /\ f = slot) => kid'[a][f] = kid[a][f]
  BY <1>1, <1>3, <1>7
<1>10. \A a \in (ToCells' \ ToCells) \cup (OldCells' \ OldCells) : \A f \in Fields :
         kid'[a][f] \in Source
  BY <1>1, <1>7
<1> QED BY <1>1, <1>2, <1>7, <1>8, <1>9, <1>10

\* A pointer that copy() or copy_promote() does not give up on gets a free cell.
LEMMA CopyIntoFree ==
  ASSUME TypeOK, NEW p \in Source, ~CopyFails(p), NeedsCopy(p)
  PROVE  FreeCell(p, CopyTarget(p))
BY DEF CopyFails, CopyTarget, FreeCell

LEMMA PromoteIntoFree ==
  ASSUME TypeOK, NEW p \in Source, ~PromoteSpills(p), NeedsCopy(p)
  PROVE  FreeCell(p, PromoteTarget(p)) /\ PromoteTarget(p) = OldBase + old_top
BY HeapAssumption DEF PromoteSpills, PromoteTarget, FreeCell, TypeOK, SpaceType

-----------------------------------------------------------------------------
(***************************************************************************)
(* The steps of a minor collection preserve MinorInv.                      *)
(***************************************************************************)
LEMMA MinorTypes ==
  ASSUME TypeOK
  PROVE  /\ Semi \in Nat \ {0} /\ NFields \in Nat \ {0} /\ NRoots \in Nat \ {0}
         /\ from \in {0, Semi} /\ to \in {0, Semi}
         /\ top \in 0 .. Semi /\ to_top \in 0 .. Semi /\ old_top \in 0 .. Semi
         /\ yscan \in Nat /\ old_scan \in Nat
         /\ phase = "roots" => slot \in Roots
         /\ phase # "roots" => slot \in Fields
         /\ over_cap \in BOOLEAN /\ stale \in BOOLEAN /\ young_child \in BOOLEAN
BY HeapAssumption DEF TypeOK, SpaceType, ControlType, to

LEMMA ScanYoungSafe ==
  ASSUME TypeOK, TypeOK', MinorInv, ScanYoung, ~CopyFails(kid[to + yscan][slot])
  PROVE  MinorInv'
<1> DEFINE h == to + yscan
           p == kid[h][slot]
           t == CopyTarget(p)
<1>0. /\ phase = "young" /\ yscan < to_top /\ slot' = NextSlot(NFields)
      /\ yscan' = IF slot = NFields THEN yscan + 1 ELSE yscan
      /\ UNCHANGED <<from, top, roots, remembered_next, phase, rem, young_child, old_scan>>
      /\ Evacuate(p, t) /\ kid' = [KidsWithCopy(p, t) EXCEPT ![h][slot] = Forwarded(p, t)]
  BY DEF ScanYoung, TraceField, remset
<1>1. h \in ToCells /\ slot \in Fields
  BY <1>0, MinorTypes DEF ToCells
<1>2. FromInv /\ ToInv /\ OldInv /\ RootInv /\ \A a \in ToCells : fwd[a] = Null
  BY DEF MinorInv, ToInv
<1>3. p \in Source
  BY <1>0, <1>1, <1>2, MinorTypes DEF ToInv
<1>4. NeedsCopy(p) => FreeCell(p, t)
  BY <1>3, CopyIntoFree
<1> HIDE DEF t
<1>5. /\ ToCells \subseteq ToCells' /\ OldCells \subseteq OldCells'
      /\ \A a \in ToCells' \ ToCells : a = to + to_top
      /\ \A a \in OldCells' \ OldCells : a = OldBase + old_top
      /\ to_top <= to_top' /\ old_top <= old_top'
      /\ FromInv'
      /\ \A a \in ToCells' : fwd'[a] = Null
      /\ kid'[h][slot] \in Done'
      /\ \A a \in ToCells \cup OldCells : \A f \in Fields :
           ~(a = h /\ f = slot) => kid'[a][f] = kid[a][f]
      /\ \A a \in (ToCells' \ ToCells) \cup (OldCells' \ OldCells) : \A f \in Fields :
           kid'[a][f] \in Source
      /\ Source \subseteq Source' /\ Done \subseteq Done' /\ OldOrNull \subseteq OldOrNull'
  BY <1>0, <1>1, <1>2, <1>3, <1>4, TraceEffect
<1>6. to' = to /\ to_top' \in 0 .. Semi /\ old_top' \in 0 .. Semi
  BY <1>0 DEF to, TypeOK, SpaceType
<1>7. ToInv'
  <2>1. yscan' <= to_top'
    BY <1>0, <1>5, <1>6, MinorTypes
  <2>2. ASSUME NEW a \in ToCells', NEW f \in Fields
        PROVE  kid'[a][f] \in
                 (IF a < to + yscan' \/ (a = to + yscan' /\ f < slot') THEN Done' ELSE Source')
    <3>1. CASE a \notin ToCells
      BY <1>0, <1>5, <2>2, <3>1, MinorTypes DEF NextSlot
    <3>2. CASE a \in ToCells /\ a = h /\ f = slot
      BY <1>0, <1>5, <3>2, MinorTypes DEF NextSlot
    <3>3. CASE a \in ToCells /\ ~(a = h /\ f = slot)
      <4>1. kid'[a][f] = kid[a][f]
        BY <1>5, <3>3
      <4>2. kid[a][f] \in (IF a < to + yscan \/ (a = to + yscan /\ f < slot) THEN Done ELSE Source)
        BY <1>0, <1>2, <3>3 DEF ToInv
      <4>3. a \in Int /\ f \in 1 .. NFields
        BY <3>3, MinorTypes DEF ToCells
      <4> QED BY <1>0, <1>1, <1>5, <3>3, <4>1, <4>2, <4>3, MinorTypes DEF NextSlot
    <3> QED BY <3>1, <3>2, <3>3
  <2> QED BY <1>0, <1>5, <1>6, <2>1, <2>2 DEF ToInv
<1>8. OldInv'
  <2>1. old_scan' <= old_top' /\ old_scan <= old_top
    BY <1>0, <1>2, <1>5, <1>6, MinorTypes DEF OldInv
  <2>2. ASSUME NEW a \in OldCells', NEW f \in Fields
        PROVE  IF a < OldBase + old_scan
               THEN \/ kid'[a][f] \in OldOrNull'
                    \/ kid'[a][f] \in ToCells' /\ a \in SetOf(remembered_next)
               ELSE kid'[a][f] \in Source'
    <3>1. CASE a \notin OldCells
      BY <1>5, <2>1, <2>2, <3>1, MinorTypes
    <3>2. CASE a \in OldCells
      <4>1. kid'[a][f] = kid[a][f]
        BY <1>1, <1>5, <3>2, Geometry
      <4> QED BY <1>0, <1>2, <1>5, <3>2, <4>1 DEF OldInv
    <3> QED BY <3>1, <3>2
  <2>3. SetOf(remembered_next)' = SetOf(remembered_next)
    BY <1>0 DEF SetOf
  <2> QED BY <1>0, <2>1, <2>2, <2>3 DEF OldInv
<1>9. RootInv'
  BY <1>0, <1>2, <1>5 DEF RootInv
<1>10. SetOf(rem') = SetOf(rem) /\ SetOf(remembered_next') = SetOf(remembered_next)
  BY <1>0 DEF SetOf
<1>11. phase' = "young" /\ slot' # 1 => yscan' < to_top'
  BY <1>0, <1>1, <1>5, <1>6, MinorTypes DEF NextSlot
<1> QED BY <1>0, <1>5, <1>7, <1>8, <1>9, <1>10, <1>11 DEF MinorInv
\* Appending to the list of holders only adds to the set it stands for.
LEMMA SetOfAppend ==
  ASSUME NEW S, NEW s \in Seq(S), NEW e \in S
  PROVE  SetOf(Append(s, e)) = SetOf(s) \cup {e}
<1>1. Len(Append(s, e)) = Len(s) + 1 /\ Append(s, e)[Len(s) + 1] = e
      /\ \A i \in 1 .. Len(s) : Append(s, e)[i] = s[i]
  BY AppendProperties
<1>2. DOMAIN s = 1 .. Len(s) /\ DOMAIN Append(s, e) = 1 .. Len(s) + 1 /\ Len(s) \in Nat
  BY <1>1, AppendProperties, LenProperties
<1> QED BY <1>1, <1>2 DEF SetOf

LEMMA ScanOldSafe ==
  ASSUME TypeOK, TypeOK', MinorInv, ScanOld,
         ~PromoteSpills(kid[OldBase + old_scan][slot])
  PROVE  MinorInv'
<1> DEFINE h == OldBase + old_scan
           p == kid[h][slot]
           t == PromoteTarget(p)
           n == Forwarded(p, t)
           yc == young_child \/ in_to_space(n)
<1>0. /\ phase = "old" /\ old_scan < old_top /\ slot' = NextSlot(NFields)
      /\ old_scan' = IF slot = NFields THEN old_scan + 1 ELSE old_scan
      /\ UNCHANGED <<from, top, roots, phase, rem, yscan>>
      /\ Evacuate(p, t) /\ kid' = [KidsWithCopy(p, t) EXCEPT ![h][slot] = n]
      /\ IF slot = NFields
         THEN /\ young_child' = FALSE
              /\ remembered_next' = IF yc THEN Append(remembered_next, h)
                                          ELSE remembered_next
         ELSE young_child' = yc /\ UNCHANGED remembered_next
  BY DEF ScanOld, TraceFieldFromOld
<1>1. h \in OldCells /\ slot \in Fields /\ OldCells \subseteq OldAddr
  BY <1>0, MinorTypes, OldCellsType DEF OldCells, TypeOK
<1>2. FromInv /\ ToInv /\ OldInv /\ RootInv /\ \A a \in ToCells : fwd[a] = Null
  BY DEF MinorInv, ToInv
<1>3. p \in Source
  BY <1>0, <1>1, <1>2, MinorTypes DEF OldInv
<1>4. NeedsCopy(p) => FreeCell(p, t)
  BY <1>3, PromoteIntoFree
<1> HIDE DEF t, n
<1>5. /\ ToCells \subseteq ToCells' /\ OldCells \subseteq OldCells'
      /\ \A a \in ToCells' \ ToCells : a = to + to_top
      /\ \A a \in OldCells' \ OldCells : a = OldBase + old_top
      /\ to_top <= to_top' /\ old_top <= old_top'
      /\ FromInv'
      /\ \A a \in ToCells' : fwd'[a] = Null
      /\ n \in Done' /\ kid'[h][slot] = n
      /\ \A a \in ToCells \cup OldCells : \A f \in Fields :
           ~(a = h /\ f = slot) => kid'[a][f] = kid[a][f]
      /\ \A a \in (ToCells' \ ToCells) \cup (OldCells' \ OldCells) : \A f \in Fields :
           kid'[a][f] \in Source
      /\ Source \subseteq Source' /\ Done \subseteq Done' /\ OldOrNull \subseteq OldOrNull'
  BY <1>0, <1>1, <1>2, <1>3, <1>4, TraceEffect DEF n
<1>6. to' = to /\ to_top' \in 0 .. Semi /\ old_top' \in 0 .. Semi
  BY <1>0 DEF to, TypeOK, SpaceType
<1>15. /\ slot \in 1 .. NFields /\ old_scan \in Nat /\ NFields \in Nat \ {0}
       /\ slot = NFields => slot' = 1 /\ old_scan' = old_scan + 1 /\ young_child' = FALSE
       /\ slot # NFields => slot' = slot + 1 /\ old_scan' = old_scan /\ young_child' = yc
  BY <1>0, <1>1, MinorTypes DEF NextSlot
<1>7. n \in OldOrNull' \/ (n \in ToCells' /\ in_to_space(n))
  BY <1>5, <1>6, MinorTypes DEF Done, OldOrNull, ToCells, in_to_space
<1>8. /\ SetOf(remembered_next) \subseteq SetOf(remembered_next')
      /\ SetOf(remembered_next') \subseteq SetOf(remembered_next) \cup {h}
      /\ slot = NFields /\ yc => h \in SetOf(remembered_next')
  <2>1. remembered_next \in Seq(OldAddr)
    BY DEF TypeOK, RemsetType
  <2>2. SetOf(Append(remembered_next, h)) = SetOf(remembered_next) \cup {h}
    BY <1>1, <2>1, SetOfAppend
  <2> HIDE DEF h, yc
  <2>3. CASE slot = NFields /\ yc
    BY <1>0, <2>2, <2>3
  <2>4. CASE ~(slot = NFields /\ yc)
    BY <1>0, <2>4
  <2> QED BY <2>3, <2>4
<1>9. ToInv'
  <2>1. yscan' <= to_top'
    BY <1>0, <1>2, <1>5, <1>6, MinorTypes DEF ToInv
  <2>2. ASSUME NEW a \in ToCells', NEW f \in Fields
        PROVE  kid'[a][f] \in (IF a < to + yscan THEN Done' ELSE Source')
    <3>1. CASE a \notin ToCells
      <4>1. a = to + to_top /\ kid'[a][f] \in Source'
        BY <1>5, <2>2, <3>1
      <4>2. yscan <= to_top
        BY <1>2 DEF ToInv
      <4> QED BY <4>1, <4>2, MinorTypes
    <3>2. CASE a \in ToCells
      <4>1. a # h
        BY <1>1, <3>2, Geometry
      <4>2. kid'[a][f] = kid[a][f]
        BY <1>5, <3>2, <4>1
      <4>3. kid[a][f] \in (IF a < to + yscan THEN Done ELSE Source)
        BY <1>0, <1>2, <3>2 DEF ToInv
      <4> QED BY <1>5, <4>2, <4>3
    <3> QED BY <3>1, <3>2
  <2> QED BY <1>0, <1>5, <1>6, <2>1, <2>2 DEF ToInv
<1>10. OldInv'
  <2>1. old_scan' <= old_top'
    BY <1>0, <1>5, <1>6, MinorTypes
  <2>2. ASSUME NEW a \in OldCells', NEW f \in Fields
        PROVE  IF a < OldBase + old_scan'
               THEN \/ kid'[a][f] \in OldOrNull'
                    \/ kid'[a][f] \in ToCells' /\ a \in SetOf(remembered_next')
               ELSE IF a = OldBase + old_scan' /\ f < slot'
               THEN \/ kid'[a][f] \in OldOrNull'
                    \/ kid'[a][f] \in ToCells' /\ young_child'
               ELSE kid'[a][f] \in Source'
    <3>0. a \in Int /\ f \in 1 .. NFields
      BY <1>6, <2>2 DEF OldCells
    <3>1. CASE a \notin OldCells
      <4>1. kid'[a][f] \in Source' /\ a = OldBase + old_top
        BY <1>5, <2>2, <3>1
      <4> QED BY <1>0, <1>1, <3>0, <4>1, MinorTypes DEF NextSlot
    <3>2. CASE a = h /\ f = slot
      <4>1. kid'[a][f] \in OldOrNull' \/ (kid'[a][f] \in ToCells' /\ yc)
        BY <1>5, <1>7, <3>2
      <4>2. CASE slot = NFields
        BY <1>8, <1>15, <3>0, <3>2, <4>1, <4>2, MinorTypes
      <4>3. CASE slot # NFields
        <5>1. ~(a < OldBase + old_scan') /\ a = OldBase + old_scan' /\ f < slot'
          BY <1>15, <3>0, <3>2, <4>3, MinorTypes
        <5> QED BY <1>15, <4>1, <4>3, <5>1
      <4> QED BY <4>2, <4>3
    <3>3. CASE a \in OldCells /\ a = h /\ f # slot
      <4>1. kid'[a][f] = kid[a][f]
        BY <1>1, <1>5, <3>3
      <4>2. IF f < slot
            THEN kid[a][f] \in OldOrNull \/ (kid[a][f] \in ToCells /\ young_child)
            ELSE kid[a][f] \in Source
        BY <1>0, <1>2, <3>3, MinorTypes DEF OldInv
      <4>3. CASE slot = NFields
        BY <1>0, <1>1, <1>5, <1>8, <3>0, <3>3, <4>1, <4>2, <4>3, MinorTypes DEF NextSlot
      <4>4. CASE slot # NFields
        BY <1>0, <1>1, <1>5, <3>0, <3>3, <4>1, <4>2, <4>4, MinorTypes DEF NextSlot
      <4> QED BY <4>3, <4>4
    <3>4. CASE a \in OldCells /\ a # h
      <4>1. kid'[a][f] = kid[a][f]
        BY <1>5, <3>4
      <4>2. IF a < OldBase + old_scan
            THEN \/ kid[a][f] \in OldOrNull
                 \/ kid[a][f] \in ToCells /\ a \in SetOf(remembered_next)
            ELSE kid[a][f] \in Source
        BY <1>0, <1>2, <3>4 DEF OldInv
      <4>3. /\ a < OldBase + old_scan' <=> a < OldBase + old_scan
            /\ ~(a = OldBase + old_scan' /\ f < slot')
        BY <1>15, <3>0, <3>4, MinorTypes
      <4> QED BY <1>5, <1>8, <4>1, <4>2, <4>3
    <3> QED BY <1>1, <3>1, <3>2, <3>3, <3>4
  <2> QED BY <1>0, <2>1, <2>2 DEF OldInv
<1>11. RootInv'
  BY <1>0, <1>2, <1>5 DEF RootInv
<1>12. SetOf(rem') = SetOf(rem) /\ SetOf(remembered_next') \subseteq OldCells'
  BY <1>0, <1>1, <1>5, <1>8 DEF SetOf, MinorInv
<1>13. slot' = 1 => ~young_child'
  BY <1>0, <1>1, MinorTypes DEF NextSlot
<1>14. slot' # 1 => old_scan' < old_top'
  BY <1>0, <1>1, <1>5, <1>6, MinorTypes DEF NextSlot
<1> QED BY <1>0, <1>5, <1>9, <1>10, <1>11, <1>12, <1>13, <1>14 DEF MinorInv
\* The first remembered holder, and what is left when it has been traced.
LEMMA SetOfTail ==
  ASSUME NEW S, NEW s \in Seq(S), s # <<>>
  PROVE  /\ Head(s) = s[1] /\ Head(s) \in SetOf(s)
         /\ SetOf(Tail(s)) \subseteq SetOf(s)
         /\ SetOf(s) \subseteq SetOf(Tail(s)) \cup {Head(s)}
         /\ \A i \in DOMAIN Tail(s) : i + 1 \in DOMAIN s /\ Tail(s)[i] = s[i + 1]
<1>1. /\ Head(s) = s[1] /\ Tail(s) \in Seq(S) /\ Len(Tail(s)) = Len(s) - 1
      /\ \A i \in 1 .. Len(Tail(s)) : Tail(s)[i] = s[i + 1]
  BY HeadTailProperties
<1>2. /\ DOMAIN s = 1 .. Len(s) /\ DOMAIN Tail(s) = 1 .. Len(Tail(s))
      /\ Len(s) \in Nat /\ Len(s) # 0
  BY <1>1, LenProperties, EmptySeq
<1>3. \A i \in DOMAIN s : i = 1 \/ (i - 1 \in DOMAIN Tail(s) /\ Tail(s)[i - 1] = s[i])
  BY <1>1, <1>2
<1>4. \A i \in DOMAIN Tail(s) : i + 1 \in DOMAIN s /\ Tail(s)[i] = s[i + 1]
  BY <1>1, <1>2
<1> QED BY <1>1, <1>2, <1>3, <1>4 DEF SetOf

LEMMA TraceRememberedSafe ==
  ASSUME TypeOK, TypeOK', MinorInv, TraceRemembered,
         ~PromoteSpills(kid[Head(rem)][slot])
  PROVE  MinorInv'
<1> DEFINE h == Head(rem)
           p == kid[h][slot]
           t == PromoteTarget(p)
           n == Forwarded(p, t)
           yc == young_child \/ in_to_space(n)
<1>0. /\ phase = "remset" /\ rem # <<>> /\ slot' = NextSlot(NFields)
      /\ rem' = IF slot = NFields THEN Tail(rem) ELSE rem
      /\ UNCHANGED <<from, top, roots, phase, yscan, old_scan>>
      /\ Evacuate(p, t) /\ kid' = [KidsWithCopy(p, t) EXCEPT ![h][slot] = n]
      /\ IF slot = NFields
         THEN /\ young_child' = FALSE
              /\ remembered_next' = IF yc THEN Append(remembered_next, h)
                                          ELSE remembered_next
         ELSE young_child' = yc /\ UNCHANGED remembered_next
  BY DEF TraceRemembered, TraceFieldFromOld
<1>1. /\ h = rem[1] /\ h \in SetOf(rem) /\ SetOf(Tail(rem)) \subseteq SetOf(rem)
      /\ SetOf(rem) \subseteq SetOf(Tail(rem)) \cup {h}
      /\ \A i \in DOMAIN Tail(rem) : i + 1 \in DOMAIN rem /\ Tail(rem)[i] = rem[i + 1]
  BY <1>0, SetOfTail DEF TypeOK, RemsetType
<1>2. /\ FromInv /\ ToInv /\ OldInv /\ RootInv /\ (\A a \in ToCells : fwd[a] = Null)
      /\ SetOf(rem) \subseteq OldCells /\ (\A i \in DOMAIN rem : rem[i] < OldBase + old_scan)
      /\ to_top = 0 /\ remembered_next = <<>> /\ ~young_child
  BY <1>0 DEF MinorInv, ToInv
<1>3. h \in OldCells /\ h < OldBase + old_scan /\ slot \in Fields
  BY <1>0, <1>1, <1>2, MinorTypes DEF SetOf
<1>4. p \in Source
  BY <1>0, <1>2, <1>3 DEF OldInv, OldOrNull, Source
<1>5. NeedsCopy(p) => FreeCell(p, t) /\ t = OldBase + old_top
  BY <1>4, PromoteIntoFree
<1> HIDE DEF t, n
<1>6. /\ ToCells \subseteq ToCells' /\ OldCells \subseteq OldCells'
      /\ \A a \in ToCells' \ ToCells : a = to + to_top
      /\ \A a \in OldCells' \ OldCells : a = OldBase + old_top
      /\ to_top <= to_top' /\ old_top <= old_top'
      /\ FromInv'
      /\ \A a \in ToCells' : fwd'[a] = Null
      /\ n \in Done' /\ kid'[h][slot] = n
      /\ \A a \in ToCells \cup OldCells : \A f \in Fields :
           ~(a = h /\ f = slot) => kid'[a][f] = kid[a][f]
      /\ \A a \in (ToCells' \ ToCells) \cup (OldCells' \ OldCells) : \A f \in Fields :
           kid'[a][f] \in Source
      /\ Source \subseteq Source' /\ Done \subseteq Done' /\ OldOrNull \subseteq OldOrNull'
  BY <1>0, <1>2, <1>3, <1>4, <1>5, TraceEffect DEF n
<1>7. to' = to /\ to_top' = 0 /\ ToCells' = {} /\ old_top' \in 0 .. Semi
  <2>1. to_top' = 0
    <3>1. CASE Evacuates(p, t)
      BY <1>0, <1>2, <1>5, <3>1, MinorTypes DEF Evacuate, Evacuates
    <3>2. CASE ~Evacuates(p, t)
      BY <1>0, <1>2, <3>2 DEF Evacuate
    <3> QED BY <3>1, <3>2
  <2> QED BY <1>0, <2>1, MinorTypes DEF to, TypeOK, SpaceType, ToCells
<1>8. n \in OldOrNull' /\ ~in_to_space(n)
  BY <1>6, <1>7, MinorTypes DEF Done, OldOrNull, OldCells, in_to_space
<1>9. remembered_next' = <<>> /\ young_child' = FALSE
  BY <1>0, <1>2, <1>8
<1>10. /\ slot \in 1 .. NFields /\ old_scan \in Nat /\ NFields \in Nat \ {0}
       /\ slot = NFields => slot' = 1 /\ rem' = Tail(rem)
       /\ slot # NFields => slot' = slot + 1 /\ rem' = rem
  BY <1>0, <1>3, MinorTypes DEF NextSlot
<1>11. ToInv'
  BY <1>0, <1>2, <1>7 DEF ToInv
<1>12. OldInv'
  <2>1. old_scan' <= old_top'
    BY <1>0, <1>2, <1>6, <1>7, MinorTypes DEF OldInv
  <2>2. ASSUME NEW a \in OldCells', NEW f \in Fields
        PROVE  IF a < OldBase + old_scan
               THEN \/ kid'[a][f] \in OldOrNull'
                    \/ a \in SetOf(rem') /\ kid'[a][f] \in Source'
                         /\ ~(a = rem'[1] /\ f < slot')
               ELSE kid'[a][f] \in Source'
    <3>0. a \in Int /\ f \in 1 .. NFields
      BY <1>7, <2>2 DEF OldCells
    <3>1. CASE a \notin OldCells
      <4>1. kid'[a][f] \in Source' /\ a = OldBase + old_top
        BY <1>6, <2>2, <3>1
      <4>2. old_scan <= old_top
        BY <1>2 DEF OldInv
      <4> QED BY <4>1, <4>2, MinorTypes
    <3>2. CASE a = h /\ f = slot
      BY <1>3, <1>6, <1>8, <3>2
    <3>3. CASE a \in OldCells /\ ~(a = h /\ f = slot)
      <4>1. kid'[a][f] = kid[a][f]
        BY <1>6, <3>3
      <4>2. IF a < OldBase + old_scan
            THEN \/ kid[a][f] \in OldOrNull
                 \/ a \in SetOf(rem) /\ kid[a][f] \in Source /\ ~(a = rem[1] /\ f < slot)
            ELSE kid[a][f] \in Source
        BY <1>0, <1>2, <3>3 DEF OldInv
      <4>3. CASE slot # NFields
        BY <1>1, <1>6, <1>10, <3>0, <3>3, <4>1, <4>2, <4>3
      <4>4. CASE slot = NFields
        <5>1. f < slot'  => FALSE
          BY <1>10, <3>0, <4>4
        <5>2. a # h /\ a \in SetOf(rem) => a \in SetOf(rem')
          BY <1>1, <1>10, <4>4
        <5>3. a = h => f < slot
          BY <1>10, <3>0, <3>3, <4>4
        <5> QED BY <1>1, <1>6, <4>1, <4>2, <5>1, <5>2, <5>3
      <4> QED BY <4>3, <4>4
    <3> QED BY <3>1, <3>2, <3>3
  <2> QED BY <1>0, <2>1, <2>2 DEF OldInv
<1>13. RootInv'
  BY <1>0, <1>2, <1>6 DEF RootInv
<1>14. /\ SetOf(rem') \subseteq OldCells'
       /\ \A i \in DOMAIN rem' : rem'[i] < OldBase + old_scan'
  <2>1. SetOf(rem') \subseteq SetOf(rem)
    BY <1>1, <1>10
  <2>2. \A i \in DOMAIN rem' : rem'[i] \in SetOf(rem)
    BY <2>1 DEF SetOf
  <2>3. \A a \in SetOf(rem) : a < OldBase + old_scan
    BY <1>2 DEF SetOf
  <2> QED BY <1>0, <1>2, <1>6, <2>1, <2>2, <2>3
<1>15. SetOf(remembered_next') = {}
  BY <1>9 DEF SetOf
<1> QED BY <1>0, <1>6, <1>7, <1>9, <1>11, <1>12, <1>13, <1>14, <1>15 DEF MinorInv
LEMMA ForwardRootSafe ==
  ASSUME TypeOK, TypeOK', MinorInv, ForwardRoot, ~CopyFails(roots[slot])
  PROVE  MinorInv'
<1> DEFINE p == roots[slot]
           t == CopyTarget(p)
           n == Forwarded(p, t)
<1>0. /\ phase = "roots" /\ slot' = NextSlot(NRoots)
      /\ phase' = IF slot = NRoots THEN "young" ELSE "roots"
      /\ roots' = [roots EXCEPT ![slot] = n]
      /\ UNCHANGED <<from, top, remembered_next, rem, young_child, yscan, old_scan>>
      /\ Evacuate(p, t) /\ kid' = KidsWithCopy(p, t)
  BY DEF ForwardRoot, remset
<1>1. slot \in 1 .. NRoots /\ NRoots \in Nat \ {0} /\ roots \in [Roots -> Ptr]
  BY <1>0, MinorTypes DEF TypeOK, ObjectType
<1>2. /\ FromInv /\ ToInv /\ OldInv /\ RootInv /\ (\A a \in ToCells : fwd[a] = Null)
      /\ rem = <<>> /\ ~young_child
  BY <1>0 DEF MinorInv, ToInv
<1>3. p \in Source
  BY <1>0, <1>1, <1>2 DEF RootInv
<1>4. NeedsCopy(p) => FreeCell(p, t)
  BY <1>3, CopyIntoFree
<1> HIDE DEF t, n
<1>5. /\ YoungCells' = YoungCells
      /\ ToCells \subseteq ToCells' /\ OldCells \subseteq OldCells'
      /\ \A a \in ToCells' \ ToCells : a = to + to_top
      /\ \A a \in OldCells' \ OldCells : a = OldBase + old_top
      /\ to_top <= to_top' /\ old_top <= old_top'
      /\ n \in Done'
      /\ \A a \in YoungCells : fwd'[a] \in Done'
      /\ \A a \in ToCells' : fwd'[a] = Null
      /\ \A a \in YoungCells \cup ToCells \cup OldCells : kid'[a] = kid[a]
      /\ \A a \in (ToCells' \ ToCells) \cup (OldCells' \ OldCells) : \A f \in Fields :
           kid'[a][f] \in Source
  BY <1>0, <1>2, <1>3, <1>4, Evacuation DEF n
<1>6. Source \subseteq Source' /\ Done \subseteq Done' /\ OldOrNull \subseteq OldOrNull'
  BY <1>5, Growth
<1>7. FromInv'
  BY <1>2, <1>5, <1>6 DEF FromInv
<1>8. to' = to /\ to_top' \in 0 .. Semi /\ old_top' \in 0 .. Semi
  BY <1>0 DEF to, TypeOK, SpaceType
<1>9. /\ slot = NRoots => slot' = 1 /\ phase' = "young"
      /\ slot # NRoots => slot' = slot + 1 /\ phase' = "roots"
  BY <1>0 DEF NextSlot
<1>10. ToInv'
  <2>1. yscan' <= to_top' /\ yscan <= to_top
    BY <1>0, <1>2, <1>5, <1>8, MinorTypes DEF ToInv
  <2>2. ASSUME NEW a \in ToCells', NEW f \in Fields
        PROVE  kid'[a][f] \in (IF a < to + yscan THEN Done' ELSE Source')
    <3>1. CASE a \notin ToCells
      <4>1. a = to + to_top /\ kid'[a][f] \in Source'
        BY <1>5, <1>6, <2>2, <3>1
      <4> QED BY <2>1, <4>1, MinorTypes
    <3>2. CASE a \in ToCells
      BY <1>0, <1>2, <1>5, <1>6, <3>2 DEF ToInv
    <3> QED BY <3>1, <3>2
  <2>3. \A f \in Fields : ~(phase' = "young" /\ f < slot')
    BY <1>1, <1>9, MinorTypes
  <2> QED BY <1>0, <1>5, <1>8, <2>1, <2>2, <2>3 DEF ToInv
<1>11. OldInv'
  <2>1. old_scan' <= old_top' /\ old_scan <= old_top
    BY <1>0, <1>2, <1>5, <1>8, MinorTypes DEF OldInv
  <2>2. ASSUME NEW a \in OldCells', NEW f \in Fields
        PROVE  IF a < OldBase + old_scan
               THEN \/ kid'[a][f] \in OldOrNull'
                    \/ kid'[a][f] \in ToCells' /\ a \in SetOf(remembered_next)
               ELSE kid'[a][f] \in Source'
    <3>1. CASE a \notin OldCells
      <4>1. a = OldBase + old_top /\ kid'[a][f] \in Source'
        BY <1>5, <1>6, <2>2, <3>1
      <4> QED BY <2>1, <4>1, MinorTypes
    <3>2. CASE a \in OldCells
      BY <1>0, <1>2, <1>5, <1>6, <3>2 DEF OldInv
    <3> QED BY <3>1, <3>2
  <2>3. SetOf(remembered_next') = SetOf(remembered_next)
    BY <1>0
  <2> QED BY <1>0, <1>9, <2>1, <2>2, <2>3 DEF OldInv
<1>12. RootInv'
  <2>1. ASSUME NEW r \in Roots
        PROVE  roots'[r] \in (IF phase' = "roots" /\ r >= slot' THEN Source' ELSE Done')
    <3>1. roots[r] \in (IF r >= slot THEN Source ELSE Done)
      BY <1>0, <1>2 DEF RootInv
    <3>2. roots'[r] = IF r = slot THEN n ELSE roots[r]
      BY <1>0, <1>1
    <3>3. phase' = "roots" /\ r >= slot' => r >= slot /\ r # slot
      BY <1>1, <1>9
    <3>4. ~(phase' = "roots" /\ r >= slot') => r = slot \/ ~(r >= slot)
      BY <1>1, <1>9
    <3> QED BY <1>5, <1>6, <3>1, <3>2, <3>3, <3>4
  <2> QED BY <1>9, <2>1 DEF RootInv
<1> QED
  <2>1. SetOf(rem') = SetOf(rem) /\ SetOf(remembered_next') = SetOf(remembered_next)
        /\ rem' = rem
    BY <1>0
  <2>2. phase' = "young" => slot' = 1
    BY <1>9
  <2> QED BY <1>0, <1>2, <1>5, <1>7, <1>9, <1>10, <1>11, <1>12, <2>1, <2>2 DEF MinorInv

\* Passing from one loop of the collection to the next.
LEMMA MinorPhaseSafe ==
  ASSUME TypeOK, MinorInv, RememberedDone \/ YoungDrained \/ OldDrainedYoungNot
  PROVE  MinorInv'
<1> USE DEF space, object, remset, minor, major
<1>1. /\ SetOf(rem') = SetOf(rem) /\ SetOf(remembered_next') = SetOf(remembered_next)
      /\ UNCHANGED <<from, top, to_top, old_top, kid, fwd, roots, rem, remembered_next,
                     young_child, yscan, old_scan>>
  BY DEF RememberedDone, YoungDrained, OldDrainedYoungNot
<1>2. /\ ToCells' = ToCells /\ OldCells' = OldCells /\ Source' = Source /\ Done' = Done
      /\ OldOrNull' = OldOrNull /\ to' = to /\ FromInv'
  BY <1>1 DEF YoungCells, ToCells, OldCells, Source, Done, OldOrNull, to, FromInv, MinorInv
<1>3. slot' = 1 /\ ~young_child'
  BY <1>1, MinorTypes DEF RememberedDone, YoungDrained, OldDrainedYoungNot, MinorInv
<1>4. CASE RememberedDone
  <2>1. phase = "remset" /\ phase' = "roots" /\ rem = <<>> /\ SetOf(rem) = {}
    BY <1>4 DEF RememberedDone, SetOf
  <2>2. ToInv'
    BY <1>1, <1>2, <2>1 DEF ToInv, MinorInv
  <2>3. OldInv'
    BY <1>1, <1>2, <2>1 DEF OldInv, MinorInv
  <2>4. RootInv'
    BY <1>1, <1>2, <1>3, <2>1 DEF RootInv, MinorInv
  <2> QED BY <1>1, <1>2, <1>3, <2>1, <2>2, <2>3, <2>4 DEF MinorInv
<1>5. CASE YoungDrained
  <2>1. phase = "young" /\ phase' = "old" /\ yscan = to_top
    BY <1>5 DEF YoungDrained
  <2>2. \A a \in ToCells : a < to + yscan
    BY <2>1, MinorTypes DEF ToCells
  <2>3. ToInv'
    BY <1>1, <1>2, <2>1, <2>2 DEF ToInv, MinorInv
  <2>4. \A f \in Fields : ~(f < slot')
    BY <1>3, MinorTypes
  <2>5. OldInv'
    BY <1>1, <1>2, <2>1, <2>4 DEF OldInv, MinorInv
  <2>6. RootInv'
    BY <1>1, <1>2, <1>3, <2>1 DEF RootInv, MinorInv
  <2> QED BY <1>1, <1>2, <1>3, <2>1, <2>3, <2>5, <2>6 DEF MinorInv
<1>6. CASE OldDrainedYoungNot
  <2>1. phase = "old" /\ phase' = "young" /\ slot = 1
    BY <1>6, MinorTypes DEF OldDrainedYoungNot, MinorInv
  <2>2. \A f \in Fields : ~(f < slot') /\ ~(f < slot)
    BY <1>3, <2>1, MinorTypes
  <2>3. ToInv'
    BY <1>1, <1>2, <2>1, <2>2 DEF ToInv, MinorInv
  <2>4. OldInv'
    BY <1>1, <1>2, <2>1, <2>2 DEF OldInv, MinorInv
  <2>5. RootInv'
    BY <1>1, <1>2, <1>3, <2>1 DEF RootInv, MinorInv
  <2> QED BY <1>1, <1>2, <1>3, <2>1, <2>3, <2>4, <2>5 DEF MinorInv
<1> QED BY <1>4, <1>5, <1>6
\* The evacuated space is abandoned only when nothing refers to it any more.
LEMMA FinishMinorSafe ==
  ASSUME TypeOK, MinorInv, FinishMinor
  PROVE  Steady' /\ slot' = 1 /\ ~young_child' /\ rem' = <<>>
<1>0. /\ phase = "old" /\ old_scan = old_top /\ yscan = to_top
      /\ remembered' = remembered_next /\ from' = to /\ top' = to_top
      /\ kid' = [a \in Addr |-> IF is_young(a) THEN Blank ELSE kid[a]]
      /\ fwd' = [a \in Addr |-> IF is_young(a) THEN Null ELSE fwd[a]]
      /\ UNCHANGED <<old_top, roots, rem, slot, young_child>>
  BY DEF FinishMinor
<1>1. FromInv /\ ToInv /\ OldInv /\ RootInv /\ SetOf(remembered_next) \subseteq OldCells
  BY DEF MinorInv
<1>2. YoungCells' = ToCells /\ OldCells' = OldCells
  BY <1>0 DEF YoungCells, ToCells, OldCells
<1>3. \A a \in ToCells \cup OldCells : kid'[a] = kid[a] /\ fwd'[a] = fwd[a]
  BY <1>0, Geometry
<1>4. \A a \in ToCells : a < to + yscan
  BY <1>0, MinorTypes DEF ToCells
<1>5. \A a \in OldCells : a < OldBase + old_scan
  BY <1>0, MinorTypes DEF OldCells
<1>6. \A a \in ToCells : \A f \in Fields : kid[a][f] \in Done
  BY <1>1, <1>4 DEF ToInv
<1>7. \A a \in OldCells : \A f \in Fields :
        \/ kid[a][f] \in OldOrNull
        \/ kid[a][f] \in ToCells /\ a \in SetOf(remembered_next)
  BY <1>0, <1>1, <1>5 DEF OldInv
<1>8. \A r \in Roots : roots[r] \in Done
  BY <1>0, <1>1 DEF RootInv
<1>9. Closed'
  <2>1. Live' \cup {Null} = Done /\ OldOrNull \subseteq Done /\ ToCells \subseteq Done
    BY <1>2 DEF Live, Done, OldOrNull
  <2>2. \A a \in Live' : \A f \in Fields : kid[a][f] \in Done
    BY <1>2, <1>6, <1>7, <2>1 DEF Live
  <2>3. \A a \in Live' : kid'[a] = kid[a]
    BY <1>2, <1>3 DEF Live
  <2> QED BY <1>0, <1>8, <2>1, <2>2, <2>3 DEF Closed
<1>10. OldToYoungRemembered'
  <2>1. SetOf(remembered') = SetOf(remembered_next)
    BY <1>0
  <2>2. ToCells \cap OldOrNull = {}
    BY Geometry DEF OldOrNull
  <2> QED BY <1>2, <1>3, <1>7, <2>1, <2>2 DEF OldToYoungRemembered
<1>11. \A a \in YoungCells' : fwd'[a] = Null
  BY <1>1, <1>2, <1>3 DEF ToInv
<1>12. SetOf(remembered') \subseteq OldCells'
  BY <1>0, <1>1, <1>2
<1>13. slot' = 1 /\ ~young_child' /\ rem' = <<>>
  <2>1. slot = 1
    BY <1>0, MinorTypes DEF MinorInv
  <2> QED BY <1>0, <2>1 DEF MinorInv
<1> QED BY <1>9, <1>10, <1>11, <1>12, <1>13 DEF Steady

\* A collection starts from a steady heap.
LEMMA AllocCollectsSafe ==
  ASSUME TypeOK, Steady, slot = 1, NEW i \in Roots, AllocCollects(i)
  PROVE  MinorInv' /\ remembered' = <<>>
<1>0. /\ phase' = "remset" /\ to_top' = 0 /\ old_scan' = old_top /\ yscan' = 0
      /\ rem' = remembered /\ remembered' = <<>> /\ remembered_next' = <<>>
      /\ slot' = 1 /\ young_child' = FALSE
      /\ UNCHANGED <<from, top, old_top, kid, fwd, roots>>
  BY DEF AllocCollects, object
<1>1. /\ YoungCells' = YoungCells /\ OldCells' = OldCells /\ ToCells' = {}
      /\ Source' = Source /\ Source = Live \cup {Null} /\ OldOrNull' = OldOrNull
      /\ Null \in Done'
  BY <1>0, MinorTypes DEF YoungCells, OldCells, ToCells, Source, OldOrNull, Live, to, Done
<1>2. FromInv'
  BY <1>0, <1>1 DEF FromInv, Steady, Closed, Live
<1>3. ToInv'
  BY <1>0, <1>1 DEF ToInv
<1>4. \A a \in OldCells : a < OldBase + old_top /\ a \in Int
  BY MinorTypes DEF OldCells
<1>5. \A a \in OldCells : \A f \in Fields :
        \/ kid[a][f] \in OldOrNull
        \/ a \in SetOf(remembered) /\ kid[a][f] \in Source
  BY <1>1 DEF Steady, Closed, OldToYoungRemembered, Live, OldOrNull, Source
<1>6. SetOf(rem') = SetOf(remembered) /\ SetOf(remembered) \subseteq OldCells
  BY <1>0 DEF Steady
<1>7. OldInv'
  <2>1. \A f \in Fields : ~(f < slot')
    BY <1>0, MinorTypes
  <2>2. old_scan' <= old_top'
    BY <1>0, MinorTypes
  <2>3. \A a \in OldCells' : a < OldBase + old_scan'
    BY <1>0, <1>1, <1>4
  <2> QED BY <1>0, <1>1, <1>5, <1>6, <2>1, <2>2, <2>3 DEF OldInv
<1>8. RootInv'
  BY <1>0, <1>1 DEF RootInv, Steady, Closed
<1>9. \A j \in DOMAIN rem' : rem'[j] < OldBase + old_scan'
  BY <1>0, <1>4, <1>6 DEF SetOf
<1>10. SetOf(remembered_next') = {}
  BY <1>0 DEF SetOf
<1> QED BY <1>0, <1>1, <1>2, <1>3, <1>6, <1>7, <1>8, <1>9, <1>10 DEF MinorInv

-----------------------------------------------------------------------------
(***************************************************************************)
(* The mutator, and the end of an allocation, preserve Steady.             *)
(***************************************************************************)
LEMMA PlaceSafe ==
  ASSUME TypeOK, Steady, NEW i \in Roots, top < Semi, Place(i),
         UNCHANGED <<from, old_top, remembered>>
  PROVE  Steady'
<1> DEFINE q == from + top
<1>0. /\ kid' = [kid EXCEPT ![q] = Blank] /\ fwd' = [fwd EXCEPT ![q] = Null]
      /\ top' = top + 1 /\ roots' = [roots EXCEPT ![i] = q]
      /\ kid \in [Addr -> [Fields -> Ptr]] /\ fwd \in [Addr -> Ptr] /\ roots \in [Roots -> Ptr]
  BY DEF Place, TypeOK, ObjectType
<1>1. q \in Addr /\ q \notin Live /\ q \notin OldCells
  BY MinorTypes DEF Live, YoungCells, OldCells
<1>2. YoungCells' = YoungCells \cup {q} /\ OldCells' = OldCells /\ Live' = Live \cup {q}
  <2>1. from' = from /\ top' = top + 1 /\ old_top' = old_top
    BY <1>0
  <2>2. YoungCells' = YoungCells \cup {q}
    BY <2>1, MinorTypes DEF YoungCells
  <2>3. OldCells' = OldCells
    BY <2>1 DEF OldCells
  <2> QED BY <2>2, <2>3 DEF Live
<1>3. YoungCells \subseteq Addr /\ OldCells \subseteq Addr
  BY Geometry
<1>4. /\ \A a \in Live : kid'[a] = kid[a] /\ fwd'[a] = fwd[a]
      /\ kid'[q] = Blank /\ fwd'[q] = Null
  <2> HIDE DEF q
  <2> QED BY <1>0, <1>1, <1>3 DEF Live
<1>5. \A r \in Roots : roots'[r] = q \/ roots'[r] = roots[r]
  BY <1>0
<1> HIDE DEF q
<1>6. Closed'
  <2>1. \A r \in Roots : roots'[r] \in Live' \cup {Null}
    BY <1>2, <1>5 DEF Steady, Closed
  <2>2. \A a \in Live' : \A f \in Fields : kid'[a][f] \in Live' \cup {Null}
    <3>1. \A f \in Fields : kid'[q][f] = Null
      BY <1>4 DEF Blank
    <3>2. \A a \in Live : \A f \in Fields : kid'[a][f] \in Live \cup {Null}
      BY <1>4 DEF Steady, Closed
    <3> QED BY <1>2, <3>1, <3>2
  <2> QED BY <2>1, <2>2 DEF Closed
<1>7. OldToYoungRemembered'
  <2>1. \A a \in OldCells : \A f \in Fields : kid'[a][f] = kid[a][f] /\ kid[a][f] # q
    BY <1>1, <1>4 DEF Steady, Closed, Live
  <2>2. SetOf(remembered') = SetOf(remembered)
    OBVIOUS
  <2> QED BY <1>2, <2>1, <2>2 DEF Steady, OldToYoungRemembered
<1>8. \A a \in YoungCells' : fwd'[a] = Null
  BY <1>2, <1>4 DEF Steady, Live
<1>9. SetOf(remembered') \subseteq OldCells'
  BY <1>2 DEF Steady
<1> QED BY <1>6, <1>7, <1>8, <1>9 DEF Steady
\* Moves and loads only copy references that the program already has.
LEMMA ReadSafe ==
  ASSUME TypeOK, Steady, NEW i \in Roots, NEW v \in Live \cup {Null},
         roots' = [roots EXCEPT ![i] = v],
         UNCHANGED <<from, top, old_top, kid, fwd, remembered>>
  PROVE  Steady'
<1>1. YoungCells' = YoungCells /\ OldCells' = OldCells /\ Live' = Live
  BY DEF YoungCells, OldCells, Live
<1>2. \A r \in Roots : roots'[r] \in Live \cup {Null}
  BY DEF TypeOK, ObjectType, Steady, Closed
<1>3. Closed'
  BY <1>1, <1>2 DEF Steady, Closed
<1>4. SetOf(remembered') = SetOf(remembered)
  OBVIOUS
<1>5. OldToYoungRemembered'
  BY <1>1, <1>4 DEF Steady, OldToYoungRemembered
<1> QED BY <1>1, <1>3, <1>4, <1>5 DEF Steady

\* A store is followed by the write barrier, so the holder is remembered.
LEMMA StoreFieldSafe ==
  ASSUME TypeOK, Steady, NEW i \in Roots, NEW g \in Fields,
         NEW v \in {roots[j] : j \in Roots} \cup {Null}, StoreField(i, g, v)
  PROVE  Steady'
<1> DEFINE holder == roots[i]
           logs   == v # Null /\ is_old(holder) /\ is_young(v)
<1>0. /\ holder # Null
      /\ kid' = [kid EXCEPT ![holder][g] = v]
      /\ remembered' = IF logs THEN Append(remembered, holder) ELSE remembered
      /\ UNCHANGED <<from, top, old_top, fwd, roots>>
  BY DEF StoreField, space
<1>1. YoungCells' = YoungCells /\ OldCells' = OldCells /\ Live' = Live
  BY <1>0 DEF YoungCells, OldCells, Live
<1>2. /\ holder \in Live /\ v \in Live \cup {Null} /\ Live \subseteq Addr
      /\ kid \in [Addr -> [Fields -> Ptr]] /\ remembered \in Seq(OldAddr)
      /\ OldCells \subseteq OldAddr
  BY <1>0, Geometry, OldCellsType DEF Steady, Closed, Live, TypeOK, ObjectType, RemsetType
<1>3. \A a \in Live : \A f \in Fields :
        kid'[a][f] = IF a = holder /\ f = g THEN v ELSE kid[a][f]
  <2> HIDE DEF holder
  <2>1. kid' = [kid EXCEPT ![holder] = [kid[holder] EXCEPT ![g] = v]]
    BY <1>0
  <2>2. \A a \in Addr : a # holder => kid'[a] = kid[a]
    BY <1>2, <2>1
  <2>3. kid'[holder] = [kid[holder] EXCEPT ![g] = v] /\ kid[holder] \in [Fields -> Ptr]
    BY <1>2, <2>1
  <2>4. \A f \in Fields : kid'[holder][f] = IF f = g THEN v ELSE kid[holder][f]
    BY <2>3
  <2> QED BY <1>2, <2>2, <2>4
<1>4. Closed'
  BY <1>0, <1>1, <1>2, <1>3 DEF Steady, Closed
<1>5. /\ SetOf(remembered) \subseteq SetOf(remembered')
      /\ SetOf(remembered') \subseteq OldCells
      /\ logs => holder \in SetOf(remembered')
  <2>1. CASE logs
    <3>1. holder \in OldCells
      BY <1>2, <2>1, Geometry
    <3>2. SetOf(remembered') = SetOf(remembered) \cup {holder}
      BY <1>0, <1>2, <2>1, <3>1, SetOfAppend
    <3> QED BY <3>1, <3>2 DEF Steady
  <2>2. CASE ~logs
    BY <1>0, <2>2 DEF Steady
  <2> QED BY <2>1, <2>2
<1>6. OldToYoungRemembered'
  <2>1. ASSUME NEW a \in OldCells, NEW f \in Fields, kid'[a][f] \in YoungCells
        PROVE  a \in SetOf(remembered')
    <3>1. CASE a = holder /\ f = g
      <4>1. v \in YoungCells
        BY <1>3, <2>1, <3>1 DEF Live
      <4>2. v # Null /\ is_young(v) /\ is_old(a)
        BY <4>1, Geometry
      <4> QED BY <1>5, <3>1, <4>2
    <3>2. CASE ~(a = holder /\ f = g)
      BY <1>3, <1>5, <2>1, <3>2 DEF Live, Steady, OldToYoungRemembered
    <3> QED BY <3>1, <3>2
  <2> QED BY <1>1, <2>1 DEF OldToYoungRemembered
<1> QED BY <1>0, <1>1, <1>4, <1>5, <1>6 DEF Steady

-----------------------------------------------------------------------------
(***************************************************************************)
(* Marking and computing addresses leave the heap steady.                  *)
(***************************************************************************)
\* What Steady speaks about is untouched (old objects may get a forwarding address).
LEMMA SteadyKept ==
  ASSUME TypeOK, Steady, UNCHANGED <<from, top, old_top, kid, roots, remembered>>,
         \A a \in YoungCells : fwd'[a] = fwd[a]
  PROVE  Steady'
<1>1. YoungCells' = YoungCells /\ OldCells' = OldCells /\ Live' = Live
  BY DEF YoungCells, OldCells, Live
<1>2. SetOf(remembered') = SetOf(remembered)
  OBVIOUS
<1>3. Closed' /\ OldToYoungRemembered'
  BY <1>1, <1>2 DEF Steady, Closed, OldToYoungRemembered
<1> QED BY <1>1, <1>2, <1>3 DEF Steady

LEMMA MarkRootsSafe ==
  ASSUME TypeOK, Steady, MarkRoots
  PROVE  Steady' /\ Marked' /\ \A a \in OldCells' : fwd'[a] = Null
<1> DEFINE seeds == ({roots[r] : r \in Roots} \cap OldCells)
                      \cup UNION {OldChildren(y) : y \in YoungCells}
<1>0. /\ fwd' = [a \in Addr |-> IF is_old(a) THEN Null ELSE fwd[a]]
      /\ mark' = (mark \ OldCells) \cup seeds /\ mark_work' = seeds
      /\ UNCHANGED <<from, top, old_top, kid, roots, remembered>>
  BY DEF MarkRoots, space, remset
<1>1. /\ YoungCells' = YoungCells /\ OldCells' = OldCells
      /\ \A a \in YoungCells : fwd'[a] = fwd[a]
      /\ \A a \in OldCells : fwd'[a] = Null
  BY <1>0, Geometry DEF YoungCells, OldCells
<1>2. Steady'
  BY <1>0, <1>1, SteadyKept
<1>3. \A a : OldChildren(a)' = OldChildren(a)
  BY <1>0, <1>1 DEF OldChildren
<1>4. seeds \subseteq OldCells
  BY DEF OldChildren
<1>5. Marked'
  <2> HIDE DEF seeds
  <2>1. mark' \cap OldCells = seeds
    BY <1>0, <1>4
  <2>2. /\ \A r \in Roots : roots[r] \in OldCells => roots[r] \in seeds
        /\ \A a \in YoungCells : OldChildren(a) \subseteq seeds
    BY DEF seeds
  <2> QED BY <1>0, <1>1, <1>3, <1>4, <2>1, <2>2 DEF Marked
<1> QED BY <1>1, <1>2, <1>5

LEMMA MarkChildrenSafe ==
  ASSUME TypeOK, Steady, Marked, MarkChildren
  PROVE  Steady' /\ Marked' /\ UNCHANGED <<fwd, OldCells>>
<1>0. UNCHANGED <<from, top, old_top, kid, fwd, roots, remembered>>
  BY DEF MarkChildren, space, remset
<1>1. Steady'
  BY <1>0, SteadyKept
<1>2. /\ YoungCells' = YoungCells /\ OldCells' = OldCells
      /\ \A a : OldChildren(a)' = OldChildren(a)
  BY <1>0 DEF YoungCells, OldCells, OldChildren
<1>3. PICK o \in mark_work :
        /\ mark' = mark \cup (OldChildren(o) \ mark)
        /\ mark_work' = (mark_work \ {o}) \cup (OldChildren(o) \ mark)
  BY DEF MarkChildren
<1>4. OldChildren(o) \subseteq OldCells
  BY DEF OldChildren
<1>5. Marked'
  BY <1>0, <1>2, <1>3, <1>4 DEF Marked
<1> QED BY <1>0, <1>1, <1>2, <1>5
LEMMA MajorTypes ==
  ASSUME TypeOK
  PROVE  /\ Semi \in Nat \ {0} /\ from \in {0, Semi} /\ top \in 0 .. Semi
         /\ old_top \in 0 .. Semi /\ new_top \in 0 .. Semi /\ cursor \in Nat
         /\ phase = "forward" => new_top <= cursor
         /\ fwd \in [Addr -> Ptr] /\ kid \in [Addr -> [Fields -> Ptr]]
         /\ roots \in [Roots -> Ptr] /\ OldCells \subseteq Addr /\ YoungCells \subseteq Addr
BY HeapAssumption, Geometry DEF TypeOK, SpaceType, ControlType, ObjectType

LEMMA MarkDoneSafe ==
  ASSUME TypeOK, Steady, Marked, \A a \in OldCells : fwd[a] = Null, MarkDone
  PROVE  Steady' /\ Marked' /\ mark_work' = {} /\ Packed'
<1>0. /\ UNCHANGED <<from, top, old_top, kid, fwd, roots, remembered, mark, mark_work>>
      /\ mark_work = {} /\ cursor' = 0 /\ new_top' = 0
  BY DEF MarkDone, space, object, remset
<1>1. Steady'
  BY <1>0, SteadyKept
<1>2. /\ YoungCells' = YoungCells /\ OldCells' = OldCells
      /\ \A a : OldChildren(a)' = OldChildren(a)
  BY <1>0 DEF YoungCells, OldCells, OldChildren
<1>3. Marked'
  BY <1>0, <1>2 DEF Marked
<1>4. \A a \in OldCells : a \in Int /\ ~(a < OldBase + 0)
  BY MajorTypes DEF OldCells
<1>5. Packed'
  <2>1. cursor' <= old_top' /\ OldBase .. OldBase + new_top' - 1 = {}
    BY <1>0, MajorTypes
  <2>2. \A a \in OldCells : ~(a < OldBase + cursor')
    BY <1>0, <1>4
  <2> QED BY <1>0, <1>2, <2>1, <2>2 DEF Packed
<1> QED BY <1>0, <1>1, <1>3, <1>5

LEMMA RangeGrows ==
  ASSUME NEW b \in Int, NEW m \in Int, NEW n \in Int, m <= n
  PROVE  b .. b + m - 1 \subseteq b .. b + n - 1
OBVIOUS

LEMMA ComputeForwardSafe ==
  ASSUME TypeOK, Steady, Marked, Packed, phase = "forward", ComputeForward
  PROVE  Steady' /\ Marked' /\ UNCHANGED mark_work /\ Packed'
<1> DEFINE o == OldBase + cursor
           n == OldBase + new_top
<1>0. /\ UNCHANGED <<from, top, old_top, kid, roots, remembered, mark, mark_work>>
      /\ cursor < old_top /\ cursor' = cursor + 1
      /\ IF o \in mark THEN fwd' = [fwd EXCEPT ![o] = n] /\ new_top' = new_top + 1
                       ELSE UNCHANGED <<fwd, new_top>>
  BY DEF ComputeForward, space, remset
<1>1. o \in OldCells /\ o \notin YoungCells /\ o \in Addr
  <2>1. o \in OldCells
    BY <1>0, MajorTypes DEF OldCells
  <2> QED BY <2>1, Geometry
<1>2. /\ YoungCells' = YoungCells /\ OldCells' = OldCells
      /\ \A a : OldChildren(a)' = OldChildren(a)
  BY <1>0 DEF YoungCells, OldCells, OldChildren
<1>3. /\ \A a \in Addr : a # o => fwd'[a] = fwd[a]
      /\ o \in mark => fwd'[o] = n
  <2> HIDE DEF o, n
  <2>1. CASE o \in mark
    BY <1>0, <1>1, <2>1, MajorTypes
  <2>2. CASE o \notin mark
    BY <1>0, <2>2
  <2> QED BY <2>1, <2>2
<1>7. (o \in mark => new_top' = new_top + 1) /\ (o \notin mark => new_top' = new_top)
  BY <1>0
<1>4. Steady'
  BY <1>0, <1>1, <1>3, MajorTypes, SteadyKept
<1>5. Marked'
  BY <1>0, <1>2 DEF Marked
<1>6. Packed'
  <2>0. /\ new_top \in Nat /\ cursor \in Nat /\ old_top \in Nat /\ Semi \in Nat
        /\ new_top <= cursor /\ new_top <= new_top' /\ new_top' \in Nat
        /\ \A a \in OldCells : a \in Int /\ (a < OldBase + cursor' <=> a < OldBase + cursor \/ a = o)
        /\ \A a \in OldCells : a < OldBase + cursor <=> a < o
    <3>1. /\ new_top \in Nat /\ cursor \in Nat /\ old_top \in Nat /\ Semi \in Nat
          /\ new_top <= cursor /\ cursor' = cursor + 1
      BY <1>0, MajorTypes
    <3>2. new_top <= new_top' /\ new_top' \in Nat
      BY <1>7, <3>1
    <3>3. ASSUME NEW a \in OldCells
          PROVE  a \in Int /\ (a < OldBase + cursor' <=> (a < OldBase + cursor \/ a = o))
      <4>1. a \in Int
        BY <3>1 DEF OldCells
      <4> QED BY <3>1, <4>1
    <3> QED BY <3>1, <3>2, <3>3
  <2>1. cursor' <= old_top'
    BY <1>0, <2>0
  <2>2. ASSUME NEW a \in OldCells
        PROVE  IF a \in mark /\ a < OldBase + cursor'
               THEN fwd'[a] \in OldBase .. OldBase + new_top' - 1 /\ fwd'[a] <= a
               ELSE fwd'[a] = Null
    <3>1. IF a \in mark /\ a < OldBase + cursor
          THEN fwd[a] \in OldBase .. OldBase + new_top - 1 /\ fwd[a] <= a
          ELSE fwd[a] = Null
      BY DEF Packed
    <3>2. CASE a # o
      <4>1. fwd'[a] = fwd[a] /\ (a < OldBase + cursor' <=> a < OldBase + cursor)
        BY <1>3, <2>0, <3>2, MajorTypes
      <4>2. \A x \in OldBase .. OldBase + new_top - 1 : x \in OldBase .. OldBase + new_top' - 1
        <5>1. new_top \in Int /\ new_top' \in Int /\ OldBase \in Int /\ new_top <= new_top'
          BY <2>0
        <5> QED BY <5>1, RangeGrows
      <4> QED BY <3>1, <4>1, <4>2
    <3>3. CASE a = o /\ o \in mark
      <4>1. fwd'[a] = OldBase + new_top /\ new_top' = new_top + 1 /\ a = OldBase + cursor
        BY <1>3, <1>7, <3>3
      <4> QED BY <2>0, <3>3, <4>1
    <3>4. CASE a = o /\ o \notin mark
      BY <1>0, <2>0, <3>1, <3>4
    <3> QED BY <3>2, <3>3, <3>4
  <2>3. ASSUME NEW a \in OldCells \cap mark, NEW b \in OldCells \cap mark,
               a < b, b < OldBase + cursor'
        PROVE  fwd'[a] < fwd'[b]
    <3>1. a # o /\ a < OldBase + cursor /\ a \in Addr /\ b \in Addr
      BY <2>0, <2>3, MajorTypes
    <3>2. fwd'[a] = fwd[a] /\ fwd[a] \in OldBase .. OldBase + new_top - 1
      BY <1>3, <3>1 DEF Packed
    <3>3. CASE b = o
      BY <1>3, <2>0, <2>3, <3>2, <3>3
    <3>4. CASE b # o
      BY <1>3, <2>0, <2>3, <3>1, <3>2, <3>4 DEF Packed
    <3> QED BY <3>3, <3>4
  <2>4. ASSUME NEW m \in OldBase .. OldBase + new_top' - 1
        PROVE  \E a \in OldCells \cap mark : a < OldBase + cursor' /\ fwd'[a] = m
    <3>1. CASE m \in OldBase .. OldBase + new_top - 1
      <4>1. PICK a \in OldCells \cap mark : a < OldBase + cursor /\ fwd[a] = m
        BY <3>1 DEF Packed
      <4>2. a # o /\ a \in Addr
        BY <2>0, <4>1, MajorTypes
      <4> QED BY <1>3, <2>0, <4>1, <4>2
    <3>2. CASE m \notin OldBase .. OldBase + new_top - 1
      <4>1. o \in mark /\ m = n
        <5>1. o \in mark
          BY <1>7, <2>4, <3>2
        <5>2. m \in OldBase .. OldBase + new_top
          BY <1>7, <2>0, <2>4, <5>1
        <5> QED BY <2>0, <3>2, <5>1, <5>2
      <4> QED BY <1>1, <1>3, <2>0, <4>1
    <3> QED BY <3>1, <3>2
  <2> QED BY <1>0, <1>2, <2>1, <2>2, <2>3, <2>4 DEF Packed
<1> QED BY <1>0, <1>4, <1>5, <1>6
-----------------------------------------------------------------------------
(***************************************************************************)
(* Updating the pointers and sliding the objects.                          *)
(***************************************************************************)
\* A pointer to a marked old object becomes the address the object will have;
\* any other pointer is left alone.
LEMMA ForwardOld ==
  ASSUME TypeOK, Packed, cursor = old_top, NEW p \in Live \cup {Null},
         p \in OldCells => p \in mark
  PROVE  /\ p \in OldCells => forward_old(p) = fwd[p] /\ fwd[p] \in NewOld
         /\ p \notin OldCells => forward_old(p) = p
<1>1. p \in Ptr /\ (is_old(p) <=> p \in OldCells)
  BY Geometry DEF Live
<1>2. ASSUME p \in OldCells PROVE fwd[p] \in NewOld /\ fwd[p] # Null
  <2>1. p < OldBase + cursor
    BY <1>2, MajorTypes DEF OldCells
  <2>2. fwd[p] \in NewOld
    BY <1>2, <2>1 DEF Packed, NewOld
  <2> QED BY <2>2, MajorTypes DEF NewOld
<1> QED BY <1>1, <1>2 DEF forward_old

\* Where a pointer may lead while objects slide.
Moved == YoungCells \cup NewOld \cup {Null}

\* SlideInv of the next state, conjunct by conjunct, for arenas that stay in place.
LEMMA SlideInvNext ==
  ASSUME YoungCells' = YoungCells, NewOld' = NewOld, SetOf(remembered') = SetOf(remembered),
         /\ cursor' <= old_top' /\ new_top' <= old_top' /\ SetOf(remembered) \subseteq NewOld
         /\ \A r \in Roots : roots'[r] \in Moved
         /\ \A a \in YoungCells : fwd'[a] = Null
         /\ \A a \in YoungCells \cup Unslid' : \A f \in Fields : kid'[a][f] \in Moved
         /\ \A a \in Unslid' : fwd'[a] \in NewOld /\ fwd'[a] <= a
         /\ \A a, b \in Unslid' : a < b => fwd'[a] < fwd'[b]
         /\ \A a \in Unslid' : \A f \in Fields :
              kid'[a][f] \in YoungCells => fwd'[a] = a /\ a \in SetOf(remembered)
         /\ \A n \in NewOld :
              \/ \E a \in Unslid' : fwd'[a] = n
              \/ \A f \in Fields :
                    kid'[n][f] \in Moved /\ (kid'[n][f] \in YoungCells => n \in SetOf(remembered))
  PROVE  SlideInv'
<1>1. /\ cursor' <= old_top' /\ new_top' <= old_top' /\ SetOf(remembered') \subseteq NewOld'
      /\ \A a \in YoungCells' : fwd'[a] = Null
      /\ \A r \in Roots : roots'[r] \in YoungCells' \cup NewOld' \cup {Null}
  BY DEF Moved
<1>2. /\ \A a \in YoungCells' \cup Unslid' : \A f \in Fields :
           kid'[a][f] \in YoungCells' \cup NewOld' \cup {Null}
      /\ \A a \in Unslid' : fwd'[a] \in NewOld' /\ fwd'[a] <= a
  BY DEF Moved
<1>3. \A a \in Unslid' : \A f \in Fields :
        kid'[a][f] \in YoungCells' => fwd'[a] = a /\ a \in SetOf(remembered')
  OBVIOUS
<1>4. \A n \in NewOld' :
        \/ \E a \in Unslid' : fwd'[a] = n
        \/ \A f \in Fields :
             /\ kid'[n][f] \in YoungCells' \cup NewOld' \cup {Null}
             /\ kid'[n][f] \in YoungCells' => n \in SetOf(remembered')
  BY DEF Moved
<1> QED BY <1>1, <1>2, <1>3, <1>4 DEF SlideInv

LEMMA NextCell ==
  ASSUME NEW a \in Int, NEW c \in Int
  PROVE  /\ a >= c + 1 <=> (a >= c /\ a # c)
         /\ (a >= c /\ a # c) => a > c
OBVIOUS

LEMMA UpdatePointersSafe ==
  ASSUME TypeOK, Steady, Marked, mark_work = {}, Packed, UpdatePointers, ~stale'
  PROVE  SlideInv'
<1> DEFINE Kept == OldCells \cap mark
<1>0. /\ phase = "forward" /\ cursor = old_top /\ cursor' = 0
      /\ roots' = [r \in Roots |-> forward_old(roots[r])]
      /\ kid' = [a \in Addr |->
                   IF a \in YoungCells \cup Kept
                   THEN [f \in Fields |-> forward_old(kid[a][f])] ELSE kid[a]]
      /\ ~ \E i \in 1 .. Len(remembered) :
             forward_old(remembered[i]) # remembered[i] \/ remembered[i] \notin mark
      /\ UNCHANGED <<from, top, old_top, fwd, mark, remembered, new_top>>
  BY DEF UpdatePointers, space, remset
<1>1. YoungCells' = YoungCells /\ OldCells' = OldCells /\ NewOld' = NewOld
  BY <1>0 DEF YoungCells, OldCells, NewOld
<1>2. Unslid' = Kept
  <2>1. \A a \in OldCells : a >= OldBase + cursor'
    BY <1>0, MajorTypes DEF OldCells
  <2> QED BY <1>0, <1>1, <2>1 DEF Unslid
<1>3. \A a \in Kept : fwd[a] \in NewOld /\ fwd[a] <= a
  <2>1. \A a \in OldCells : a < OldBase + cursor
    BY <1>0, MajorTypes DEF OldCells
  <2> QED BY <2>1 DEF Packed, NewOld
<1>4. NewOld \subseteq OldCells /\ new_top <= old_top /\ NewOld \cap YoungCells = {}
  <2>1. new_top <= old_top
    BY <1>0, MajorTypes
  <2>2. NewOld \subseteq OldCells
    BY <2>1, MajorTypes, RangeGrows DEF NewOld, OldCells
  <2> QED BY <2>1, <2>2, Geometry
<1>5. \A r \in Roots : roots'[r] \in Moved
  <2> TAKE r \in Roots
  <2>1. roots[r] \in Live \cup {Null} /\ (roots[r] \in OldCells => roots[r] \in mark)
    BY DEF Steady, Closed, Marked
  <2>2. forward_old(roots[r]) \in Moved
    BY <1>0, <2>1, ForwardOld DEF Live, Moved
  <2> QED BY <1>0, <2>2
<1>6. ASSUME NEW a \in YoungCells \cup Kept, NEW f \in Fields
      PROVE  /\ kid'[a][f] \in Moved
             /\ kid'[a][f] \in YoungCells => kid[a][f] \in YoungCells
  <2>1. a \in Live /\ a \in Addr /\ kid[a][f] \in Live \cup {Null}
    BY MajorTypes DEF Live, Steady, Closed
  <2>2. kid'[a][f] = forward_old(kid[a][f])
    BY <1>0, <2>1
  <2>3. kid[a][f] \in OldCells => kid[a][f] \in mark
    BY DEF Marked, OldChildren
  <2> QED BY <1>0, <1>4, <2>1, <2>2, <2>3, ForwardOld DEF Live, Moved
<1>7. \A a \in SetOf(remembered) : a \in Kept /\ fwd[a] = a
  <2> TAKE a \in SetOf(remembered)
  <2>1. a \in OldCells
    BY DEF Steady
  <2>2. PICK i \in DOMAIN remembered : a = remembered[i]
    BY DEF SetOf
  <2>3. i \in 1 .. Len(remembered)
    BY <2>2, LenProperties DEF TypeOK, RemsetType
  <2>4. forward_old(a) = a /\ a \in mark
    BY <1>0, <2>2, <2>3
  <2> QED BY <1>0, <2>1, <2>4, ForwardOld DEF Live
<1>8. SetOf(remembered') = SetOf(remembered) /\ SetOf(remembered) \subseteq NewOld
  BY <1>0, <1>3, <1>7
<1>9. \A a \in Kept : \A f \in Fields :
        kid'[a][f] \in YoungCells => fwd[a] = a /\ a \in SetOf(remembered)
  BY <1>6, <1>7 DEF Steady, OldToYoungRemembered
<1>10. \A a, b \in Kept : a < b => fwd[a] < fwd[b]
  <2>1. \A a \in OldCells : a < OldBase + cursor
    BY <1>0, MajorTypes DEF OldCells
  <2> QED BY <2>1 DEF Packed
<1>11. \A m \in NewOld : \E a \in Kept : fwd[a] = m
  BY DEF Packed, NewOld
<1>12. \A a \in YoungCells : fwd'[a] = Null
  BY <1>0 DEF Steady
<1>13. cursor' <= old_top' /\ new_top' <= old_top'
  BY <1>0, <1>4, MajorTypes
<1>14. /\ \A a \in Kept : fwd'[a] \in NewOld /\ fwd'[a] <= a
       /\ \A a, b \in Kept : a < b => fwd'[a] < fwd'[b]
       /\ \A a \in Kept : \A f \in Fields :
            kid'[a][f] \in YoungCells => fwd'[a] = a /\ a \in SetOf(remembered)
       /\ \A m \in NewOld : \E a \in Kept : fwd'[a] = m
       /\ \A a \in YoungCells \cup Kept : \A f \in Fields : kid'[a][f] \in Moved
  BY <1>0, <1>3, <1>6, <1>9, <1>10, <1>11
<1> HIDE DEF Kept
<1>15. /\ \A a \in Unslid' : fwd'[a] \in NewOld /\ fwd'[a] <= a
       /\ \A a, b \in Unslid' : a < b => fwd'[a] < fwd'[b]
       /\ \A a \in Unslid' : \A f \in Fields :
            kid'[a][f] \in YoungCells => fwd'[a] = a /\ a \in SetOf(remembered)
       /\ \A m \in NewOld : \E a \in Unslid' : fwd'[a] = m
       /\ \A a \in YoungCells \cup Unslid' : \A f \in Fields : kid'[a][f] \in Moved
  BY <1>2, <1>14, Zenon
<1> QED BY <1>1, <1>5, <1>8, <1>12, <1>13, <1>15, SlideInvNext

LEMMA SlideSafe ==
  ASSUME TypeOK, SlideInv, Slide
  PROVE  SlideInv'
<1> DEFINE o == OldBase + cursor
           t == fwd[o]
<1>0. /\ cursor < old_top /\ cursor' = cursor + 1
      /\ IF o \in mark
         THEN /\ kid' = [kid EXCEPT ![t] = kid[o]] /\ fwd' = [fwd EXCEPT ![t] = t]
              /\ mark' = mark \cup {t}
         ELSE UNCHANGED <<kid, fwd, mark>>
      /\ UNCHANGED <<from, top, old_top, roots, remembered, new_top>>
  BY DEF Slide, space, object, remset
<1>1. /\ YoungCells' = YoungCells /\ OldCells' = OldCells /\ NewOld' = NewOld
      /\ SetOf(remembered') = SetOf(remembered)
  BY <1>0 DEF YoungCells, OldCells, NewOld
<1>2. o \in OldCells /\ cursor' <= old_top'
  BY <1>0, MajorTypes DEF OldCells
<1>3. NewOld \subseteq OldCells /\ NewOld \cap YoungCells = {}
  <2>1. NewOld \subseteq OldCells
    BY MajorTypes, RangeGrows DEF NewOld, OldCells, SlideInv
  <2> QED BY <2>1, Geometry
<1>6. /\ o \in Int /\ OldBase + cursor' = o + 1
      /\ \A a \in OldCells : a \in Int
  BY <1>0, MajorTypes DEF OldCells
<1>4. CASE o \notin mark
  <2>1. Unslid' = Unslid
    <3>1. \A a \in OldCells \cap mark : a >= o + 1 <=> a >= o
      BY <1>4, <1>6, NextCell
    <3> QED BY <1>0, <1>1, <1>4, <1>6, <3>1 DEF Unslid
  <2>2. UNCHANGED <<kid, fwd, roots, new_top, old_top>>
    BY <1>0, <1>4
  <2> QED BY <1>1, <1>2, <2>1, <2>2 DEF SlideInv
<1>5. CASE o \in mark
  <2>1. o \in Unslid /\ t \in NewOld /\ t <= o
    BY <1>2, <1>5, MajorTypes DEF Unslid, SlideInv
  <2>2. Unslid' = Unslid \ {o}
    <3>1. \A a \in OldCells : a >= o + 1 <=> (a >= o /\ a # o)
      BY <1>6, NextCell
    <3>2. t \in Int /\ ~(t >= o + 1)
      BY <1>3, <1>6, <2>1
    <3> QED BY <1>0, <1>1, <1>5, <1>6, <3>1, <3>2 DEF Unslid
  <2>3. \A a \in Unslid' : a \in Unslid /\ a # o /\ a # t
    <3>1. \A a \in Unslid : a \in Int /\ a >= o
      BY <1>6 DEF Unslid
    <3>2. \A a \in Unslid : a # o => a > o
      BY <1>6, <3>1, NextCell
    <3>3. t \in Int
      BY <1>3, <1>6, <2>1
    <3> QED BY <1>6, <2>1, <2>2, <3>1, <3>2, <3>3
  <2>4. t \in Addr /\ t \notin YoungCells /\ o \in Addr
    BY <1>2, <1>3, <2>1, MajorTypes
  <2>5. /\ \A a \in Addr : a # t => kid'[a] = kid[a] /\ fwd'[a] = fwd[a]
        /\ kid'[t] = kid[o]
    <3> HIDE DEF t, o
    <3> QED BY <1>0, <1>5, <2>4, MajorTypes
  <2>6. \A a \in YoungCells \cup Unslid' : a \in Addr /\ kid'[a] = kid[a] /\ fwd'[a] = fwd[a]
    <3>1. \A a \in YoungCells \cup Unslid' : a \in Addr /\ a # t
      BY <2>3, <2>4, MajorTypes DEF Unslid
    <3> QED BY <2>5, <3>1
  <2> HIDE DEF t, o
  <2>7. ASSUME NEW m \in NewOld
        PROVE  \/ \E a \in Unslid' : fwd'[a] = m
               \/ \A f \in Fields :
                    kid'[m][f] \in Moved /\ (kid'[m][f] \in YoungCells => m \in SetOf(remembered))
    <3>1. CASE m = t
      <4>1. \A f \in Fields :
              /\ kid[o][f] \in Moved
              /\ kid[o][f] \in YoungCells => t = o /\ o \in SetOf(remembered)
        BY <2>1 DEF SlideInv, t, Moved
      <4> QED BY <2>5, <3>1, <4>1
    <3>2. CASE m # t /\ \E a \in Unslid : fwd[a] = m
      <4>1. PICK a \in Unslid : fwd[a] = m
        BY <3>2
      <4>2. a # o
        BY <3>2, <4>1 DEF t
      <4> QED BY <2>2, <2>6, <4>1, <4>2
    <3>3. CASE m # t /\ ~ \E a \in Unslid : fwd[a] = m
      <4>1. m \in Addr
        BY <1>3, MajorTypes
      <4> QED BY <2>5, <3>3, <4>1 DEF SlideInv, Moved
    <3> QED BY <3>1, <3>2, <3>3
  <2>8. /\ \A r \in Roots : roots'[r] \in Moved
        /\ \A a \in YoungCells : fwd'[a] = Null
        /\ \A a \in YoungCells \cup Unslid' : \A f \in Fields : kid'[a][f] \in Moved
        /\ \A a \in Unslid' : fwd'[a] \in NewOld /\ fwd'[a] <= a
        /\ \A a, b \in Unslid' : a < b => fwd'[a] < fwd'[b]
        /\ \A a \in Unslid' : \A f \in Fields :
             kid'[a][f] \in YoungCells => fwd'[a] = a /\ a \in SetOf(remembered)
    BY <1>0, <2>3, <2>6 DEF SlideInv, Moved
  <2>9. new_top' <= old_top' /\ SetOf(remembered) \subseteq NewOld
    BY <1>0 DEF SlideInv
  <2> QED BY <1>1, <1>2, <2>7, <2>8, <2>9, SlideInvNext
<1> QED BY <1>4, <1>5

LEMMA FinishMajorSafe ==
  ASSUME TypeOK, SlideInv, FinishMajor
  PROVE  Steady'
<1>0. /\ cursor = old_top /\ old_top' = new_top
      /\ fwd' = [a \in Addr |-> IF is_old(a) THEN Null ELSE fwd[a]]
      /\ kid' = [a \in Addr |-> IF a >= OldBase + new_top THEN Blank ELSE kid[a]]
      /\ UNCHANGED <<from, top, roots, remembered>>
  BY DEF FinishMajor, remset
<1>1. /\ YoungCells' = YoungCells /\ OldCells' = NewOld /\ Live' = YoungCells \cup NewOld
      /\ SetOf(remembered') = SetOf(remembered)
  BY <1>0 DEF YoungCells, OldCells, NewOld, Live
<1>2. Unslid = {}
  BY <1>0, MajorTypes DEF Unslid, OldCells
<1>3. \A a \in YoungCells \cup NewOld : a \in Addr /\ ~(a >= OldBase + new_top)
  BY MajorTypes DEF YoungCells, NewOld
<1>4. \A a \in YoungCells \cup NewOld : kid'[a] = kid[a]
  BY <1>0, <1>3
<1>5. \A a \in YoungCells : fwd'[a] = Null
  BY <1>0, <1>3 DEF SlideInv
<1>6. \A a \in YoungCells \cup NewOld : \A f \in Fields :
        kid[a][f] \in YoungCells \cup NewOld \cup {Null}
  BY <1>2 DEF SlideInv
<1>7. \A a \in NewOld : \A f \in Fields :
        kid[a][f] \in YoungCells => a \in SetOf(remembered)
  BY <1>2 DEF SlideInv
<1>8. Closed'
  BY <1>0, <1>1, <1>4, <1>6 DEF Closed, SlideInv
<1>9. OldToYoungRemembered'
  BY <1>1, <1>4, <1>7 DEF OldToYoungRemembered
<1>10. SetOf(remembered') \subseteq OldCells'
  BY <1>1 DEF SlideInv
<1> QED BY <1>1, <1>5, <1>8, <1>9, <1>10 DEF Steady
-----------------------------------------------------------------------------
(***************************************************************************)
(* The invariant of every reachable state.                                 *)
(***************************************************************************)
\* The part of HeapInvariant that a sound state satisfies, phase by phase.
PhaseInv ==
  /\ phase \in {"run", "resume", "major", "mark", "forward"} => Steady
  /\ phase \in MinorPhases => MinorInv
  /\ phase = "mark" => Marked /\ \A a \in OldCells : fwd[a] = Null
  /\ phase = "forward" => mark_work = {} /\ Marked /\ Packed
  /\ phase = "slide" => SlideInv
  /\ phase \notin MinorPhases =>
       slot = 1 /\ ~young_child /\ rem = <<>> /\ remembered_next = <<>>
  /\ phase \in MinorPhases => remembered = <<>>

\* A heap that has run out or lost a remembered entry stays so.
LEMMA FlagsStep ==
  ASSUME over_cap \in BOOLEAN, stale \in BOOLEAN, [Next]_vars
  PROVE  \E X, Y \in BOOLEAN : over_cap' = (over_cap \/ X) /\ stale' = (stale \/ Y)
<1> USE DEF space, object, remset, minor, major
<1>0. over_cap = (over_cap \/ FALSE) /\ stale = (stale \/ FALSE)
  OBVIOUS
<1>1. CASE Mutator
  <2>1. UNCHANGED <<over_cap, stale>>
    BY <1>1 DEF Mutator, MoveRoot, LoadField, StoreField, Alloc, AllocCollects
  <2> QED BY <1>0, <2>1
<1>2. CASE TraceRemembered \/ ScanOld
  <2>1. UNCHANGED stale /\ \E X \in BOOLEAN : over_cap' = (over_cap \/ X)
    BY <1>2, Zenon DEF TraceRemembered, ScanOld, TraceFieldFromOld, PromoteSpills
  <2> QED BY <1>0, <2>1
<1>3. CASE ForwardRoot \/ ScanYoung
  <2>1. UNCHANGED stale /\ \E X \in BOOLEAN : over_cap' = (over_cap \/ X)
    BY <1>3, Zenon DEF ForwardRoot, ScanYoung, TraceField, CopyFails
  <2> QED BY <1>0, <2>1
<1>4. CASE RememberedDone \/ YoungDrained \/ OldDrainedYoungNot \/ FinishMinor
  <2>1. UNCHANGED <<over_cap, stale>>
    BY <1>4 DEF RememberedDone, YoungDrained, OldDrainedYoungNot, FinishMinor
  <2> QED BY <1>0, <2>1
<1>5. CASE MarkRoots \/ MarkChildren \/ MarkDone \/ ComputeForward \/ Slide \/ FinishMajor
  <2>1. UNCHANGED <<over_cap, stale>>
    BY <1>5 DEF MarkRoots, MarkChildren, MarkDone, ComputeForward, Slide, FinishMajor
  <2> QED BY <1>0, <2>1
<1>6. CASE UpdatePointers
  <2> DEFINE Y == \E i \in 1 .. Len(remembered) :
                    forward_old(remembered[i]) # remembered[i] \/ remembered[i] \notin mark
  <2>1. UNCHANGED over_cap /\ stale' = (stale \/ Y) /\ Y \in BOOLEAN
    BY <1>6 DEF UpdatePointers
  <2> QED BY <1>0, <2>1
<1>7. CASE Resume
  <2>1. UNCHANGED stale /\ (over_cap' = over_cap \/ over_cap' = TRUE)
    BY <1>7 DEF Resume
  <2> QED BY <1>0, <2>1
<1>8. CASE UNCHANGED vars
  <2>1. UNCHANGED <<over_cap, stale>>
    BY <1>8 DEF vars
  <2> QED BY <1>0, <2>1
<1> QED BY <1>1, <1>2, <1>3, <1>4, <1>5, <1>6, <1>7, <1>8
    DEF Next, Collector, Minor, Major

LEMMA SoundBefore == TypeOK /\ [Next]_vars /\ Sound' => Sound
BY FlagsStep DEF TypeOK, ControlType, Sound, NotStale

LEMMA HeapInit == Init => HeapInvariant
<1> SUFFICES ASSUME Init PROVE HeapInvariant
  OBVIOUS
<1>1. YoungCells = {} /\ OldCells = {} /\ Live = {} /\ SetOf(remembered) = {}
  BY HeapAssumption DEF Init, YoungCells, OldCells, Live, SetOf
<1>2. Steady
  BY <1>1 DEF Init, Steady, Closed, OldToYoungRemembered
<1> QED BY <1>2 DEF Init, HeapInvariant, MinorPhases

LEMMA MutatorStep ==
  ASSUME TypeOK, PhaseInv, Mutator
  PROVE  PhaseInv'
<1> USE DEF space, object, remset, minor, major, MinorPhases
<1>1. ASSUME NEW i \in Roots, NEW v \in {roots[j] : j \in Roots} \cup {Null}, MoveRoot(i, v)
      PROVE  PhaseInv'
  <2>1. Running /\ Steady
    BY <1>1 DEF MoveRoot, Running, PhaseInv
  <2>2. v \in Live \cup {Null}
    BY <2>1 DEF Steady, Closed
  <2>3. Steady'
    BY <1>1, <2>1, <2>2, ReadSafe DEF MoveRoot
  <2> QED BY <1>1, <2>1, <2>3 DEF MoveRoot, Running, PhaseInv
<1>2. ASSUME NEW i \in Roots, NEW j \in Roots, NEW f \in Fields, LoadField(i, j, f)
      PROVE  PhaseInv'
  <2>1. Running /\ Steady
    BY <1>2 DEF LoadField, Running, PhaseInv
  <2>2. kid[roots[j]][f] \in Live \cup {Null}
    BY <1>2, <2>1 DEF LoadField, Steady, Closed
  <2>3. Steady'
    BY <1>2, <2>1, <2>2, ReadSafe DEF LoadField
  <2> QED BY <1>2, <2>1, <2>3 DEF LoadField, Running, PhaseInv
<1>3. ASSUME NEW i \in Roots, NEW v \in {roots[j] : j \in Roots} \cup {Null},
             NEW f \in Fields, StoreField(i, f, v)
      PROVE  PhaseInv'
  <2>1. Running /\ Steady
    BY <1>3 DEF StoreField, Running, PhaseInv
  <2>2. Steady'
    BY <1>3, <2>1, StoreFieldSafe
  <2> QED BY <1>3, <2>1, <2>2 DEF StoreField, Running, PhaseInv
<1>4. ASSUME NEW i \in Roots, Alloc(i) PROVE PhaseInv'
  <2>1. Running /\ Steady
    BY <1>4 DEF Alloc, Running, PhaseInv
  <2>2. Steady'
    BY <1>4, <2>1, PlaceSafe DEF Alloc
  <2> QED BY <1>4, <2>1, <2>2 DEF Alloc, Running, PhaseInv
<1>5. ASSUME NEW i \in Roots, AllocCollects(i) PROVE PhaseInv'
  <2>1. Running /\ Steady /\ slot = 1
    BY <1>5 DEF AllocCollects, Running, PhaseInv
  <2>2. MinorInv' /\ remembered' = <<>>
    BY <1>5, <2>1, AllocCollectsSafe
  <2> QED BY <1>5, <2>2 DEF AllocCollects, PhaseInv
<1> QED BY <1>1, <1>2, <1>3, <1>4, <1>5 DEF Mutator

LEMMA MinorStep ==
  ASSUME TypeOK, TypeOK', PhaseInv, Minor, Sound'
  PROVE  PhaseInv'
<1> USE DEF space, object, remset, minor, major, MinorPhases
<1>0. over_cap' = FALSE
  BY DEF Sound, TypeOK, ControlType
<1>1. CASE TraceRemembered
  <2>1. phase = "remset" /\ MinorInv /\ remembered = <<>>
    BY <1>1 DEF TraceRemembered, PhaseInv
  <2>2. ~PromoteSpills(kid[Head(rem)][slot])
    BY <1>0, <1>1 DEF TraceRemembered, TraceFieldFromOld
  <2>3. MinorInv'
    BY <1>1, <2>1, <2>2, TraceRememberedSafe
  <2> QED BY <1>1, <2>1, <2>3 DEF TraceRemembered, PhaseInv
<1>2. CASE RememberedDone \/ YoungDrained \/ OldDrainedYoungNot
  <2>1. phase \in MinorPhases /\ phase' \in MinorPhases /\ remembered' = remembered
    BY <1>2 DEF RememberedDone, YoungDrained, OldDrainedYoungNot
  <2>2. MinorInv'
    BY <1>2, <2>1, MinorPhaseSafe DEF PhaseInv
  <2> QED BY <2>1, <2>2 DEF PhaseInv
<1>3. CASE ForwardRoot
  <2>1. phase = "roots" /\ MinorInv /\ remembered = <<>>
    BY <1>3 DEF ForwardRoot, PhaseInv
  <2>2. ~CopyFails(roots[slot])
    BY <1>0, <1>3 DEF ForwardRoot
  <2>3. MinorInv'
    BY <1>3, <2>1, <2>2, ForwardRootSafe
  <2> QED BY <1>3, <2>1, <2>3 DEF ForwardRoot, PhaseInv
<1>4. CASE ScanYoung
  <2>1. phase = "young" /\ MinorInv /\ remembered = <<>>
    BY <1>4 DEF ScanYoung, PhaseInv
  <2>2. ~CopyFails(kid[to + yscan][slot])
    BY <1>0, <1>4 DEF ScanYoung, TraceField
  <2>3. MinorInv'
    BY <1>4, <2>1, <2>2, ScanYoungSafe
  <2> QED BY <1>4, <2>1, <2>3 DEF ScanYoung, PhaseInv
<1>5. CASE ScanOld
  <2>1. phase = "old" /\ MinorInv /\ remembered = <<>>
    BY <1>5 DEF ScanOld, PhaseInv
  <2>2. ~PromoteSpills(kid[OldBase + old_scan][slot])
    BY <1>0, <1>5 DEF ScanOld, TraceFieldFromOld
  <2>3. MinorInv'
    BY <1>5, <2>1, <2>2, ScanOldSafe
  <2> QED BY <1>5, <2>1, <2>3 DEF ScanOld, PhaseInv
<1>6. CASE FinishMinor
  <2>1. phase = "old" /\ MinorInv /\ remembered = <<>>
    BY <1>6 DEF FinishMinor, PhaseInv
  <2>2. Steady' /\ slot' = 1 /\ ~young_child' /\ rem' = <<>>
    BY <1>6, <2>1, FinishMinorSafe
  <2>3. phase' \in {"major", "resume"} /\ remembered_next' = <<>>
    BY <1>6, <2>1 DEF FinishMinor
  <2> QED BY <2>2, <2>3 DEF PhaseInv
<1> QED BY <1>1, <1>2, <1>3, <1>4, <1>5, <1>6 DEF Minor

LEMMA MajorStep ==
  ASSUME TypeOK, PhaseInv, Major \/ Resume, Sound'
  PROVE  PhaseInv'
<1> USE DEF space, object, remset, minor, major, MinorPhases
<1>0. over_cap' # TRUE /\ ~stale'
  BY DEF Sound, NotStale
<1>1. CASE MarkRoots
  <2>1. phase = "major" /\ Steady
    BY <1>1 DEF MarkRoots, PhaseInv
  <2>2. Steady' /\ Marked' /\ \A a \in OldCells' : fwd'[a] = Null
    BY <1>1, <2>1, MarkRootsSafe
  <2> QED BY <1>1, <2>1, <2>2 DEF MarkRoots, PhaseInv
<1>2. CASE MarkChildren
  <2>1. phase = "mark" /\ Steady /\ Marked
    BY <1>2 DEF MarkChildren, PhaseInv
  <2>2. Steady' /\ Marked' /\ UNCHANGED <<fwd, OldCells>>
    BY <1>2, <2>1, MarkChildrenSafe
  <2> QED BY <1>2, <2>1, <2>2 DEF MarkChildren, PhaseInv
<1>3. CASE MarkDone
  <2>1. phase = "mark" /\ Steady /\ Marked /\ \A a \in OldCells : fwd[a] = Null
    BY <1>3 DEF MarkDone, PhaseInv
  <2>2. Steady' /\ Marked' /\ mark_work' = {} /\ Packed'
    BY <1>3, <2>1, MarkDoneSafe
  <2> QED BY <1>3, <2>1, <2>2 DEF MarkDone, PhaseInv
<1>4. CASE ComputeForward
  <2>1. phase = "forward" /\ Steady /\ Marked /\ Packed /\ mark_work = {}
    BY <1>4 DEF ComputeForward, PhaseInv
  <2>2. Steady' /\ Marked' /\ UNCHANGED mark_work /\ Packed'
    BY <1>4, <2>1, ComputeForwardSafe
  <2> QED BY <1>4, <2>1, <2>2 DEF ComputeForward, PhaseInv
<1>5. CASE UpdatePointers
  <2>1. phase = "forward" /\ Steady /\ Marked /\ Packed /\ mark_work = {}
    BY <1>5 DEF UpdatePointers, PhaseInv
  <2>2. SlideInv'
    BY <1>0, <1>5, <2>1, UpdatePointersSafe
  <2> QED BY <1>5, <2>1, <2>2 DEF UpdatePointers, PhaseInv
<1>6. CASE Slide
  <2>1. phase = "slide" /\ SlideInv
    BY <1>6 DEF Slide, PhaseInv
  <2>2. SlideInv'
    BY <1>6, <2>1, SlideSafe
  <2> QED BY <1>6, <2>1, <2>2 DEF Slide, PhaseInv
<1>7. CASE FinishMajor
  <2>1. phase = "slide" /\ SlideInv
    BY <1>7 DEF FinishMajor, PhaseInv
  <2>2. Steady'
    BY <1>7, <2>1, FinishMajorSafe
  <2> QED BY <1>7, <2>1, <2>2 DEF FinishMajor, PhaseInv
<1>8. CASE Resume
  <2>1. phase = "resume" /\ Steady /\ phase' = "run"
    BY <1>8 DEF Resume, PhaseInv
  <2>2. top < Semi /\ Place(pending)
    BY <1>0, <1>8 DEF Resume
  <2>3. pending \in Roots
    BY DEF TypeOK, ControlType
  <2>4. Steady'
    BY <1>8, <2>1, <2>2, <2>3, PlaceSafe DEF Resume
  <2> QED BY <1>8, <2>1, <2>4 DEF Resume, PhaseInv
<1> QED BY <1>1, <1>2, <1>3, <1>4, <1>5, <1>6, <1>7, <1>8 DEF Major
LEMMA InvStep == IInv /\ [Next]_vars => IInv'
<1> SUFFICES ASSUME IInv, [Next]_vars PROVE IInv'
  OBVIOUS
<1>1. TypeOK /\ TypeOK'
  BY TypeStep DEF IInv
<1>2. ASSUME Sound' PROVE PhaseInv'
  <2>1. PhaseInv
    BY <1>1, <1>2, SoundBefore DEF IInv, HeapInvariant, PhaseInv
  <2>2. CASE Mutator
    BY <1>1, <2>1, <2>2, MutatorStep
  <2>3. CASE Minor
    BY <1>1, <1>2, <2>1, <2>3, MinorStep
  <2>4. CASE Major \/ Resume
    BY <1>1, <1>2, <2>1, <2>4, MajorStep
  <2>5. CASE UNCHANGED vars
    <3>1. YoungCells' = YoungCells /\ OldCells' = OldCells /\ ToCells' = ToCells /\ to' = to
      BY <2>5 DEF vars, space, YoungCells, OldCells, ToCells, to
    <3> QED BY <2>1, <2>5, <3>1
      DEF vars, space, object, remset, minor, major, PhaseInv, Steady, Closed, Live,
          OldToYoungRemembered, MinorInv, FromInv, ToInv, OldInv, RootInv, Source, Done,
          OldOrNull, Marked, OldChildren, Packed, SlideInv, Unslid, NewOld
  <2> QED BY <2>2, <2>3, <2>4, <2>5 DEF Next, Collector
<1>3. HeapInvariant'
  BY <1>2 DEF HeapInvariant, PhaseInv
<1> QED BY <1>1, <1>3 DEF IInv

\* The inductive invariant holds in every reachable state, for every arena size,
\* number of roots and of fields.
THEOREM Invariance == Spec => []IInv
<1>1. Init => IInv
  BY TypeInit, HeapInit DEF IInv
<1> QED BY <1>1, InvStep, PTL DEF Spec

\* As long as the heap has not run out and no compaction has lost a remembered
\* entry, no register, handle or object holds an address its object was moved from.
THEOREM NoPointerDangles == Spec => []NoDangling
<1>1. IInv => NoDangling
  BY DEF IInv, HeapInvariant, NoDangling, Steady
<1> QED BY <1>1, Invariance, PTL

\* Under the same proviso every old-to-young pointer is in the remembered set
\* whenever the program runs: the barrier and re-remembering miss none.
THEOREM RememberedSetComplete == Spec => []RememberedComplete
<1>1. IInv => RememberedComplete
  BY DEF IInv, HeapInvariant, RememberedComplete, Steady
<1> QED BY <1>1, Invariance, PTL
-----------------------------------------------------------------------------
(***************************************************************************)
(* To-space is never full when copy() needs it: every cell it fills takes  *)
(* one object out of those still to be evacuated.                          *)
(***************************************************************************)
Unevacuated == {a \in YoungCells : fwd[a] = Null}
ToSpaceRoom == to_top + Cardinality(Unevacuated) <= Semi

LEMMA UnevacuatedFinite ==
  ASSUME TypeOK
  PROVE  /\ IsFiniteSet(Unevacuated) /\ Cardinality(Unevacuated) \in Nat
         /\ Cardinality(Unevacuated) <= top
<1>1. from \in Int /\ from + top - 1 \in Int /\ top \in Nat
  BY MinorTypes
<1>2. IsFiniteSet(YoungCells) /\ Cardinality(YoungCells) = top
  BY <1>1, FS_Interval DEF YoungCells
<1>3. Unevacuated \subseteq YoungCells
  BY DEF Unevacuated
<1>4. IsFiniteSet(Unevacuated) /\ Cardinality(Unevacuated) <= top
  BY <1>2, <1>3, FS_Subset
<1> QED BY <1>4, FS_CardinalityType

LEMMA EvacuationCounts ==
  ASSUME TypeOK, UNCHANGED <<from, top>>, ToSpaceRoom,
         NEW p \in Source, NEW t, NeedsCopy(p) => FreeCell(p, t), Evacuate(p, t)
  PROVE  ToSpaceRoom'
<1>0. YoungCells' = YoungCells
  BY DEF YoungCells
<1>1. CASE ~NeedsCopy(p)
  <2>1. UNCHANGED <<fwd, to_top>>
    BY <1>1 DEF Evacuate, Evacuates
  <2>2. Unevacuated' = Unevacuated
    BY <1>0, <2>1 DEF Unevacuated
  <2> QED BY <2>1, <2>2 DEF ToSpaceRoom
<1>2. CASE NeedsCopy(p)
  <2>1. p \in YoungCells /\ p \in Addr /\ fwd[p] = Null
    BY <1>2, Geometry DEF NeedsCopy, Source
  <2>2. t \in Addr /\ t \notin YoungCells /\ FreeCell(p, t)
    BY <1>2, MinorTypes DEF FreeCell, YoungCells, to
  <2>3. Evacuates(p, t)
    BY <1>2, <2>1, <2>2 DEF Evacuates
  <2>4. fwd' = [fwd EXCEPT ![t] = Null, ![p] = t] /\ to_top' \in {to_top, to_top + 1}
    BY <2>3 DEF Evacuate
  <2>5. \A a \in YoungCells : fwd'[a] = IF a = p THEN t ELSE fwd[a]
    BY <2>1, <2>2, <2>4, Geometry DEF TypeOK, ObjectType
  <2>6. t # Null
    BY <2>2, MinorTypes
  <2>7. Unevacuated' = Unevacuated \ {p} /\ p \in Unevacuated
    BY <1>0, <2>1, <2>5, <2>6 DEF Unevacuated
  <2>8. Cardinality(Unevacuated') = Cardinality(Unevacuated) - 1
    BY <2>7, UnevacuatedFinite, FS_RemoveElement
  <2> QED BY <2>4, <2>8, UnevacuatedFinite, MinorTypes DEF ToSpaceRoom
<1> QED BY <1>1, <1>2

\* What each tracing step forwards has not been forwarded before.
LEMMA ForwardsSource ==
  ASSUME TypeOK, MinorInv
  PROVE  /\ phase = "remset" /\ rem # <<>> => kid[Head(rem)][slot] \in Source
         /\ phase = "roots" => roots[slot] \in Source
         /\ phase = "young" /\ yscan < to_top => kid[to + yscan][slot] \in Source
         /\ phase = "old" /\ old_scan < old_top => kid[OldBase + old_scan][slot] \in Source
<1>1. ASSUME phase = "remset", rem # <<>> PROVE kid[Head(rem)][slot] \in Source
  <2>1. Head(rem) = rem[1] /\ Head(rem) \in SetOf(rem)
    BY <1>1, SetOfTail DEF TypeOK, RemsetType
  <2>2. Head(rem) \in OldCells /\ Head(rem) < OldBase + old_scan /\ slot \in Fields
    BY <1>1, <2>1, MinorTypes DEF MinorInv, SetOf
  <2> QED BY <1>1, <2>2 DEF MinorInv, OldInv, OldOrNull, Source
<1>2. ASSUME phase = "roots" PROVE roots[slot] \in Source
  BY <1>2, MinorTypes DEF MinorInv, RootInv
<1>3. ASSUME phase = "young", yscan < to_top PROVE kid[to + yscan][slot] \in Source
  <2>1. to + yscan \in ToCells /\ slot \in Fields
    BY <1>3, MinorTypes DEF ToCells
  <2> QED BY <1>3, <2>1, MinorTypes DEF MinorInv, ToInv
<1>4. ASSUME phase = "old", old_scan < old_top PROVE kid[OldBase + old_scan][slot] \in Source
  <2>1. OldBase + old_scan \in OldCells /\ slot \in Fields
    BY <1>4, MinorTypes DEF OldCells
  <2> QED BY <1>4, <2>1, MinorTypes DEF MinorInv, OldInv
<1> QED BY <1>1, <1>2, <1>3, <1>4

LEMMA RoomStep == IInv /\ ToSpaceSuffices /\ [Next]_vars => ToSpaceSuffices'
<1> SUFFICES ASSUME IInv, ToSpaceSuffices, [Next]_vars, Sound', phase' \in MinorPhases
             PROVE  ToSpaceRoom'
  BY DEF ToSpaceSuffices, ToSpaceRoom, Unevacuated
<1> USE DEF space, object, remset, minor, major, MinorPhases
<1>0. TypeOK /\ Sound /\ over_cap' # TRUE
  BY SoundBefore DEF IInv, Sound
<1>1. phase \in MinorPhases => ToSpaceRoom /\ MinorInv
  BY <1>0 DEF ToSpaceSuffices, ToSpaceRoom, Unevacuated, IInv, HeapInvariant
<1>2. ASSUME NEW i \in Roots, AllocCollects(i) PROVE ToSpaceRoom'
  <2>1. to_top' = 0 /\ top = Semi /\ UNCHANGED <<from, top, fwd>>
    BY <1>2 DEF AllocCollects
  <2>2. Unevacuated' = Unevacuated
    BY <2>1 DEF Unevacuated, YoungCells
  <2> QED BY <1>0, <2>1, <2>2, UnevacuatedFinite DEF ToSpaceRoom
<1>3. CASE TraceRemembered
  BY <1>0, <1>1, <1>3, ForwardsSource, PromoteIntoFree, EvacuationCounts
  DEF TraceRemembered, TraceFieldFromOld
<1>4. CASE ForwardRoot
  BY <1>0, <1>1, <1>4, ForwardsSource, CopyIntoFree, EvacuationCounts DEF ForwardRoot
<1>5. CASE ScanYoung
  BY <1>0, <1>1, <1>5, ForwardsSource, CopyIntoFree, EvacuationCounts DEF ScanYoung, TraceField
<1>6. CASE ScanOld
  BY <1>0, <1>1, <1>6, ForwardsSource, PromoteIntoFree, EvacuationCounts
  DEF ScanOld, TraceFieldFromOld
<1>7. CASE RememberedDone \/ YoungDrained \/ OldDrainedYoungNot \/ UNCHANGED vars
  <2>1. phase \in MinorPhases /\ UNCHANGED <<from, top, to_top, fwd>>
    BY <1>7 DEF RememberedDone, YoungDrained, OldDrainedYoungNot, vars
  <2>2. Unevacuated' = Unevacuated
    BY <2>1 DEF Unevacuated, YoungCells
  <2> QED BY <1>1, <2>1, <2>2 DEF ToSpaceRoom
<1>8. ASSUME NEW i \in Roots, Alloc(i) PROVE FALSE
  BY <1>8 DEF Alloc, Running
<1>9. ASSUME NEW i \in Roots, NEW v \in {roots[j] : j \in Roots} \cup {Null}, MoveRoot(i, v)
      PROVE  FALSE
  BY <1>9 DEF MoveRoot, Running
<1>10. ASSUME NEW i \in Roots, NEW v \in {roots[j] : j \in Roots} \cup {Null},
              NEW f \in Fields, StoreField(i, f, v)
       PROVE  FALSE
  BY <1>10 DEF StoreField, Running
<1>11. ASSUME NEW i \in Roots, NEW j \in Roots, NEW f \in Fields, LoadField(i, j, f)
       PROVE  FALSE
  BY <1>11 DEF LoadField, Running
<1>12. ASSUME FinishMinor \/ Major \/ Resume PROVE FALSE
  BY <1>12 DEF FinishMinor, Major, Resume, MarkRoots, MarkChildren, MarkDone, ComputeForward,
               UpdatePointers, Slide, FinishMajor
<1> QED BY <1>2, <1>3, <1>4, <1>5, <1>6, <1>7, <1>8, <1>9, <1>10, <1>11, <1>12
    DEF Next, Mutator, Collector, Minor

\* copy() never finds the spare semispace full: it holds what was copied and has
\* room for every object that may still be.
THEOREM ToSpaceHasRoom == Spec => []ToSpaceSuffices
<1>1. Init => ToSpaceSuffices
  BY DEF Init, ToSpaceSuffices, MinorPhases
<1> QED BY <1>1, RoomStep, Invariance, PTL DEF Spec

-----------------------------------------------------------------------------
(***************************************************************************)
(* A compaction marks exactly what can be reached.                         *)
(***************************************************************************)
OldSeeds == OldCells \cap ({roots[r] : r \in Roots} \cup
                             UNION {{kid[y][f] : f \in Fields} : y \in YoungCells})
Wider(near) == near \cup UNION {OldChildren(o) : o \in near}

\* The recursion that OldReachable is defined by has a solution, so it holds.
LEMMA OldReachableDef ==
  \E N : /\ OldReachable = N[Semi] /\ N[0] = OldSeeds
         /\ \A k \in 0 .. Semi - 1 : N[k + 1] = Wider(N[k])
<1> DEFINE Solves(N, m) == N = [n \in 0 .. m |-> IF n = 0 THEN OldSeeds ELSE Wider(N[n - 1])]
           S == {m \in Nat : \E N : Solves(N, m)}
<1>1. 0 \in S
  <2>1. Solves([n \in 0 .. 0 |-> OldSeeds], 0)
    OBVIOUS
  <2> QED BY <2>1
<1>2. ASSUME NEW m \in Nat, m \in S PROVE m + 1 \in S
  <2>1. PICK N : Solves(N, m)
    BY <1>2
  <2> DEFINE Q == [n \in 0 .. m + 1 |-> IF n = 0 THEN OldSeeds ELSE Wider(N[n - 1])]
  <2>2. \A n \in 0 .. m : N[n] = Q[n]
    BY <2>1
  <2>3. \A n \in 0 .. m + 1 : n # 0 => n - 1 \in 0 .. m
    OBVIOUS
  <2>4. \A n \in 0 .. m + 1 : n # 0 => Wider(N[n - 1]) = Wider(Q[n - 1])
    BY <2>2, <2>3
  <2>5. Q = [n \in 0 .. m + 1 |-> IF n = 0 THEN OldSeeds ELSE Wider(Q[n - 1])]
    BY <2>4
  <2>6. Solves(Q, m + 1)
    BY <2>5
  <2> HIDE DEF Q
  <2>7. \E P : Solves(P, m + 1)
    BY <2>6
  <2> QED BY <2>7
<1>3. \E N : N = [n \in 0 .. Semi |-> IF n = 0 THEN OldSeeds ELSE Wider(N[n - 1])]
  <2> HIDE DEF S
  <2>1. Semi \in S
    BY <1>1, <1>2, Induct, HeapAssumption
  <2> QED BY <2>1 DEF S
<1> DEFINE N[n \in 0 .. Semi] == IF n = 0 THEN OldSeeds ELSE Wider(N[n - 1])
<1>4. N = [n \in 0 .. Semi |-> IF n = 0 THEN OldSeeds ELSE Wider(N[n - 1])]
  BY <1>3, Zenon
<1>5. OldReachable = N[Semi]
  BY Zenon DEF OldReachable, OldSeeds, Wider
<1> HIDE DEF N
<1>6. N[0] = OldSeeds
  BY <1>4, HeapAssumption
<1>7. \A k \in 0 .. Semi - 1 : N[k + 1] = Wider(N[k])
  <2>1. \A k \in 0 .. Semi - 1 : k + 1 \in 0 .. Semi /\ k + 1 # 0 /\ k + 1 - 1 = k
    BY HeapAssumption
  <2>2. \A n \in 0 .. Semi : n # 0 => N[n] = Wider(N[n - 1])
    BY <1>4
  <2>3. ASSUME NEW k \in 0 .. Semi - 1 PROVE N[k + 1] = Wider(N[k])
    <3>1. N[k + 1] = Wider(N[k + 1 - 1])
      BY <2>1, <2>2
    <3> QED BY <2>1, <3>1
  <2> QED BY <2>3
<1> QED BY <1>5, <1>6, <1>7

\* OldReachable is the least set with the seeds that is closed under OldChildren:
\* the chain of its approximations cannot grow more often than there are cells.
LeastClosed ==
  /\ OldSeeds \subseteq OldReachable /\ OldReachable \subseteq OldCells
  /\ \A o \in OldReachable : OldChildren(o) \subseteq OldReachable
  /\ \A S : OldSeeds \subseteq S /\ (\A o \in S : OldChildren(o) \subseteq S)
              => OldReachable \subseteq S

LEMMA OldReachableIs == TypeOK => LeastClosed
<1> SUFFICES ASSUME TypeOK PROVE LeastClosed
  OBVIOUS
<1>0. Semi \in Nat /\ old_top \in 0 .. Semi
  BY MajorTypes
<1>1. PICK N : /\ OldReachable = N[Semi] /\ N[0] = OldSeeds
               /\ \A k \in 0 .. Semi - 1 : N[k + 1] = Wider(N[k])
  BY OldReachableDef
<1>2. ASSUME NEW S, OldSeeds \subseteq S, \A o \in S : OldChildren(o) \subseteq S
      PROVE  OldReachable \subseteq S
  <2> DEFINE T == {k \in Nat : N[k] \subseteq S}
  <2>1. 0 \in T
    BY <1>1, <1>2
  <2>2. ASSUME NEW k \in 0 .. Semi - 1, k \in T PROVE k + 1 \in T
    <3>1. Wider(N[k]) \subseteq S
      BY <1>2, <2>2 DEF Wider
    <3>2. k + 1 \in Nat
      BY <1>0
    <3> QED BY <1>1, <3>1, <3>2
  <2>3. Semi \in T
    <3> HIDE DEF T
    <3> QED BY <1>0, <2>1, <2>2, InductTo
  <2> QED BY <1>1, <2>3
<1>3. OldSeeds \subseteq OldReachable
  <2> DEFINE T == {k \in Nat : OldSeeds \subseteq N[k]}
  <2>1. 0 \in T
    BY <1>1
  <2>2. ASSUME NEW k \in 0 .. Semi - 1, k \in T PROVE k + 1 \in T
    <3>1. OldSeeds \subseteq Wider(N[k])
      BY <2>2 DEF Wider
    <3>2. k + 1 \in Nat
      BY <1>0
    <3> QED BY <1>1, <3>1, <3>2
  <2>3. Semi \in T
    <3> HIDE DEF T
    <3> QED BY <1>0, <2>1, <2>2, InductTo
  <2> QED BY <1>1, <2>3
<1>4. \A k \in 0 .. Semi : N[k] \subseteq OldCells
  <2> DEFINE T == {k \in Nat : N[k] \subseteq OldCells}
  <2>1. 0 \in T
    BY <1>1 DEF OldSeeds
  <2>2. ASSUME NEW k \in 0 .. Semi - 1, k \in T PROVE k + 1 \in T
    <3>1. Wider(N[k]) \subseteq OldCells
      BY <2>2 DEF Wider, OldChildren
    <3>2. k + 1 \in Nat
      BY <1>0
    <3> QED BY <1>1, <3>1, <3>2
  <2>3. \A k \in 0 .. Semi : k \in T
    <3> HIDE DEF T
    <3> QED BY <1>0, <2>1, <2>2, InductTo
  <2> QED BY <2>3
<1>5. IsFiniteSet(OldCells) /\ Cardinality(OldCells) <= Semi /\ Cardinality(OldCells) \in Nat
  <2> DEFINE b == OldBase + old_top - 1
  <2>1. OldBase \in Int /\ b \in Int /\ (IF OldBase > b THEN 0 ELSE b - OldBase + 1) = old_top
    BY <1>0, HeapAssumption
  <2> HIDE DEF b
  <2>2. IsFiniteSet(OldBase .. b) /\ Cardinality(OldBase .. b) = old_top
    BY <2>1, FS_Interval
  <2> QED BY <1>0, <2>2 DEF OldCells, b
<1>6. \A k \in 0 .. Semi : IsFiniteSet(N[k]) /\ Cardinality(N[k]) \in Nat
                           /\ Cardinality(N[k]) <= Cardinality(OldCells)
  BY <1>4, <1>5, FS_Subset, FS_CardinalityType
<1>7. Wider(N[Semi]) = N[Semi]
  <2> DEFINE T == {k \in Nat : Wider(N[k]) = N[k] \/ Cardinality(N[k]) >= k + 1}
  <2>1. 0 \in T
    <3>1. CASE N[0] = {}
      BY <3>1 DEF Wider
    <3>2. CASE N[0] # {}
      <4>1. Cardinality(N[0]) # 0
        BY <1>0, <1>6, <3>2, FS_EmptySet
      <4> QED BY <1>0, <1>6, <4>1
    <3> QED BY <3>1, <3>2
  <2>2. ASSUME NEW k \in 0 .. Semi - 1, k \in T PROVE k + 1 \in T
    <3>0. k \in 0 .. Semi /\ k + 1 \in 0 .. Semi /\ k + 1 \in Nat /\ N[k + 1] = Wider(N[k])
      BY <1>0, <1>1
    <3>1. CASE Wider(N[k]) = N[k]
      BY <3>0, <3>1
    <3>2. CASE Wider(N[k]) # N[k]
      <4>1. N[k] \subseteq N[k + 1] /\ N[k] # N[k + 1]
        BY <3>0, <3>2 DEF Wider
      <4>2. Cardinality(N[k]) < Cardinality(N[k + 1])
        BY <1>6, <3>0, <4>1, FS_Subset
      <4>3. Cardinality(N[k]) >= k + 1
        BY <2>2, <3>2
      <4>4. Cardinality(N[k]) \in Nat /\ Cardinality(N[k + 1]) \in Nat
        BY <1>6, <3>0
      <4>5. Cardinality(N[k + 1]) >= k + 1 + 1
        BY <4>2, <4>3, <4>4
      <4> QED BY <3>0, <4>5
    <3> QED BY <3>1, <3>2
  <2>3. Semi \in T
    <3> HIDE DEF T
    <3> QED BY <1>0, <2>1, <2>2, InductTo
  <2>4. ~(Cardinality(N[Semi]) >= Semi + 1)
    BY <1>0, <1>5, <1>6
  <2> QED BY <2>3, <2>4
<1>8. OldReachable \subseteq OldCells
  BY <1>0, <1>1, <1>4
<1>9. \A o \in OldReachable : OldChildren(o) \subseteq OldReachable
  BY <1>1, <1>7 DEF Wider
<1> QED BY <1>2, <1>3, <1>8, <1>9 DEF LeastClosed

\* Marking from the seeds never leaves what can be reached.
MarkedReachable == Sound /\ phase \in {"mark", "forward"} => mark \cap OldCells \subseteq OldReachable

\* What a step that moves no object and changes no pointer keeps.
LEMMA ReachableKept ==
  ASSUME TypeOK, TypeOK', UNCHANGED <<from, top, old_top, kid, roots>>
  PROVE  /\ YoungCells' = YoungCells /\ OldCells' = OldCells /\ OldSeeds' = OldSeeds
         /\ \A a : OldChildren(a)' = OldChildren(a)
         /\ OldReachable' = OldReachable
<1>1. YoungCells' = YoungCells /\ OldCells' = OldCells
  BY DEF YoungCells, OldCells
<1>2. OldSeeds' = OldSeeds
  BY <1>1 DEF OldSeeds
<1>3. \A a : OldChildren(a)' = OldChildren(a)
  BY <1>1 DEF OldChildren
<1>4. LeastClosed /\ LeastClosed'
  <2>1. (TypeOK => LeastClosed)'
    BY OldReachableIs, PTL
  <2> QED BY <2>1, OldReachableIs
<1>5. OldReachable \subseteq OldReachable'
  BY <1>2, <1>3, <1>4 DEF LeastClosed
<1>6. OldReachable' \subseteq OldReachable
  BY <1>2, <1>3, <1>4 DEF LeastClosed
<1> QED BY <1>1, <1>2, <1>3, <1>5, <1>6

LEMMA MarkStep == IInv /\ MarkedReachable /\ [Next]_vars => MarkedReachable'
<1> SUFFICES ASSUME IInv, MarkedReachable, [Next]_vars,
                    Sound', phase' \in {"mark", "forward"}
             PROVE  (mark \cap OldCells)' \subseteq OldReachable'
  BY DEF MarkedReachable
<1> USE DEF space, object, remset, minor, major
<1>1. TypeOK /\ TypeOK' /\ Sound
  BY TypeStep, SoundBefore DEF IInv
<1>2. LeastClosed
  BY <1>1, OldReachableIs
<1>3. CASE MarkRoots
  <2>1. UNCHANGED <<from, top, old_top, kid, roots>>
    BY <1>3 DEF MarkRoots
  <2>2. mark' = (mark \ OldCells) \cup ({roots[r] : r \in Roots} \cap OldCells)
                   \cup UNION {OldChildren(y) : y \in YoungCells}
    BY <1>3 DEF MarkRoots
  <2>3. mark' \cap OldCells \subseteq OldSeeds
    BY <2>2 DEF OldSeeds, OldChildren
  <2> QED BY <1>1, <1>2, <2>1, <2>3, ReachableKept DEF LeastClosed
<1>4. CASE MarkChildren
  <2>1. UNCHANGED <<from, top, old_top, kid, roots>> /\ phase = "mark"
    BY <1>4 DEF MarkChildren
  <2>2. PICK o \in mark_work : mark' = mark \cup (OldChildren(o) \ mark)
    BY <1>4 DEF MarkChildren
  <2>3. mark_work \subseteq OldCells \cap mark /\ mark \cap OldCells \subseteq OldReachable
    BY <1>1, <2>1 DEF IInv, HeapInvariant, Marked, MarkedReachable
  <2>4. OldChildren(o) \subseteq OldReachable
    BY <1>2, <2>3 DEF LeastClosed
  <2> QED BY <1>1, <2>1, <2>2, <2>3, <2>4, ReachableKept
<1>5. CASE MarkDone \/ ComputeForward
  <2>1. UNCHANGED <<from, top, old_top, kid, roots, mark>> /\ phase \in {"mark", "forward"}
    BY <1>5 DEF MarkDone, ComputeForward
  <2> QED BY <1>1, <2>1, ReachableKept DEF MarkedReachable
<1>6. CASE UNCHANGED vars
  <2>1. UNCHANGED <<from, top, old_top, kid, roots, mark, phase>>
    BY <1>6 DEF vars
  <2> QED BY <1>1, <2>1, ReachableKept DEF MarkedReachable
<1>7. CASE Mutator \/ Minor \/ UpdatePointers \/ Slide \/ FinishMajor \/ Resume
  <2>1. CASE Mutator
    BY <2>1 DEF Mutator, MoveRoot, LoadField, StoreField, Alloc, AllocCollects, Running
  <2>2. CASE Minor
    <3>1. phase \in MinorPhases /\ phase' \in MinorPhases \cup {"major", "resume"}
      BY <2>2 DEF MinorPhases, Minor, TraceRemembered, RememberedDone, ForwardRoot,
         ScanYoung, YoungDrained, ScanOld, OldDrainedYoungNot, FinishMinor
    <3> QED BY <3>1 DEF MinorPhases
  <2>3. CASE UpdatePointers \/ Slide \/ FinishMajor \/ Resume
    BY <2>3 DEF UpdatePointers, Slide, FinishMajor, Resume
  <2> QED BY <1>7, <2>1, <2>2, <2>3
<1> QED BY <1>3, <1>4, <1>5, <1>6, <1>7 DEF Next, Collector, Major

\* Before the survivors slide, the marked old objects are exactly those that a root
\* or a young survivor reaches: compact_old loses none and keeps no other.
THEOREM MarksExactly == Spec => []MarkPrecise
<1>1. Init => MarkedReachable
  BY DEF Init, MarkedReachable
<1>2. IInv /\ MarkedReachable => MarkPrecise
  <2> SUFFICES ASSUME IInv, MarkedReachable, Sound, phase = "forward"
               PROVE  mark \cap OldCells = OldReachable
    BY DEF MarkPrecise
  <2>1. Marked /\ mark_work = {} /\ LeastClosed
    BY OldReachableIs DEF IInv, HeapInvariant
  <2>2. OldSeeds \subseteq mark \cap OldCells
    BY <2>1 DEF OldSeeds, Marked, OldChildren
  <2>3. \A o \in mark \cap OldCells : OldChildren(o) \subseteq mark \cap OldCells
    BY <2>1 DEF Marked, OldChildren
  <2>4. OldReachable \subseteq mark \cap OldCells
    BY <2>1, <2>2, <2>3 DEF LeastClosed
  <2>5. mark \cap OldCells \subseteq OldReachable
    BY DEF MarkedReachable
  <2> QED BY <2>4, <2>5
<1> QED BY <1>1, <1>2, MarkStep, Invariance, PTL DEF Spec
=============================================================================
