---------------------------- MODULE MCHeapGraph -----------------------------
(***************************************************************************)
(* HeapGraph with a bounded number of mutator operations, so that larger   *)
(* heaps stay within reach of TLC.  The collector is not bounded.          *)
(***************************************************************************)
EXTENDS HeapGraph

CONSTANT Fuel      \* mutator operations (moves, loads, stores, allocations)

VARIABLE fuel

MCInit == GInit /\ fuel = Fuel

Collects == Collector /\ UNCHANGED fuel /\ IdStep
Mutates  == fuel > 0 /\ fuel' = fuel - 1 /\ Mutator /\ IdStep

MCNext == Collects \/ Mutates

MCSpec == MCInit /\ [][MCNext]_<<gvars, fuel>>

MCFairSpec == MCSpec /\ WF_<<gvars, fuel>>(Collects)
=============================================================================
