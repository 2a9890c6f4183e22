--------------------------------- MODULE VM ----------------------------------
(***************************************************************************)
(* run_cbc (src/src/vm.cc): verify the module the loader delivered, and    *)
(* run it only if the verifier accepted it.                                *)
(***************************************************************************)
EXTENDS Verifier, Interp

vars == <<mod, vvars, ivars>>

Init == VInit /\ IInit

Verify == VNext /\ UNCHANGED ivars
Run    == verdict = "ok" /\ INext /\ UNCHANGED vvars

\* run_cbc has returned.
Returned == verdict = "err" \/ status = "done"
Rest     == Returned /\ UNCHANGED vars

Next == Verify \/ Run \/ Rest

\* run_cbc is one sequential call: while it has a step to take it takes it.
Spec == Init /\ [][Next]_vars /\ WF_vars(Next)
=============================================================================
