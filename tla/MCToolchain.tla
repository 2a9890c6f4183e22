----------------------------- MODULE MCToolchain -----------------------------
(***************************************************************************)
(* Instances of Toolchain.                                                 *)
(***************************************************************************)
EXTENDS Toolchain

P == INSTANCE MCPrograms

MCNames    == {"len"}
MCMinArgs  == [n \in MCNames |-> 1]
MCMaxArgs  == [n \in MCNames |-> 1]
MCNativeArity == [n \in MCNames |-> <<1, 1>>]

MCExpressions == P!Expressions \cup P!Stores \cup P!Arithmetics \cup P!ZeroPrograms
MCControl     == P!Loops \cup P!Calls \cup P!Lambdas \cup P!Illegal
MCSources     == MCExpressions \cup MCControl \cup P!Edges
MCOverwriting == P!Overwriting
=============================================================================
