------------------------------ MODULE Toolchain ------------------------------
(***************************************************************************)
(* compile_source and run_cbc (src/src/vm.cc) on a program: fold, compile, *)
(* verify, interpret; and what the result must be (module Reference).      *)
(* Lexing and parsing are modules Lexer and Parser; serialize and load_cbc,*)
(* which hand the module over unchanged (module Serialize), are left out.  *)
(***************************************************************************)
EXTENDS Machine

CONSTANTS
  Programs, kMaxReg, kMaxConst, kMaxCount, MaxJump, NativeArity, Fuel,
  CodeOf(_),               \* what the compiler makes of a program: FoldedAndCompiled
  Meant(_)                 \* what the program should do: Meaning of module Reference

ASSUME CompilerAssumption ==
  {kMaxReg, kMaxConst, kMaxCount, MaxJump} \subseteq Nat /\ MaxJump < 32768

VARIABLES prog, stage   \* the program; "source", "cbc" or "error"

C == INSTANCE Compiler
O == INSTANCE Optimize
R == INSTANCE Reference WITH Builtins <- NativeArity

\* compile_source() runs the constant folder before the code generator.
Folded(p) == O!fold(p)
FoldedAndCompiled(p) == LET tree == Folded(p) IN C!Compile(tree)
MeaningOf(p) == LET m == R!Meaning(p) IN m

tvars == <<vars, cvars, prog, stage>>

NoModule == [consts |-> <<>>, funcs |-> <<>>, entry_func |-> 0]

TInit ==
  /\ prog \in Programs /\ stage = "source"
  /\ mod = NoModule /\ verdict = "pending" /\ vfn = 0 /\ pass = "enter" /\ vpc = 0
  /\ is_start = [f \in {} |-> {}] /\ jumps = {}
  /\ IInit
  /\ pool = <<>> /\ cregs = <<>> /\ caps = <<>> /\ objs = <<>> /\ output = <<>>

\* compile_source; a program that does not compile is never run.
compile_source ==
  LET c == CodeOf(prog) IN
  /\ stage = "source"
  /\ IF c.err # "" THEN stage' = "error" /\ UNCHANGED <<mod, pool, is_start>>
     ELSE /\ stage' = "cbc" /\ pool' = c.consts
          /\ mod' = [consts |-> [k \in DOMAIN c.consts |-> AbsConst(c.consts[k])],
                     funcs |-> c.funcs, entry_func |-> 0]
          /\ is_start' = [f \in 0 .. Len(c.funcs) - 1 |-> {}]
  /\ UNCHANGED <<verdict, vfn, pass, vpc, jumps, ivars, cregs, caps, objs, output, prog>>

run_cbc ==
  /\ stage = "cbc"
  /\ (Verify /\ UNCHANGED cvars) \/ RunConcrete
  /\ UNCHANGED <<prog, stage>>

Ended == stage = "error" \/ Returned
AtRest == Ended /\ UNCHANGED tvars

TNext == compile_source \/ run_cbc \/ AtRest
TSpec == TInit /\ [][TNext]_tvars

-----------------------------------------------------------------------------
(***************************************************************************)
(* Where the compiler is known to deviate.                                 *)
(***************************************************************************)
RECURSIVE Reads(_, _), Overwrites(_, _), Clobbers(_), Zeros(_)
Reads(n, x) ==
  (n.kind \in {"Ident", "Call"} /\ n.str = x) \/ \E i \in DOMAIN n.kids : Reads(n.kids[i], x)

\* Compiling v straight into x's register destroys x before v has read it.
Overwrites(v, x) ==
  \/ v.kind \in {"ArrayLit", "MapLit"} /\ Reads(v, x)
  \/ v.kind = "Logical" /\ (Overwrites(v.kids[1], x) \/ Reads(v.kids[2], x))
Clobbers(n) ==
  \/ n.kind = "Assign" /\ n.kids[1].kind = "Ident" /\ Overwrites(n.kids[2], n.kids[1].str)
  \/ \E i \in DOMAIN n.kids : Clobbers(n.kids[i])

\* Interning makes one constant of the two zeros.
Zeros(n) == (IF n.kind = "FloatLit" /\ is_zero(n.val) THEN {n.val} ELSE {})
              \cup UNION {Zeros(n.kids[i]) : i \in DOMAIN n.kids}
MixesZeros(n) == Cardinality(Zeros(Folded(n))) > 1

-----------------------------------------------------------------------------
IsPrefix0(s, t) == Len(s) <= Len(t) /\ SubSeq(t, 1, Len(s)) = s

\* The run printed and failed as m says, as far as both went.
SameAs(m) ==
  IF m.err = "fuel" \/ error \in {"instruction budget exceeded", "call depth exceeded"}
  THEN IsPrefix0(output, m.out) \/ IsPrefix0(m.out, output)
  ELSE output = m.out /\ error = m.err

\* compile_source accepts a program whose every name is in scope and whose every
\* break and continue is in a loop, unless it outgrows the encoding, and no other.
Outgrown == {"register overflow", "too many elements", "too many constants", "jump out of range",
  "too many upvalues", "too many arguments", "too many locals", "too many registers",
  "too many functions", "too many parameters"}
CompilesExactlyTheLegal ==
  /\ stage = "cbc" => R!Legal(prog)
  /\ stage = "error" => ~R!Legal(prog) \/ CodeOf(prog).err \in Outgrown

\* What was emitted fits its encoding: register counts, parameters and indices.
WithinLimits ==
  stage = "cbc" =>
    /\ Len(mod.consts) <= kMaxConst + 1
    /\ \A f \in FuncIdx : Fn(f).num_params <= NumRegs(f) /\ NumRegs(f) <= kMaxReg

\* The verifier accepts whatever the compiler emits.
CompiledVerifies == WithinLimits /\ (stage = "cbc" => verdict # "err")

\* A compiled program never fails in a way no source program should.
NeverInternalError ==
  error \notin {"invalid opcode", "bad upvalue access", "bad closure target", "unknown builtin",
                "wrong arg count", "call to undefined function", "entry function out of range"}

\* What the program prints, and how it fails, is what its tree means.
Agrees ==
  /\ NeverInternalError
  /\ (status = "done" /\ ~Clobbers(prog) /\ ~MixesZeros(prog)) => SameAs(Meant(prog))

\* compiler.cc:594: temporaries never clobber a live variable.
NeverClobbers == (status = "done" /\ ~MixesZeros(prog)) => SameAs(Meant(prog))
=============================================================================
