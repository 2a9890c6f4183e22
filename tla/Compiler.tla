------------------------------ MODULE Compiler -------------------------------
(***************************************************************************)
(* The code generator (src/src/compiler.cc) as operators on the compiler's *)
(* state, a record c:                                                      *)
(*   consts, funcs     the module under construction                       *)
(*   code              the bytes of the current function                   *)
(*   locals            name -> register of the current function            *)
(*   top, high         reg_top and high_water                              *)
(*   loops             holes of break and continue, per enclosing loop     *)
(*   enclosing         the locals of the functions around it               *)
(*   upvals, upsrc     captured names, and the parent's registers          *)
(*   findex            name -> index of a top-level function               *)
(*   err               the first error, "" if none                         *)
(* Once err is set the module is dropped, so what the code still does to   *)
(* the other fields is left out.                                           *)
(***************************************************************************)
EXTENDS Ast, Opcodes

CONSTANTS
  kMaxReg, kMaxConst, kMaxCount,  \* 255, 65535 and 255 in the code
  MaxJump,                        \* 32767: the reach of an i16 offset
  NativeArity                     \* what find_native() knows: name -> <<min, max>>

NoNames == [x \in {} |-> 0]
Larger(a, b) == IF a > b THEN a ELSE b
Failed(c) == c.err # ""
Fail(c, msg) == IF Failed(c) THEN c ELSE [c EXCEPT !.err = msg]

-----------------------------------------------------------------------------
(***************************************************************************)
(* Emitters, constants, jumps.                                             *)
(***************************************************************************)
\* An opcode and its register operands.
Emit(c, op, regs) ==
  IF \E i \in DOMAIN regs : regs[i] > kMaxReg THEN Fail(c, "register overflow")
  ELSE [c EXCEPT !.code = @ \o <<op>> \o regs]

EmitU16(c, k) == [c EXCEPT !.code = @ \o <<k % 256, k \div 256>>]
EmitN(c, n) ==
  IF n > kMaxCount THEN Fail(c, "too many elements") ELSE [c EXCEPT !.code = Append(@, n)]

\* intern() compares doubles with ==, everything else exactly.
SameConst(a, b) == IF a.t = "Double" /\ b.t = "Double" THEN DEq(a, b) ELSE a = b

\* The pool after intern(v), and the index v has in it.
Intern(c, v) ==
  IF \E i \in DOMAIN c.consts : SameConst(c.consts[i], v) THEN c
  ELSE IF Len(c.consts) > kMaxConst THEN Fail(c, "too many constants")
  ELSE [c EXCEPT !.consts = Append(@, v)]
ConstIdx(c, v) == SelectInSeq(c.consts, LAMBDA w : SameConst(w, v)) - 1

EmitK(c, v) == LET i == Intern(c, v) IN IF Failed(i) THEN i ELSE EmitU16(i, ConstIdx(i, v))
LoadConst(c, dst, v) == EmitK(Emit(c, OP_LOAD_CONST, <<dst>>), v)

\* A jump whose offset is a hole of two bytes; Hole(c) is the last one's position.
JumpHole(c, op, regs) == EmitU16(Emit(c, op, regs), 0)
Here(c) == Len(c.code)
Hole(c) == Len(c.code) - 2

\* Faulty: the offset is counted from the operand, not from the byte after it.
RelFromOperand(hole, target) == target - hole

Rel(hole, target) == target - (hole + 2)

patch_to(c, hole, target) ==
  LET rel == Rel(hole, target) IN
  IF rel > MaxJump \/ rel < -MaxJump - 1 THEN Fail(c, "jump out of range")
  ELSE [c EXCEPT !.code[hole + 1] = (rel % 65536) % 256, !.code[hole + 2] = (rel % 65536) \div 256]
patch_all(c, holes, target) == FoldSet(LAMBDA h, s : patch_to(s, h, target), c, holes)
patch_here(c, holes) == patch_all(c, holes, Here(c))

\* Reserve k temporaries above reg_top; give them back.
Temps(c, k) == [c EXCEPT !.top = @ + k, !.high = Larger(@, c.top + k)]
Release(c, t) == [c EXCEPT !.top = t]

-----------------------------------------------------------------------------
(***************************************************************************)
(* Expressions: CompileExpr(c, n, dst) leaves the value of n in dst.       *)
(***************************************************************************)
RECURSIVE CompileExpr(_, _, _), CompileStmt(_, _), CompileArgs(_, _, _), CompileAll(_, _)

\* find_or_add_upvalue: one level only, from the immediately enclosing function.
Capturable(c, x) ==
  /\ c.enclosing # <<>>
  /\ x \in ToSet(c.upvals) \/ x \in DOMAIN Last(c.enclosing)
AddUpvalue(c, x) ==
  IF x \in ToSet(c.upvals) THEN c
  ELSE IF Len(c.upvals) > kMaxCount THEN Fail(c, "too many upvalues")
  ELSE [c EXCEPT !.upvals = Append(@, x), !.upsrc = Append(@, Last(c.enclosing)[x])]

UpvalIdx(c, x) == SelectInSeq(c.upvals, LAMBDA u : u = x) - 1

GetUpvalue(c, x, dst) ==
  LET u == AddUpvalue(c, x) IN
  IF Failed(u) THEN u ELSE EmitN(Emit(u, OP_GET_UPVAL, <<dst>>), UpvalIdx(u, x))

Closure(c, dst, f, regs) ==
  LET head == EmitN(EmitU16(Emit(c, OP_CLOSURE, <<dst>>), f), Len(regs)) IN
  IF \E i \in DOMAIN regs : regs[i] > kMaxReg THEN Fail(head, "register overflow")
  ELSE [head EXCEPT !.code = @ \o regs]

\* Local, then captured, then a named function as a value.
CompileIdent(c, x, dst) ==
  IF x \in DOMAIN c.locals
  THEN IF c.locals[x] = dst THEN c ELSE Emit(c, OP_MOVE, <<dst, c.locals[x]>>)
  ELSE IF Capturable(c, x) THEN GetUpvalue(c, x, dst)
  ELSE IF x \in DOMAIN c.findex THEN Closure(c, dst, c.findex[x], <<>>)
  ELSE IF x \in DOMAIN NativeArity THEN Fail(c, "builtin is not a value")
  ELSE Fail(c, "undefined variable")

BinaryOp(op) ==
  CASE op = "+" -> 16 [] op = "-" -> 17 [] op = "*" -> 18 [] op = "/" -> OP_DIV
    [] op = "%" -> OP_MOD [] op = "E" -> 21 [] op = "N" -> 22
    [] op = "<" -> 23 [] op = "l" -> 24 [] op = ">" -> 25 [] op = "g" -> 26
    [] op = "&" -> 27 [] op = "|" -> 28 [] op = "^" -> 29
    [] op = "L" -> 30 [] op = "R" -> 31
UnaryOp(op) == CASE op = "-" -> OP_NEG [] op = "!" -> OP_NOT [] op = "~" -> OP_BNOT

\* Faulty: the second operand is compiled over the first one.
TwoOperandsInOne(c, n, op, dst) ==
  LET t == c.top
      a == CompileExpr(Temps(c, 2), n.kids[1], t)
      b == CompileExpr(a, n.kids[2], t)
  IN  Release(Emit(b, op, <<dst, t, t>>), t)

\* Binary and Index: both operands into temporaries, left to right.
TwoOperands(c, n, op, dst) ==
  LET t == c.top
      a == CompileExpr(Temps(c, 2), n.kids[1], t)
      b == CompileExpr(a, n.kids[2], t + 1)
  IN  Release(Emit(b, op, <<dst, t, t + 1>>), t)

CompileUnary(c, n, dst) ==
  LET t == c.top IN
  Release(Emit(CompileExpr(Temps(c, 1), n.kids[1], t), UnaryOp(n.str), <<dst, t>>), t)

CompileField(c, n, dst) ==
  LET t == c.top
      a == CompileExpr(Temps(c, 1), n.kids[1], t)
  IN  Release(EmitK(Emit(a, OP_GET_PROP, <<dst, t>>), StrV(n.str)), t)

\* a && b and a || b from JUMP_IF_FALSE alone, both operands through dst.
CompileAnd(c, n, dst) ==
  LET a == JumpHole(CompileExpr(c, n.kids[1], dst), OP_JUMP_IF_FALSE, <<dst>>)
      b == JumpHole(CompileExpr(a, n.kids[2], dst), OP_JUMP_IF_FALSE, <<dst>>)
      t == JumpHole(LoadConst(b, dst, BoolV(TRUE)), OP_JUMP, <<>>)
      f == LoadConst(patch_here(t, {Hole(a), Hole(b)}), dst, BoolV(FALSE))
  IN  patch_here(f, {Hole(t)})

CompileOr(c, n, dst) ==
  LET a == JumpHole(CompileExpr(c, n.kids[1], dst), OP_JUMP_IF_FALSE, <<dst>>)
      j == JumpHole(a, OP_JUMP, <<>>)
      b == JumpHole(CompileExpr(patch_here(j, {Hole(a)}), n.kids[2], dst),
                    OP_JUMP_IF_FALSE, <<dst>>)
      t == JumpHole(LoadConst(patch_here(b, {Hole(j)}), dst, BoolV(TRUE)), OP_JUMP, <<>>)
      f == LoadConst(patch_here(t, {Hole(b)}), dst, BoolV(FALSE))
  IN  patch_here(f, {Hole(t)})

\* The container is built in dst, element by element.
CompileArray(c, n, dst) ==
  LET element(s, i) ==
        LET t == s.top
            v == CompileExpr(LoadConst(Temps(s, 2), t, IntV(i - 1)), n.kids[i], t + 1)
        IN  Release(Emit(v, OP_ARRAY_SET, <<dst, t, t + 1>>), t)
  IN  FoldLeft(element, EmitN(Emit(c, OP_NEW_ARRAY, <<dst>>), Len(n.kids)),
               [i \in DOMAIN n.kids |-> i])

CompileMap(c, n, dst) ==
  LET entry(s, p) ==
        LET t == s.top
            v == CompileExpr(Temps(s, 1), n.kids[2 * p], t)
            k == EmitK(Emit(v, OP_SET_PROP, <<dst>>), n.kids[2 * p - 1].val)
        IN  IF n.kids[2 * p - 1].kind # "StrLit" THEN Fail(s, "map key must be a string")
            ELSE Release([k EXCEPT !.code = Append(@, t)], t)
  IN  FoldLeft(entry, Emit(c, OP_NEW_OBJECT, <<dst>>), [p \in 1 .. Len(n.kids) \div 2 |-> p])

\* Arguments into consecutive registers from base on, each with what lies above
\* it as scratch space.
CompileArgs(c, args, base) ==
  IF args = <<>> THEN c
  ELSE CompileArgs(CompileExpr(Temps(Release(c, base), 1), Head(args), base), Tail(args), base + 1)

Delivered(c, base, dst) ==
  LET r == Release(c, base) IN IF dst = base THEN r ELSE Emit(r, OP_MOVE, <<dst, base>>)

\* A callee that is a local or captured variable is a closure value.
CallVariable(c, n, dst) ==
  LET base == c.top
      t == Temps(c, 1)
      callee == IF n.str \in DOMAIN c.locals THEN Emit(t, OP_MOVE, <<base, c.locals[n.str]>>)
                ELSE GetUpvalue(t, n.str, base)
      args == CompileArgs(callee, n.kids, base + 1)
  IN  Delivered(EmitN(Emit(args, OP_CALL_VALUE, <<base>>), Len(n.kids)), base, dst)

CallPush(c, n, dst) ==
  LET t == c.top
      a == CompileExpr(Temps(c, 2), n.kids[1], t)
      v == CompileExpr(a, n.kids[2], t + 1)
  IN  IF Len(n.kids) # 2 THEN Fail(c, "push expects (array, value)")
      ELSE Emit(Release(Emit(v, OP_ARRAY_PUSH, <<t, t + 1>>), t), OP_LOAD_NIL, <<dst>>)

CallNamed(c, n, op, dst) ==
  LET base == c.top
      args == CompileArgs(c, n.kids, base)
      use1 == [args EXCEPT !.high = Larger(@, base + 1)]
  IN  Delivered(EmitN(EmitK(Emit(use1, op, <<base>>), StrV(n.str)), Len(n.kids)), base, dst)

\* Resolution order: a function value, push, a builtin, a named function.
CompileCall(c, n, dst) ==
  LET arity == NativeArity[n.str] IN
  IF Len(n.kids) > kMaxCount THEN Fail(c, "too many arguments")
  ELSE IF n.str \in DOMAIN c.locals \/ Capturable(c, n.str) THEN CallVariable(c, n, dst)
  ELSE IF n.str = "push" THEN CallPush(c, n, dst)
  ELSE IF n.str \in DOMAIN NativeArity
  THEN IF arity[1] <= Len(n.kids) /\ Len(n.kids) <= arity[2]
       THEN CallNamed(c, n, OP_CALL_NATIVE, dst) ELSE Fail(c, "wrong number of arguments")
  ELSE IF n.str \in DOMAIN c.findex THEN CallNamed(c, n, OP_CALL, dst)
  ELSE Fail(c, "call to unknown function")

-----------------------------------------------------------------------------
(***************************************************************************)
(* Functions.                                                              *)
(***************************************************************************)
\* Bare-Ident assignment targets in order of first appearance; not those of
\* nested functions.
RECURSIVE collect_locals(_)
collect_locals(n) ==
  LET own == IF n.kind = "Assign" /\ n.kids[1].kind = "Ident" THEN <<n.kids[1].str>> ELSE <<>>
      add(seen, k) == LET new == collect_locals(k) IN
                      seen \o SelectSeq(new, LAMBDA x : x \notin ToSet(seen))
  IN  IF n.kind \in {"FnDecl", "Lambda"} THEN <<>> ELSE FoldLeft(add, own, n.kids)

\* Parameters, then locals, in the low registers; a repeated parameter keeps its
\* last position.
LocalTable(params, block) ==
  LET names == params \o SelectSeq(collect_locals(block), LAMBDA x : x \notin ToSet(params))
  IN  FoldLeft(LAMBDA t, i : (names[i] :> i - 1) @@ t, NoNames, [i \in DOMAIN names |-> i])
NumLocals(params, block) ==
  Len(params) + Cardinality(ToSet(collect_locals(block)) \ ToSet(params))

TooManyRegisters(high) == high > kMaxReg

\* compile_body, into function f; the terminator keeps control in the code.
CompileBody(c, f, block, params, is_main) ==
  LET next == NumLocals(params, block)
      body == CompileStmt([c EXCEPT !.code = <<>>, !.locals = LocalTable(params, block),
                                    !.loops = <<>>, !.upvals = <<>>, !.upsrc = <<>>,
                                    !.top = next, !.high = next], block)
      t    == body.top
      last == IF is_main THEN Emit(body, OP_HALT, <<>>)
              ELSE Emit(Emit(Temps(body, 1), OP_LOAD_NIL, <<t>>), OP_RET, <<t>>)
  IN  IF next > kMaxReg + 1 THEN Fail(c, "too many locals")
      ELSE IF Failed(last) THEN last
      ELSE IF TooManyRegisters(last.high) THEN Fail(last, "too many registers")
      ELSE [last EXCEPT !.funcs[f + 1].code = last.code, !.funcs[f + 1].num_regs = last.high % 256]

\* The parent's state is saved around the nested compile; the closure captures
\* from the parent's registers.
CompileLambda(c, lam, dst) ==
  LET inner == CompileBody([c EXCEPT !.enclosing = Append(@, c.locals)], lam.id,
                           lam.kids[1], lam.params, FALSE)
      outer == [c EXCEPT !.consts = inner.consts, !.funcs = inner.funcs, !.err = inner.err]
  IN  IF lam.id > kMaxConst THEN Fail(c, "too many functions")
      ELSE IF Failed(outer) THEN outer
      ELSE Closure(outer, dst, lam.id, inner.upsrc)

CompileExpr(c, n, dst) ==
  IF Failed(c) THEN c
  ELSE CASE n.kind \in Literals \ {"NilLit"} -> LoadConst(c, dst, n.val)
         [] n.kind = "NilLit"   -> Emit(c, OP_LOAD_NIL, <<dst>>)
         [] n.kind = "Ident"    -> CompileIdent(c, n.str, dst)
         [] n.kind = "Lambda"   -> CompileLambda(c, n, dst)
         [] n.kind = "Binary"   -> TwoOperands(c, n, BinaryOp(n.str), dst)
         [] n.kind = "Unary"    -> CompileUnary(c, n, dst)
         [] n.kind = "Logical"  -> IF n.str = "a" THEN CompileAnd(c, n, dst)
                                                  ELSE CompileOr(c, n, dst)
         [] n.kind = "Index"    -> TwoOperands(c, n, OP_ARRAY_GET, dst)
         [] n.kind = "Field"    -> CompileField(c, n, dst)
         [] n.kind = "ArrayLit" -> CompileArray(c, n, dst)
         [] n.kind = "MapLit"   -> CompileMap(c, n, dst)
         [] n.kind = "Call"     -> CompileCall(c, n, dst)
         [] OTHER               -> Fail(c, "not an expression")

-----------------------------------------------------------------------------
(***************************************************************************)
(* Statements.                                                             *)
(***************************************************************************)
CompileAssign(c, target, value) ==
  LET t == c.top
      s == Temps(c, IF target.kind = "Index" THEN 3 ELSE 2)
      o == CompileExpr(s, target.kids[1], t)
      i == CompileExpr(o, target.kids[2], t + 1)
  IN  CASE target.kind = "Ident" ->
             IF target.str \notin DOMAIN c.locals THEN Fail(c, "undefined variable")
             ELSE CompileExpr(c, value, c.locals[target.str])
        [] target.kind = "Index" ->
             Release(Emit(CompileExpr(i, value, t + 2), OP_ARRAY_SET, <<t, t + 1, t + 2>>), t)
        [] target.kind = "Field" ->
             LET k == EmitK(Emit(CompileExpr(o, value, t + 1), OP_SET_PROP, <<t>>), StrV(target.str))
             IN  Release([k EXCEPT !.code = Append(@, t + 1)], t)
        [] OTHER -> Fail(c, "invalid assignment target")

\* Evaluate a condition and leave the loop or the branch through a hole.
Condition(c, n) ==
  LET t == c.top IN
  Release(JumpHole(CompileExpr(Temps(c, 1), n, t), OP_JUMP_IF_FALSE, <<t>>), t)

CompileIf(c, n) ==
  LET test == Condition(c, n.kids[1])
      then == CompileStmt(test, n.kids[2])
      skip == JumpHole(then, OP_JUMP, <<>>)
      else == CompileStmt(patch_here(skip, {Hole(test)}), n.kids[3])
  IN  IF Len(n.kids) = 3 THEN patch_here(else, {Hole(skip)})
      ELSE patch_here(then, {Hole(test)})

InLoop(c) == [c EXCEPT !.loops = Append(@, [continue |-> {}, break |-> {}])]

\* The back edge, the exit, and the holes of the loop that ends here.
CloseLoop(c, loop_start, exits) ==
  LET back == JumpHole(c, OP_JUMP, <<>>)
      done == patch_to(back, Hole(back), loop_start)
  IN  [patch_here(done, exits \cup Last(c.loops).break) EXCEPT !.loops = Front(@)]

ContinueHere(c, loop_start) == patch_here(c, Last(c.loops).continue)

CompileWhile(c, n) ==
  LET test == Condition(InLoop(c), n.kids[1])
      body == CompileStmt(test, n.kids[2])
      cont == patch_all(body, Last(body.loops).continue, Here(c))
  IN  IF Failed(body) THEN body ELSE CloseLoop(cont, Here(c), {Hole(test)})

CompileFor(c, n) ==
  LET init == CompileStmt(c, n.kids[1])
      has_cond == n.kids[2].kind # "Block" \/ n.kids[2].kids # <<>>
      test == IF has_cond THEN Condition(InLoop(init), n.kids[2]) ELSE InLoop(init)
      body == CompileStmt(test, n.kids[4])
      step == CompileStmt(ContinueHere(body, Here(init)), n.kids[3])
  IN  IF Failed(body) THEN body
      ELSE CloseLoop(step, Here(init), IF has_cond THEN {Hole(test)} ELSE {})

\* break and continue leave a hole for the innermost loop.
LeaveThrough(c, kind) ==
  LET j == JumpHole(c, OP_JUMP, <<>>) IN
  IF c.loops = <<>> THEN Fail(c, kind \o " outside loop")
  ELSE [j EXCEPT !.loops[Len(c.loops)][kind] = @ \cup {Hole(j)}]

\* An expression in a temporary, then op on it.
InTemp(c, n, op) ==
  LET t == c.top IN Release(Emit(CompileExpr(Temps(c, 1), n, t), op, <<t>>), t)

CompileAll(c, stmts) ==
  IF Failed(c) \/ stmts = <<>> THEN c ELSE CompileAll(CompileStmt(c, Head(stmts)), Tail(stmts))

CompileStmt(c, n) ==
  IF Failed(c) THEN c
  ELSE CASE n.kind = "Print"    -> InTemp(c, n.kids[1], OP_PRINT)
         [] n.kind = "ExprStmt" -> Release(CompileExpr(Temps(c, 1), n.kids[1], c.top), c.top)
         [] n.kind = "Return"   -> InTemp(c, IF n.kids = <<>> THEN Lit(NilV) ELSE n.kids[1], OP_RET)
         [] n.kind = "Assign"   -> CompileAssign(c, n.kids[1], n.kids[2])
         [] n.kind = "Block"    -> CompileAll(c, n.kids)
         [] n.kind = "If"       -> CompileIf(c, n)
         [] n.kind = "While"    -> CompileWhile(c, n)
         [] n.kind = "For"      -> CompileFor(c, n)
         [] n.kind = "Break"    -> LeaveThrough(c, "break")
         [] n.kind = "Continue" -> LeaveThrough(c, "continue")
         [] OTHER               -> Fail(c, "not a statement")

-----------------------------------------------------------------------------
(***************************************************************************)
(* The driver.                                                             *)
(***************************************************************************)
\* A function slot: its name interned, its code still to come.
AddFunction(c, name, num_params) ==
  LET k == Intern(c, StrV(name)) IN
  [k EXCEPT !.funcs = Append(@, [name_const |-> ConstIdx(k, StrV(name)),
              num_params |-> num_params % 256, num_regs |-> 0, code |-> <<>>])]

\* Faulty: a second function of the same name replaces the first.
IndexFunctionTwice(c, s) ==
  [AddFunction(c, s.str, Len(s.params)) EXCEPT !.findex = (s.str :> Len(c.funcs)) @@ @]

\* Pass 1 over the top-level functions.
IndexFunction(c, s) ==
  IF Failed(c) THEN c
  ELSE IF s.str \in DOMAIN c.findex THEN Fail(c, "duplicate function")
  ELSE IF Len(s.params) > kMaxCount THEN Fail(c, "too many parameters")
  ELSE [AddFunction(c, s.str, Len(s.params)) EXCEPT !.findex = (s.str :> Len(c.funcs)) @@ @]

\* index_lambdas: the lambdas in preorder, and n with its lambdas numbered from f on
\* (<<>> \o makes TLC evaluate a tree once).
RECURSIVE LambdasOf(_), Numbered(_, _)
LambdasOf(n) ==
  FoldLeft(LAMBDA s, k : s \o LambdasOf(k), IF n.kind = "Lambda" THEN <<n>> ELSE <<>>, n.kids)
Numbered(n, f) ==
  LET before(i) == Len(LambdasOf([n EXCEPT !.kids = SubSeq(@, 1, i - 1)])) IN
  [n EXCEPT !.id = f,
            !.kids = <<>> \o [i \in DOMAIN n.kids |-> Numbered(n.kids[i], f + before(i))]]

index_lambdas(c, program) ==
  FoldLeft(LAMBDA s, n : AddFunction(s, "<lambda>", Len(n.params)), c, LambdasOf(program))

Start0 == [consts |-> <<>>, funcs |-> <<>>, code |-> <<>>, locals |-> NoNames, top |-> 0, high |-> 0,
           loops |-> <<>>, enclosing |-> <<>>, upvals |-> <<>>, upsrc |-> <<>>, findex |-> NoNames,
           err |-> ""]

\* run(): index everything, then main, then the functions in order.
Compile(program) ==
  LET is_fn(s) == s.kind = "FnDecl"
      pass1 == FoldLeft(IndexFunction, AddFunction(Start0, "main", 0), SelectSeq(program.kids, is_fn))
      tree  == Numbered(program, Len(pass1.funcs))
      main  == Block(SelectSeq(tree.kids, LAMBDA s : ~is_fn(s)))
      body(c, s) == IF Failed(c) THEN c
                    ELSE CompileBody(c, c.findex[s.str], s.kids[1], s.params, FALSE)
  IN  IF Failed(pass1) THEN pass1
      ELSE FoldLeft(body, CompileBody(index_lambdas(pass1, program), 0, main, <<>>, TRUE),
                    SelectSeq(tree.kids, is_fn))
=============================================================================
