------------------------------ MODULE Reference ------------------------------
(***************************************************************************)
(* What a program means, by evaluation of its tree: the definition the     *)
(* compiled code is compared with.  It knows no registers, no jumps and no *)
(* constant pool.  Variables belong to a function, start as nil and are    *)
(* captured by value, one level up, when a closure is made.                *)
(*                                                                         *)
(* An evaluation state m holds                                             *)
(*   vars, cap     the variables of the current call, what it captured     *)
(*   objs, clos    containers and closures created so far                  *)
(*   out, err      the output, the error that ended the run                *)
(*   fuel          calls and iterations left                               *)
(*   sig, val      how the last statement ended, the last value            *)
(***************************************************************************)
EXTENDS Ast

CONSTANTS Fuel, Builtins

\* The variables of a function: what its body assigns, nested functions apart.
RECURSIVE Assigned(_), Eval(_, _), Exec(_, _), ExecAll(_, _)
Assigned(n) ==
  (IF n.kind = "Assign" /\ n.kids[1].kind = "Ident" THEN {n.kids[1].str} ELSE {})
    \cup (IF n.kind \in {"Lambda", "FnDecl"} THEN {}
          ELSE UNION {Assigned(n.kids[i]) : i \in DOMAIN n.kids})

Functions(program) == {s \in ToSet(program.kids) : s.kind = "FnDecl"}
FunNames(fns) == {f.str : f \in fns}
FunOf(fns, x) == CHOOSE f \in fns : f.str = x

Raised(m, msg) == IF m.err = "" THEN [m EXCEPT !.err = msg] ELSE m
With(m, v) == IF v.t = "Error" THEN Raised(m, v.s) ELSE [m EXCEPT !.val = v]

\* <<state, values>> of expressions evaluated from left to right.
EvalAll(m, ns) ==
  LET next(acc, n) == LET r == Eval(acc[1], n) IN <<r, Append(acc[2], r.val)>>
  IN  FoldLeft(next, <<m, <<>>>>, ns)

NewObj(m, kind, content) ==
  [m EXCEPT !.objs = Append(@, content), !.val = Ref(kind, Len(m.objs) + 1)]
NewClosure(m, fn, cap) ==
  [m EXCEPT !.clos = Append(@, [params |-> fn.params, body |-> fn.kids[1], cap |-> cap]),
            !.val = Ref("Closure", Len(m.clos) + 1)]

\* Call fn on args; the caller's variables are untouched.
Apply(m, fn, args) ==
  LET bound == {i \in DOMAIN fn.params : i <= Len(args)}
      lastOf(x) == SelectLastInSeq(fn.params, LAMBDA p : p = x)
      vars == [x \in ToSet(fn.params) \cup Assigned(fn.body) |->
                 IF x \in ToSet(fn.params) /\ lastOf(x) \in bound THEN args[lastOf(x)] ELSE NilV]
      r == Exec([m EXCEPT !.vars = vars, !.cap = fn.cap, !.fuel = @ - 1, !.sig = "next",
                          !.val = NilV], fn.body)
  IN  IF m.err # "" THEN m
      ELSE IF m.fuel = 0 THEN Raised(m, "fuel")
      ELSE [r EXCEPT !.vars = m.vars, !.cap = m.cap, !.sig = "next",
                     !.val = IF r.sig = "return" THEN @ ELSE NilV]

Length(m, v) ==
  IF v.t = "String" THEN IntV(Len(v.s))
  ELSE IF v.t = "Array" THEN IntV(Len(m.objs[v.n]))
  ELSE IF v.t = "Map" THEN IntV(Cardinality(DOMAIN m.objs[v.n]))
  ELSE Error("builtin error")

EvalCall(m, n) ==
  LET a == EvalAll(m, n.kids)
      callee == IF n.str \in DOMAIN m.vars THEN m.vars[n.str] ELSE m.cap[n.str]
      fn == FunOf(m.fns, n.str)
  IN  IF n.str \in DOMAIN m.vars \cup DOMAIN m.cap
      THEN IF callee.t = "Closure" THEN Apply(a[1], m.clos[callee.n], a[2])
           ELSE Raised(a[1], "call of non-function")
      ELSE IF n.str = "push"
      THEN IF a[1].err # "" THEN a[1]
           ELSE IF a[2][1].t = "Array"
           THEN [a[1] EXCEPT !.objs[a[2][1].n] = Append(@, a[2][2]), !.val = NilV]
           ELSE Raised(a[1], "type error")
      ELSE IF n.str = "len" THEN IF a[1].err # "" THEN a[1] ELSE With(a[1], Length(a[1], a[2][1]))
      ELSE Apply(a[1], [params |-> fn.params, body |-> fn.kids[1], cap |-> [x \in {} |-> NilV]], a[2])

Element(m, c, i) ==
  IF c.t # "Array" \/ i.t # "Int" THEN Error("type error")
  ELSE IF i.n < 0 \/ i.n >= Len(m.objs[c.n]) THEN Error("index out of range")
  ELSE m.objs[c.n][i.n + 1]

EvalIdent(m, x) ==
  IF x \in DOMAIN m.vars THEN With(m, m.vars[x])
  ELSE IF x \in DOMAIN m.cap THEN With(m, m.cap[x])
  ELSE NewClosure(m, FunOf(m.fns, x), [y \in {} |-> NilV])

\* Both connectives deliver a Bool, and evaluate the right side only if needed.
EvalLogical(m, n) ==
  LET a == Eval(m, n.kids[1])
      b == Eval(a, n.kids[2])
  IN  IF a.err # "" THEN a
      ELSE IF truthy(a.val) = (n.str = "o") THEN With(a, BoolV(n.str = "o"))
      ELSE With(b, BoolV(truthy(b.val)))

\* The operators that evaluate all their operands first, here to v.
Combine(m, n, v) ==
  LET keys == [p \in 1 .. Len(n.kids) \div 2 |-> n.kids[2 * p - 1].val.s] IN
  CASE n.kind = "Binary"   -> With(m, Arith(n.str, v[1], v[2]))
    [] n.kind = "Unary"    -> With(m, UnaryArith(n.str, v[1]))
    [] n.kind = "Index"    -> With(m, Element(m, v[1], v[2]))
    [] n.kind = "ArrayLit" -> NewObj(m, "Array", v)
    [] n.kind = "MapLit"   ->
         NewObj(m, "Map", [k \in ToSet(keys) |-> v[2 * SelectLastInSeq(keys, LAMBDA s : s = k)]])
    [] n.kind = "Field"    ->
         IF v[1].t # "Map" THEN Raised(m, "type error")
         ELSE With(m, IF n.str \in DOMAIN m.objs[v[1].n] THEN m.objs[v[1].n][n.str] ELSE NilV)

Eval(m, n) ==
  LET a == EvalAll(m, n.kids)
      done == a[1]
      v == a[2]
  IN
  IF m.err # "" THEN m
  ELSE CASE n.kind \in Literals   -> With(m, n.val)
         [] n.kind = "Ident"      -> EvalIdent(m, n.str)
         [] n.kind = "Lambda"     -> NewClosure(m, n, m.vars)
         [] n.kind = "Logical"    -> EvalLogical(m, n)
         [] n.kind = "Call"       -> EvalCall(m, n)
         [] OTHER -> IF done.err # "" THEN done ELSE Combine(done, n, v)

ExecAssign(m, target, n) ==
  LET a == EvalAll(m, target.kids \o <<n>>)
      done == a[1]
      v == a[2]
  IN  IF done.err # "" THEN done
      ELSE IF target.kind = "Ident" THEN [done EXCEPT !.vars[target.str] = v[1]]
      ELSE IF target.kind = "Field"
      THEN IF v[1].t # "Map" THEN Raised(done, "type error")
           ELSE [done EXCEPT !.objs[v[1].n] = (target.str :> v[2]) @@ @]
      ELSE IF Element(done, v[1], v[2]).t = "Error" THEN With(done, Element(done, v[1], v[2]))
      ELSE [done EXCEPT !.objs[v[1].n][v[2].n + 1] = v[3]]

\* Containers show their kind only, as print does.
Shown(v) == IF v.t \in {"Array", "Map", "Closure"} THEN v.t ELSE v

\* One more iteration of a loop with condition c, body and step.
RECURSIVE Iterate(_, _, _, _)
Iterate(m, c, body, step) ==
  LET t == IF c.kind = "Block" THEN With(m, BoolV(TRUE)) ELSE Eval(m, c)
      b == Exec([t EXCEPT !.fuel = @ - 1], body)
      s == Exec([b EXCEPT !.sig = "next"], step)
  IN  IF t.err # "" THEN t
      ELSE IF ~truthy(t.val) THEN t
      ELSE IF t.fuel = 0 THEN Raised(t, "fuel")
      ELSE IF b.err # "" \/ b.sig = "return" THEN b
      ELSE IF b.sig = "break" THEN [b EXCEPT !.sig = "next"]
      ELSE Iterate(s, c, body, step)

ExecAll(m, stmts) ==
  IF m.err # "" \/ m.sig # "next" \/ stmts = <<>> THEN m ELSE ExecAll(Exec(m, Head(stmts)), Tail(stmts))

Exec(m, n) ==
  LET e == Eval(m, n.kids[1]) IN
  IF m.err # "" \/ m.sig # "next" THEN m
  ELSE CASE n.kind = "Block"    -> FoldLeft(Exec, m, n.kids)
         [] n.kind = "Assign"   -> ExecAssign(m, n.kids[1], n.kids[2])
         [] n.kind = "If"       ->
              IF e.err # "" \/ (Len(n.kids) = 2 /\ ~truthy(e.val)) THEN e
              ELSE Exec(e, IF truthy(e.val) THEN n.kids[2] ELSE n.kids[3])
         [] n.kind = "While"    -> Iterate(m, n.kids[1], n.kids[2], Block(<<>>))
         [] n.kind = "For"      ->
              Iterate(Exec(m, n.kids[1]), n.kids[2], n.kids[4], n.kids[3])
         [] n.kind = "Break"    -> [m EXCEPT !.sig = "break"]
         [] n.kind = "Continue" -> [m EXCEPT !.sig = "continue"]
         [] n.kind = "ExprStmt" -> e
         [] n.kind = "Print"    -> IF e.err # "" THEN e ELSE [e EXCEPT !.out = Append(@, Shown(e.val))]
         [] n.kind = "Return"   ->
              IF n.kids = <<>> THEN [m EXCEPT !.sig = "return", !.val = NilV]
              ELSE [e EXCEPT !.sig = "return"]

MainOf(program) == Block(SelectSeq(program.kids, LAMBDA s : s.kind # "FnDecl"))

Meaning(program) ==
  Exec([vars |-> [x \in Assigned(MainOf(program)) |-> NilV], cap |-> [x \in {} |-> NilV],
        fns |-> Functions(program), objs |-> <<>>, clos |-> <<>>, out |-> <<>>, err |-> "",
        fuel |-> Fuel, sig |-> "next", val |-> NilV], MainOf(program))

-----------------------------------------------------------------------------
(***************************************************************************)
(* The programs that mean something: every name is in scope.               *)
(***************************************************************************)
RECURSIVE LegalExpr(_, _, _, _), LegalStmt(_, _, _, _, _)

\* own and up: the variables of this function and of the one around it.
LegalExpr(n, own, up, fns) ==
  CASE n.kind = "Ident"  -> n.str \in own \cup up \cup FunNames(fns)
    [] n.kind = "Lambda" ->
         LegalStmt(n.kids[1], ToSet(n.params) \cup Assigned(n.kids[1]), own, fns, FALSE)
    [] OTHER ->
         /\ n.kind \in Literals \cup {"Binary", "Unary", "Logical", "Index", "Field", "ArrayLit",
                                      "MapLit", "Call"}
         /\ n.kind = "Call" =>
              \/ n.str \in own \cup up
              \/ n.str = "push" /\ Len(n.kids) = 2
              \/ n.str # "push" /\ n.str \notin DOMAIN Builtins /\ n.str \in FunNames(fns)
              \/ /\ n.str # "push" /\ n.str \in DOMAIN Builtins
                 /\ Builtins[n.str][1] <= Len(n.kids) /\ Len(n.kids) <= Builtins[n.str][2]
         /\ n.kind = "MapLit" => \A p \in 1 .. Len(n.kids) \div 2 : n.kids[2 * p - 1].kind = "StrLit"
         /\ \A i \in DOMAIN n.kids : LegalExpr(n.kids[i], own, up, fns)

LegalStmt(n, own, up, fns, inLoop) ==
  LET stmts(loop, ks) == \A i \in ks : LegalStmt(n.kids[i], own, up, fns, loop)
      exprs(ks) == \A i \in ks : LegalExpr(n.kids[i], own, up, fns)
  IN  CASE n.kind = "Block"  -> stmts(inLoop, DOMAIN n.kids)
        [] n.kind = "If"     -> exprs({1}) /\ stmts(inLoop, 2 .. Len(n.kids))
        [] n.kind = "While"  -> exprs({1}) /\ stmts(TRUE, {2})
        [] n.kind = "For"    -> /\ stmts(inLoop, {1}) /\ stmts(TRUE, {3, 4})
                                /\ n.kids[2].kind = "Block" \/ exprs({2})
        [] n.kind \in {"Break", "Continue"} -> inLoop
        [] n.kind \in {"Print", "ExprStmt", "Return"} -> exprs(DOMAIN n.kids)
        [] n.kind = "Assign" -> /\ n.kids[1].kind \in {"Ident", "Index", "Field"}
                                /\ exprs({1, 2})
        [] OTHER -> FALSE

Legal(program) ==
  LET fns == Functions(program)
      named == SelectSeq(program.kids, LAMBDA s : s.kind = "FnDecl")
      main == MainOf(program)
  IN  /\ \A i, j \in DOMAIN named : named[i].str = named[j].str => i = j
      /\ LegalStmt(main, Assigned(main), {}, fns, FALSE)
      /\ \A f \in fns : LegalStmt(f.kids[1], ToSet(f.params) \cup Assigned(f.kids[1]), {}, fns, FALSE)
=============================================================================
