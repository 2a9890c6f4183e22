--------------------------------- MODULE Ast ---------------------------------
(***************************************************************************)
(* The syntax tree (src/src/ast.h).  A node's kids follow the per-kind     *)
(* shapes listed there.  str holds a name or the operator's tag, val the   *)
(* value of a literal; id stands for the node's address where the compiler *)
(* uses it as a key (a lambda's function index).  Lines are left out.      *)
(***************************************************************************)
EXTENDS Values, SequencesExt

Node(kind, str, val, params, kids) ==
  [kind |-> kind, str |-> str, val |-> val, params |-> params, kids |-> kids, id |-> 0]

Inner(kind, str, kids) == Node(kind, str, NilV, <<>>, kids)

Lit(v) == Node(CASE v.t = "Int"    -> "IntLit"
                 [] v.t = "Double" -> "FloatLit"
                 [] v.t = "String" -> "StrLit"
                 [] v.t = "Bool"   -> "BoolLit"
                 [] v.t = "Nil"    -> "NilLit", "", v, <<>>, <<>>)
Literals == {"IntLit", "FloatLit", "StrLit", "BoolLit", "NilLit"}

Ident(x)        == Inner("Ident", x, <<>>)
Binary2(op, a, b) == Inner(IF op \in {"a", "o"} THEN "Logical" ELSE "Binary", op, <<a, b>>)
Unary1(op, a)   == Inner("Unary", op, <<a>>)
Index(c, i)     == Inner("Index", "", <<c, i>>)
Field(c, name)  == Inner("Field", name, <<c>>)
CallOf(f, args) == Inner("Call", f, args)
ArrayLit(elems) == Inner("ArrayLit", "", elems)
MapLit(kids)    == Inner("MapLit", "", kids)
Lambda(params, body) == Node("Lambda", "", NilV, params, <<body>>)

Assign(target, value) == Inner("Assign", "=", <<target, value>>)
ExprStmt(e)     == Inner("ExprStmt", "", <<e>>)
PrintStmt(e)    == Inner("Print", "", <<e>>)
Return(kids)    == Inner("Return", "", kids)
If(kids)        == Inner("If", "", kids)
While(c, body)  == Inner("While", "", <<c, body>>)
For(init, c, step, body) == Inner("For", "", <<init, c, step, body>>)
Break           == Inner("Break", "", <<>>)
Continue        == Inner("Continue", "", <<>>)
Block(stmts)    == Inner("Block", "", stmts)
FnDecl(name, params, body) == Node("FnDecl", name, NilV, params, <<body>>)
Program(stmts)  == Inner("Program", "", stmts)
=============================================================================
