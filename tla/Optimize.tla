------------------------------ MODULE Optimize -------------------------------
(***************************************************************************)
(* Constant folding over the syntax tree (src/src/optimize.cc).  A rewrite *)
(* in place is the function from the old tree to the new one.              *)
(***************************************************************************)
EXTENDS Ast

is_int(n)  == n.kind = "IntLit"
num_lit(n) == n.kind \in {"IntLit", "FloatLit"}

\* What the interpreter would reject is left to it.
Traps(op, x, y) ==
  \/ op \in {"/", "%"} /\ (y = 0 \/ (x = MinInt /\ y = -1))
  \/ op \in {"L", "R"} /\ (y < 0 \/ y >= IntBits)

FoldInts(op, x, y) ==
  CASE op = "+" -> IntV(Wrap(x + y))
    [] op = "-" -> IntV(Wrap(x - y))
    [] op = "*" -> IntV(Wrap(x * y))
    [] op = "/" -> IntV(Trunc(x, y))
    [] op = "%" -> IntV(x - y * Trunc(x, y))
    [] op = "E" -> BoolV(x = y)
    [] op = "N" -> BoolV(x # y)
    [] op = "<" -> BoolV(x < y)
    [] op = "l" -> BoolV(x <= y)
    [] op = ">" -> BoolV(x > y)
    [] op = "g" -> BoolV(x >= y)
    [] op = "&" -> IntV(Wrap(Unsigned(x) & Unsigned(y)))
    [] op = "|" -> IntV(Wrap(Unsigned(x) | Unsigned(y)))
    [] op = "^" -> IntV(Wrap(Unsigned(x) ^^ Unsigned(y)))
    [] op = "L" -> IntV(Wrap(Unsigned(x) * 2 ^ y))
    [] op = "R" -> IntV(Wrap(Unsigned(x) \div 2 ^ y))

\* Mixed and double operands; a result that is not finite is left alone.
DoubleFold(op, x, y) ==
  CASE op = "+" -> DAdd(x, y)
    [] op = "-" -> DAdd(x, DNeg(y))
    [] op = "*" -> DMul(x, y)
    [] op = "/" -> DDiv(x, y)
    [] op = "%" -> fmod(x, y)
    [] op = "E" -> BoolV(DEq(x, y))
    [] op = "N" -> BoolV(~DEq(x, y))
    [] op = "<" -> BoolV(DLt(x, y))
    [] op = "l" -> BoolV(DLt(x, y) \/ DEq(x, y))
    [] op = ">" -> BoolV(DLt(y, x))
    [] op = "g" -> BoolV(DLt(y, x) \/ DEq(x, y))
    [] OTHER   -> NaN

fold_binary(n) ==
  LET a == n.kids[1]
      b == n.kids[2]
      r == DoubleFold(n.str, as_double(a.val), as_double(b.val))
  IN  IF is_int(a) /\ is_int(b)
      THEN IF Traps(n.str, a.val.n, b.val.n) THEN n ELSE Lit(FoldInts(n.str, a.val.n, b.val.n))
      ELSE IF num_lit(a) /\ num_lit(b) /\ (r.t = "Bool" \/ isfinite(r)) THEN Lit(r)
      ELSE n

fold_unary(n) ==
  LET k == n.kids[1] IN
  CASE n.str = "-" /\ is_int(k)               -> Lit(IntV(Wrap(-k.val.n)))
    [] n.str = "-" /\ k.kind = "FloatLit"     -> Lit(DNeg(k.val))
    [] n.str = "~" /\ is_int(k)               -> Lit(IntV(-k.val.n - 1))
    [] n.str = "!" /\ k.kind \in Literals     -> Lit(BoolV(~truthy(k.val)))
    [] OTHER                                  -> n

fold_logical(n) ==
  LET l == n.kids[1]
      r == n.kids[2]
  IN  IF l.kind = "BoolLit" /\ r.kind = "BoolLit"
      THEN Lit(BoolV(IF n.str = "a" THEN truthy(l.val) /\ truthy(r.val)
                                    ELSE truthy(l.val) \/ truthy(r.val)))
      ELSE n

\* Post-order: the children first, then the node.
RECURSIVE fold(_)
fold(n) ==
  LET m == [n EXCEPT !.kids = <<>> \o [i \in DOMAIN n.kids |-> fold(n.kids[i])]] IN
  CASE n.kind = "Binary"  -> fold_binary(m)
    [] n.kind = "Unary"   -> fold_unary(m)
    [] n.kind = "Logical" -> fold_logical(m)
    [] OTHER              -> m
=============================================================================
