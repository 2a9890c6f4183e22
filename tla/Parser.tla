------------------------------- MODULE Parser --------------------------------
(***************************************************************************)
(* The recursive-descent parser (src/src/parser.cc) over a sequence of     *)
(* tokens ending in Eof.  A token is [k, v]: its kind (token.h) and, for a *)
(* literal or a name, its value.  A parser state p is a record:            *)
(*   toks, pos     the tokens and the next one's index                     *)
(*   depth         how many guarded calls are open                         *)
(*   node          what the last call returned                             *)
(*   err, at       the first error, "" if none, and the token it is at     *)
(* Once err is set every caller returns without reading another token.     *)
(***************************************************************************)
EXTENDS Ast

CONSTANT kMaxDepth   \* 200 in the code
ASSUME kMaxDepthAssumption == kMaxDepth \in Nat

Tok(k) == [k |-> k, v |-> NilV]
Word(x) == [k |-> "Ident", v |-> StrV(x)]
Punctuation(k) == k \notin {"Int", "Float", "Str", "Ident"}

\* Binding power of each binary operator's token, 0 for any other token.
Levels == << {"PipePipe"}, {"AmpAmp"}, {"EqEq", "BangEq"}, {"Lt", "Le", "Gt", "Ge"}, {"Pipe"}, {"Caret"},
             {"Amp"}, {"Shl", "Shr"}, {"Plus", "Minus"}, {"Star", "Slash", "Percent"} >>
bin_prec(k) == SelectInSeq(Levels, LAMBDA level : k \in level)

bin_op(k) ==
  CASE k = "Plus" -> "+" [] k = "Minus" -> "-" [] k = "Star" -> "*" [] k = "Slash" -> "/"
    [] k = "Percent" -> "%" [] k = "EqEq" -> "E" [] k = "BangEq" -> "N" [] k = "Lt" -> "<"
    [] k = "Le" -> "l" [] k = "Gt" -> ">" [] k = "Ge" -> "g" [] k = "Amp" -> "&" [] k = "Pipe" -> "|"
    [] k = "Caret" -> "^" [] k = "Shl" -> "L" [] k = "Shr" -> "R" [] k = "AmpAmp" -> "a"
    [] k = "PipePipe" -> "o"
prefix_op == [k \in {"Minus", "Bang", "Tilde"} |->
                IF k = "Minus" THEN "-" ELSE IF k = "Bang" THEN "!" ELSE "~"]

-----------------------------------------------------------------------------
peek(p) == p.toks[p.pos]
check(p, k) == peek(p).k = k
failed(p) == p.err # ""
fail(p, msg) == IF failed(p) THEN p ELSE [p EXCEPT !.err = msg, !.at = p.pos]

\* Never past the Eof sentinel.
advance(p) == IF check(p, "Eof") THEN p ELSE [p EXCEPT !.pos = @ + 1]
expect(p, k, msg) == IF failed(p) THEN p ELSE IF check(p, k) THEN advance(p) ELSE fail(p, msg)
Yield(p, n) == IF failed(p) THEN p ELSE [p EXCEPT !.node = n]

\* DepthGuard: entered by unary, expr, assignment and stmt, left on return.
Enter(p) == IF p.depth >= kMaxDepth THEN fail(p, "nesting too deep") ELSE [p EXCEPT !.depth = @ + 1]
Leave(p, r) == [r EXCEPT !.depth = p.depth]

RECURSIVE expr(_, _), unary(_), postfix(_), assignment(_), block(_), stmts(_, _), stmt(_),
          list(_, _, _, _), params(_, _), binary_rest(_, _), parse_if(_)

\* item {, item} up to close: the items after those in acc; a map's items are pairs.
list(p, pair, close, acc) ==
  LET k == expr(p, 1)
      v == expr(expect(k, "Assign", "expected '=' in map literal"), 1)
      r == IF pair THEN v ELSE k
      got == acc \o (IF pair THEN <<k.node, v.node>> ELSE <<r.node>>)
  IN  IF failed(r) THEN r
      ELSE IF check(r, "Comma") THEN list(advance(r), pair, close, got)
      ELSE Yield(expect(r, close, "unclosed list"), got)
Listed(p, pair, close) ==
  IF check(p, close) THEN Yield(advance(p), <<>>) ELSE list(p, pair, close, <<>>)

\* ( names ), from the opening parenthesis on.
params(p, acc) ==
  IF ~check(p, "Ident") THEN fail(p, "expected parameter name")
  ELSE LET r == advance(p)
           got == Append(acc, peek(p).v.s)
       IN  IF check(r, "Comma") THEN params(advance(r), got)
           ELSE Yield(expect(r, "RParen", "expected ')'"), got)
Params(p) ==
  LET o == expect(p, "LParen", "expected '('") IN
  IF failed(o) THEN o
  ELSE IF check(o, "RParen") THEN Yield(advance(o), <<>>)
  ELSE params(o, <<>>)

\* Parameters and body; the node is the pair of them.
Signature(p) ==
  LET ps == Params(p)
      b == block(ps)
  IN  IF failed(ps) THEN ps ELSE Yield(b, <<ps.node, b.node>>)

Parenthesized(p, open, close, inner(_)) ==
  LET o == expect(p, open, "expected '" \o open \o "'")
      e == inner(o)
      c == expect(e, close, "expected '" \o close \o "'")
  IN  IF failed(o) THEN o ELSE c

primary(p) ==
  LET t == peek(p)
      next == advance(p)
      e == IF t.k = "LBracket" THEN Listed(next, FALSE, "RBracket") ELSE Listed(next, TRUE, "RBrace")
      lam == Signature(next)
  IN  CASE t.k \in {"Int", "Float", "Str"} -> Yield(next, Lit(t.v))
        [] t.k \in {"KwTrue", "KwFalse"}   -> Yield(next, Lit(BoolV(t.k = "KwTrue")))
        [] t.k = "KwNil"    -> Yield(next, Lit(NilV))
        [] t.k = "Ident"    -> Yield(next, Ident(t.v.s))
        [] t.k = "LParen"   -> Parenthesized(p, "LParen", "RParen", LAMBDA q : expr(q, 1))
        [] t.k = "LBracket" -> Yield(e, ArrayLit(e.node))
        [] t.k = "LBrace"   -> Yield(e, MapLit(e.node))
        [] t.k = "KwFn"     -> Yield(lam, Lambda(lam.node[1], lam.node[2]))
        [] OTHER            -> fail(p, "expected expression")

\* Index, field and call suffixes; only a name can be called.
postfix(p) ==
  LET base == p.node
      i == Parenthesized(p, "LBracket", "RBracket", LAMBDA q : expr(q, 1))
      name == advance(p)
      args == Listed(advance(p), FALSE, "RParen")
  IN  IF failed(p) THEN p
      ELSE IF check(p, "LBracket") THEN postfix(Yield(i, Index(base, i.node)))
      ELSE IF check(p, "Dot")
      THEN IF check(name, "Ident") THEN postfix(Yield(advance(name), Field(base, peek(name).v.s)))
           ELSE fail(name, "expected field name")
      ELSE IF check(p, "LParen")
      THEN IF base.kind = "Ident" THEN postfix(Yield(args, CallOf(base.str, args.node)))
           ELSE fail(p, "can only call a name")
      ELSE p

unary(p) ==
  LET g == Enter(p)
      k == peek(p).k
      operand == unary(advance(g))
  IN  IF failed(g) THEN g
      ELSE Leave(p, IF k \in DOMAIN prefix_op THEN Yield(operand, Unary1(prefix_op[k], operand.node))
                                              ELSE postfix(primary(g)))

\* Faulty: operators of one precedence group to the right.
RightOperandLoose(p, prec) == expr(p, prec)

\* The right operand binds tighter, so that equal operators group to the left.
RightOperand(p, prec) == expr(p, prec + 1)

\* The loop of expr(): operators that bind at least as tightly as min, after p.node.
binary_rest(p, min) ==
  LET k == peek(p).k
      r == RightOperand(advance(p), bin_prec(k))
  IN  IF failed(p) \/ bin_prec(k) = 0 \/ bin_prec(k) < min THEN p
      ELSE binary_rest(Yield(r, Binary2(bin_op(k), p.node, r.node)), min)

expr(p, min) ==
  LET g == Enter(p) IN IF failed(g) THEN g ELSE Leave(p, binary_rest(unary(g), min))

\* expr, then an optional = value, which associates to the right.
assignment(p) ==
  LET g == Enter(p)
      left == expr(g, 1)
      value == assignment(advance(left))
  IN  IF failed(g) THEN g
      ELSE IF failed(left) \/ ~check(left, "Assign") THEN Leave(p, left)
      ELSE IF failed(value) THEN value
      ELSE IF left.node.kind \notin {"Ident", "Index", "Field"} THEN fail(value, "invalid assignment target")
      ELSE Leave(p, Yield(value, Assign(left.node, value.node)))

-----------------------------------------------------------------------------
\* Statements up to a closing brace (or, for the program, Eof).
stmts(p, acc) ==
  LET s == stmt(p) IN
  IF check(p, "RBrace") \/ check(p, "Eof") THEN Yield(p, acc)
  ELSE IF failed(s) THEN s ELSE stmts(s, Append(acc, s.node))

block(p) ==
  LET o == expect(p, "LBrace", "expected '{'")
      s == stmts(o, <<>>)
  IN  IF failed(o) THEN o ELSE Yield(expect(s, "RBrace", "expected '}'"), Block(s.node))

\* if or elif: an elif is an If in the else slot.  No depth guard on this recursion.
parse_if(p) ==
  LET c == Parenthesized(advance(p), "LParen", "RParen", assignment)
      t == block(c)
      e == IF check(t, "KwElif") THEN parse_if(t) ELSE block(advance(t))
  IN  IF failed(c) THEN c
      ELSE IF failed(t) THEN t
      ELSE IF check(t, "KwElif") \/ check(t, "KwElse") THEN Yield(e, If(<<c.node, t.node, e.node>>))
      ELSE Yield(t, If(<<c.node, t.node>>))

AsStmt(n) == IF n.kind = "Assign" THEN n ELSE ExprStmt(n)

\* A clause of a for: absent before the token that ends it.
Clause(p, close, wrap(_)) ==
  LET a == assignment(p)
      r == IF check(p, close) THEN Yield(p, Block(<<>>)) ELSE Yield(a, wrap(a.node))
      c == expect(r, close, "expected '" \o close \o "'")
  IN  IF failed(p) THEN p ELSE c

for_stmt(p) ==
  LET o == expect(advance(p), "LParen", "expected '(' after for")
      init == Clause(o, "Semicolon", AsStmt)
      cond == Clause(init, "Semicolon", LAMBDA n : n)
      step == Clause(cond, "RParen", AsStmt)
      body == block(step)
  IN  IF failed(step) THEN step ELSE Yield(body, For(init.node, cond.node, step.node, body.node))

while_stmt(p) ==
  LET c == Parenthesized(advance(p), "LParen", "RParen", assignment)
      b == block(c)
  IN  IF failed(c) THEN c ELSE Yield(b, While(c.node, b.node))

fn_decl(p) ==
  LET name == advance(p)
      s == Signature(advance(name))
  IN  IF ~check(name, "Ident") THEN fail(name, "expected function name")
      ELSE Yield(s, FnDecl(peek(name).v.s, s.node[1], s.node[2]))

\* The ; after an expression may be left out behind a closing brace.
Terminated(p) ==
  IF failed(p) \/ (~check(p, "Semicolon") /\ p.toks[p.pos - 1].k = "RBrace") THEN p
  ELSE expect(p, "Semicolon", "expected ';'")

Semicolon(p) == expect(p, "Semicolon", "expected ';'")

stmt(p) ==
  LET g == Enter(p)
      k == peek(p).k
      arg == assignment(advance(g))
      e == assignment(g)
      r == CASE k = "KwPrint"    -> Yield(Semicolon(arg), PrintStmt(arg.node))
             [] k = "KwReturn"   -> IF check(advance(g), "Semicolon")
                                    THEN Yield(advance(advance(g)), Return(<<>>))
                                    ELSE Yield(Semicolon(arg), Return(<<arg.node>>))
             [] k = "KwIf"       -> parse_if(g)
             [] k = "KwWhile"    -> while_stmt(g)
             [] k = "KwFor"      -> for_stmt(g)
             [] k = "KwFn"       -> fn_decl(g)
             [] k = "LBrace"     -> block(g)
             [] k = "KwBreak"    -> Yield(Semicolon(advance(g)), Break)
             [] k = "KwContinue" -> Yield(Semicolon(advance(g)), Continue)
             [] OTHER            -> Yield(Terminated(e), AsStmt(e.node))
  IN  IF failed(g) THEN g ELSE Leave(p, r)

AtEnd(p) == check(p, "Eof")

\* A stray closing brace at top level is an expression that is missing.
parse(toks) ==
  LET p == [toks |-> toks, pos |-> 1, depth |-> 0, node |-> NilV, err |-> "", at |-> 0]
      s == stmts(p, <<>>)
  IN  IF failed(s) \/ AtEnd(s) THEN Yield(s, Program(s.node)) ELSE fail(s, "expected expression")
=============================================================================
