------------------------------- MODULE Format --------------------------------
(***************************************************************************)
(* The canonical formatter (struct Printer, src/src/astprint.cc): the      *)
(* tokens of the text it emits, without the layout between them.           *)
(* FloatText and StrText stand for what writing a literal and reading it   *)
(* back does to its value: std::to_string keeps six decimals, and the \r   *)
(* that emit_str_lit writes is read back as the letter r.                  *)
(***************************************************************************)
EXTENDS Parser

binop_str(op) ==
  CASE op = "+" -> "Plus" [] op = "-" -> "Minus" [] op = "*" -> "Star" [] op = "/" -> "Slash"
    [] op = "%" -> "Percent" [] op = "E" -> "EqEq" [] op = "N" -> "BangEq" [] op = "<" -> "Lt"
    [] op = "l" -> "Le" [] op = ">" -> "Gt" [] op = "g" -> "Ge" [] op = "&" -> "Amp" [] op = "|" -> "Pipe"
    [] op = "^" -> "Caret" [] op = "L" -> "Shl" [] op = "R" -> "Shr" [] op = "a" -> "AmpAmp"
    [] op = "o" -> "PipePipe"
unop_str(op) == CASE op = "-" -> "Minus" [] op = "!" -> "Bang" [] op = "~" -> "Tilde"

CarriageReturn == "\r"
Tiny == Val("Double", 0, "tiny")   \* a double that six decimals print as zero
StrText(s)   == IF s = CarriageReturn THEN "r" ELSE s
FloatText(v) == IF v = Tiny THEN Dbl(0) ELSE v

LitTok(n) ==
  CASE n.kind = "IntLit"   -> [k |-> "Int", v |-> n.val]
    [] n.kind = "FloatLit" -> [k |-> "Float", v |-> FloatText(n.val)]
    [] n.kind = "StrLit"   -> [k |-> "Str", v |-> StrV(StrText(n.val.s))]
    [] n.kind = "BoolLit"  -> Tok(IF n.val.n = 1 THEN "KwTrue" ELSE "KwFalse")
    [] n.kind = "NilLit"   -> Tok("KwNil")

is_compound(n) == n.kind \in {"Binary", "Logical", "Unary", "Assign"}

RECURSIVE ends_in_block(_), Print1(_), PrintStmt1(_), ElseChain(_)

\* Such an expression statement gets no ; of its own.
ends_in_block(n) == n.kind = "Lambda" \/ (n.kind = "Assign" /\ ends_in_block(n.kids[2]))

Around(open, s, close) == <<Tok(open)>> \o s \o <<Tok(close)>>
Joined(parts) == FoldLeft(LAMBDA s, x : IF s = <<>> THEN x ELSE s \o <<Tok("Comma")>> \o x, <<>>, parts)
Commas(ns) == Joined([i \in DOMAIN ns |-> Print1(ns[i])])
Signature1(ps, body) ==
  Around("LParen", Joined([i \in DOMAIN ps |-> <<Word(ps[i])>>]), "RParen") \o body

\* Faulty: the right operand of an operator is not parenthesized.
OperandUnlessRight(n) == IF n.kind \in {"Logical", "Assign"} THEN Around("LParen", Print1(n), "RParen") ELSE Print1(n)

\* operand(): parenthesized when compound, whatever the precedences.
operand(n) == IF is_compound(n) THEN Around("LParen", Print1(n), "RParen") ELSE Print1(n)

BlockText(n) ==
  Around("LBrace", FoldLeft(LAMBDA s, k : s \o PrintStmt1(k), <<>>, n.kids), "RBrace")

\* Printer::expr
Print1(n) ==
  CASE n.kind \in Literals -> <<LitTok(n)>>
    [] n.kind = "Ident"    -> <<Word(n.str)>>
    [] n.kind \in {"Binary", "Logical"} ->
         operand(n.kids[1]) \o <<Tok(binop_str(n.str))>> \o operand(n.kids[2])
    [] n.kind = "Unary"    -> <<Tok(unop_str(n.str))>> \o operand(n.kids[1])
    [] n.kind = "Assign"   -> Print1(n.kids[1]) \o <<Tok("Assign")>> \o Print1(n.kids[2])
    [] n.kind = "Index"    -> operand(n.kids[1]) \o Around("LBracket", Print1(n.kids[2]), "RBracket")
    [] n.kind = "Field"    -> operand(n.kids[1]) \o <<Tok("Dot"), Word(n.str)>>
    [] n.kind = "Call"     -> <<Word(n.str)>> \o Around("LParen", Commas(n.kids), "RParen")
    [] n.kind = "ArrayLit" -> Around("LBracket", Commas(n.kids), "RBracket")
    [] n.kind = "MapLit"   ->
         Around("LBrace", Joined([p \in 1 .. Len(n.kids) \div 2 |->
                  Print1(n.kids[2 * p - 1]) \o <<Tok("Assign")>> \o Print1(n.kids[2 * p])]), "RBrace")
    [] n.kind = "Lambda"   -> <<Tok("KwFn")>> \o Signature1(n.params, BlockText(n.kids[1]))

\* A slot of a for: nothing for the empty block that stands for an omitted one.
clause(n) ==
  IF n.kind = "Block" THEN <<>>
  ELSE IF n.kind = "ExprStmt" THEN Print1(n.kids[1]) ELSE Print1(n)

\* An If in the else slot came from an elif.
ElseChain(n) ==
  IF Len(n.kids) = 2 THEN <<>>
  ELSE IF n.kids[3].kind = "If"
  THEN <<Tok("KwElif")>> \o Around("LParen", Print1(n.kids[3].kids[1]), "RParen")
         \o BlockText(n.kids[3].kids[2]) \o ElseChain(n.kids[3])
  ELSE <<Tok("KwElse")>> \o BlockText(n.kids[3])

SemicolonAfter(n) == IF ends_in_block(n) THEN <<>> ELSE <<Tok("Semicolon")>>

\* Printer::stmt
PrintStmt1(n) ==
  CASE n.kind = "ExprStmt" -> Print1(n.kids[1]) \o SemicolonAfter(n.kids[1])
    [] n.kind = "Print"    -> <<Tok("KwPrint")>> \o Print1(n.kids[1]) \o <<Tok("Semicolon")>>
    [] n.kind = "Return"   ->
         <<Tok("KwReturn")>> \o (IF n.kids = <<>> THEN <<>> ELSE Print1(n.kids[1])) \o <<Tok("Semicolon")>>
    [] n.kind = "Break"    -> <<Tok("KwBreak"), Tok("Semicolon")>>
    [] n.kind = "Continue" -> <<Tok("KwContinue"), Tok("Semicolon")>>
    [] n.kind = "Block"    -> BlockText(n)
    [] n.kind = "If"       ->
         <<Tok("KwIf")>> \o Around("LParen", Print1(n.kids[1]), "RParen") \o BlockText(n.kids[2]) \o ElseChain(n)
    [] n.kind = "While"    ->
         <<Tok("KwWhile")>> \o Around("LParen", Print1(n.kids[1]), "RParen") \o BlockText(n.kids[2])
    [] n.kind = "For"      ->
         <<Tok("KwFor")>>
           \o Around("LParen", clause(n.kids[1]) \o <<Tok("Semicolon")>> \o clause(n.kids[2])
                                 \o <<Tok("Semicolon")>> \o clause(n.kids[3]), "RParen")
           \o BlockText(n.kids[4])
    [] n.kind = "FnDecl"   -> <<Tok("KwFn"), Word(n.str)>> \o Signature1(n.params, BlockText(n.kids[1]))
    [] OTHER               -> Print1(n) \o <<Tok("Semicolon")>>

format_source(program) == FoldLeft(LAMBDA s, n : s \o PrintStmt1(n), <<>>, program.kids) \o <<Tok("Eof")>>

-----------------------------------------------------------------------------
(***************************************************************************)
(* charcoal fmt (do_fmt, src/cli/main.cc): parse a source and print its    *)
(* tree.  A third step, the parser on what was printed, is what the header *)
(* of src/src/astprint.cc makes its promise about.                         *)
(***************************************************************************)
CONSTANTS
  Sources,           \* sequences of tokens, each ending in Eof
  parse_source(_),   \* the parser: parse of module Parser
  format_tree(_)     \* the printer: format_source of module Format

VARIABLES stage, source, first, text, again   \* first, again: states of the two parses

fvars == <<stage, source, first, text, again>>
NoParse == [toks |-> <<>>, pos |-> 0, depth |-> 0, node |-> NilV, err |-> "", at |-> 0]

FInit == stage = "source" /\ source \in Sources /\ first = NoParse /\ text = <<>> /\ again = NoParse

Parse ==
  /\ stage = "source"
  /\ first' = parse_source(source)
  /\ stage' = IF failed(first') THEN "rejected" ELSE "parsed"
  /\ UNCHANGED <<source, text, again>>

PrintTree ==
  /\ stage = "parsed"
  /\ text' = format_tree(first.node) /\ stage' = "printed"
  /\ UNCHANGED <<source, first, again>>

Reparse ==
  /\ stage = "printed"
  /\ again' = parse_source(text) /\ stage' = "reparsed"
  /\ UNCHANGED <<source, first, text>>

FDone == stage \in {"rejected", "reparsed"} /\ UNCHANGED fvars

FNext == Parse \/ PrintTree \/ Reparse \/ FDone
FSpec == FInit /\ [][FNext]_fvars

-----------------------------------------------------------------------------
(***************************************************************************)
(* What the formatter is known to get wrong.                               *)
(***************************************************************************)
\* The leftmost part of the text of n.
RECURSIVE Leftmost(_), Nodes(_)
Leftmost(n) ==
  IF n.kind \in {"Binary", "Logical", "Index", "Field", "Assign"} /\ ~is_compound(n.kids[1])
  THEN Leftmost(n.kids[1]) ELSE n
Nodes(n) == {n} \cup UNION {Nodes(n.kids[i]) : i \in DOMAIN n.kids}

\* A statement whose text starts like a block or a function declaration.
StartsLikeAnother(s) ==
  s.kind \in {"ExprStmt", "Assign"} /\ Leftmost(s.kids[1]).kind \in {"MapLit", "Lambda"}
\* A literal whose text reads back as another one.
Altered(n) == n.kind \in Literals /\ (n.val = Tiny \/ n.val = StrV(CarriageReturn))
Unprintable(tree) == \E n \in Nodes(tree) : StartsLikeAnother(n) \/ Altered(n)

Same == ~failed(again) /\ again.node = first.node

\* astprint.h: the formatted text always parses again, to an equivalent tree.
AlwaysReparses == stage = "reparsed" => Same

\* The same of every tree that is none of the above and leaves the parser room.
Reparses == (stage = "reparsed" /\ ~Unprintable(first.node) /\ again.err # "nesting too deep") => Same

\* Formatting only adds and removes parentheses and semicolons: every other token
\* of the source is there, in its place.
Kept(toks) == SelectSeq(toks, LAMBDA t : t.k \notin {"LParen", "RParen", "Semicolon"})
NothingDropped ==
  (stage = "reparsed" /\ \A n \in Nodes(first.node) : ~Altered(n)) => Kept(text) = Kept(source)

\* Without parentheses an expression groups at the last of its loosest operators.
Loosest(e) == LET binary == {i \in DOMAIN e : i % 2 = 0} IN
  CHOOSE i \in binary : \A j \in binary : /\ bin_prec(e[i].k) <= bin_prec(e[j].k)
                                          /\ bin_prec(e[i].k) = bin_prec(e[j].k) => j <= i
RECURSIVE Grouped(_)
Grouped(e) ==
  LET i == Loosest(e) IN
  IF Len(e) = 1 THEN Ident(e[1].v.s)
  ELSE Binary2(bin_op(e[i].k), Grouped(SubSeq(e, 1, i - 1)), Grouped(SubSeq(e, i + 1, Len(e))))
Flat(toks) == /\ Len(toks) > 3 /\ Len(toks) % 2 = 0 /\ toks[1].k = "KwPrint"
              /\ \A i \in 2 .. Len(toks) - 2 :
                   IF i % 2 = 0 THEN toks[i].k = "Ident" ELSE bin_prec(toks[i].k) > 0
GroupsByPrecedence ==
  (stage = "parsed" /\ Flat(source)) =>
    first.node.kids[1].kids[1] = Grouped(SubSeq(source, 2, Len(source) - 2))

\* The parser makes of a source the tree that is written there: nothing of it is
\* missing in what the formatter prints of the tree, and operators bind by precedence.
\* A reparse alone cannot tell, since both parses would err alike.
ParsesAsWritten == NothingDropped /\ GroupsByPrecedence
=============================================================================
