-------------------------------- MODULE MCFmt --------------------------------
(***************************************************************************)
(* Sources for the formatter runs, glued from tokens.                      *)
(***************************************************************************)
EXTENDS Format

W(x) == <<Word(x)>>
T(k) == <<Tok(k)>>
One  == <<[k |-> "Int", v |-> IntV(1)]>>
Str(s) == <<[k |-> "Str", v |-> StrV(s)]>>
In(open, s, close) == T(open) \o s \o T(close)
Source(s) == s \o T("Eof")

BinaryToks == UNION ToSet(Levels)
\* Three operators of any kind in a row.
FlatSources == {Source(T("KwPrint") \o W("a") \o T(f) \o W("b") \o T(g) \o W("c") \o T(h) \o W("d") \o T("Semicolon")) :
                 f, g, h \in BinaryToks}

\* Expressions of one more construct around those of S.
Around1(S) ==
  UNION {{a \o T("Plus") \o b, a \o T("AmpAmp") \o b, a \o In("LBracket", b, "RBracket"),
          In("LBracket", a \o T("Comma") \o b, "RBracket"), In("LBrace", a \o T("Assign") \o b, "RBrace")} :
           a, b \in S}
  \cup UNION {{T("Minus") \o a, T("Bang") \o a, In("LParen", a, "RParen"), a \o T("Dot") \o W("f"), W("g") \o In("LParen", a, "RParen"),
               a \o In("LParen", <<>>, "RParen"),
               T("KwFn") \o In("LParen", W("p"), "RParen") \o In("LBrace", T("KwReturn") \o a \o T("Semicolon"), "RBrace")} :
                a \in S}
Atoms == {W("x"), One, Str("s"), T("KwNil")}
Small == Atoms \cup Around1({W("x"), One}) \cup {In("LBrace", <<>>, "RBrace"), In("LBracket", <<>>, "RBracket"),
           T("KwFn") \o In("LParen", <<>>, "RParen") \o In("LBrace", <<>>, "RBrace")}
Larger == Around1({In("LParen", s, "RParen") : s \in {W("x") \o T("Plus") \o One, T("Minus") \o One}} \cup Small)

Semi == T("Semicolon")
Braced(s) == In("LBrace", s, "RBrace")
\* Every statement around an expression e.
Statements(e) ==
  LET cond == In("LParen", e, "RParen")
      b == Braced(T("KwBreak") \o Semi)
  IN  {e \o Semi, T("KwPrint") \o e \o Semi, W("x") \o T("Assign") \o e \o Semi, T("KwReturn") \o e \o Semi,
       W("x") \o T("Assign") \o W("y") \o T("Assign") \o e, e \o T("Assign") \o One \o Semi,
       T("KwIf") \o cond \o b, T("KwIf") \o cond \o b \o T("KwElse") \o Braced(T("KwIf") \o cond \o b),
       T("KwIf") \o cond \o b \o T("KwElif") \o cond \o b \o T("KwElif") \o cond \o b \o T("KwElse") \o b,
       T("KwWhile") \o cond \o Braced(T("KwContinue") \o Semi \o e \o Semi),
       T("KwFor") \o In("LParen", Semi \o Semi, "RParen") \o b,
       T("KwFor") \o In("LParen", e \o Semi \o W("x") \o T("Assign") \o e \o Semi \o W("i") \o T("Assign") \o e, "RParen") \o b,
       T("KwFn") \o W("f") \o In("LParen", W("p") \o T("Comma") \o W("q"), "RParen") \o Braced(e \o Semi \o T("KwReturn") \o Semi),
       Braced(e \o Semi \o Braced(<<>>)), T("KwReturn") \o Semi, e}

\* All short strings of tokens, most of them no program.
Junk == UNION {[1 .. n -> {Word("x"), Tok("LParen"), Tok("RParen"), Tok("LBrace"), Tok("RBrace"), Tok("Assign"),
                           Tok("Semicolon"), Tok("Minus"), Tok("KwFn"), Tok("KwIf"), Tok("Dot")}] : n \in 0 .. 4}

MCStatements == {Source(s) : s \in UNION {Statements(e) : e \in Small}}
                  \cup {Source(T("KwPrint") \o e \o Semi) : e \in Larger}
                  \cup {Source(W("x") \o T("Assign") \o e \o W("y") \o T("Assign") \o f \o Semi) : e, f \in Small}
MCTokens     == FlatSources \cup {Source(s) : s \in Junk}
MCSources    == MCStatements \cup MCTokens

MCStarts   == {Source(In("LParen", e, "RParen") \o T("Dot") \o W("f") \o Semi) : e \in Small}
=============================================================================
