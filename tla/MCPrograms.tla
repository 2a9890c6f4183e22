------------------------------ MODULE MCPrograms ------------------------------
(***************************************************************************)
(* Small families of programs for the toolchain runs.                      *)
(***************************************************************************)
EXTENDS Ast

I(n) == Lit(IntV(n))
X == Ident("x")
Y == Ident("y")
Set(v, e) == Assign(Ident(v), e)
SetX(e) == Set("x", e)
P(e) == PrintStmt(e)
Seq2(s, t) == Block(<<s, t>>)

-----------------------------------------------------------------------------
\* Every operator on constants, the traps included; half is folded, half is not.
Ops == {"+", "-", "*", "/", "%", "E", "N", "<", "l", ">", "g", "&", "|", "^", "L", "R"}
Operands == {I(-128), I(-1), I(0), I(7), I(100), Lit(Dbl(0)), Lit(Dbl(-160)), Lit(StrV("s")),
             Lit(BoolV(TRUE)), Lit(NilV)}
Arithmetics ==
  {Program(<<SetX(a), P(Binary2(op, a, b)), P(Binary2(op, X, b))>>) :
     op \in Ops, a \in Operands, b \in Operands \ {I(7), Lit(Dbl(-160))}}
  \cup {Program(<<SetX(a), P(Unary1(op, a)), P(Unary1(op, X))>>) :
     op \in {"-", "!", "~"}, a \in Operands}

-----------------------------------------------------------------------------
\* Nested expressions over two variables, assigned to one of them.
Atoms == {X, Y, I(0), I(1), Lit(BoolV(FALSE))}
Simple == {Binary2(op, a, b) : op \in {"+", "<", "a", "o"}, a \in {X, Y, I(1)}, b \in Atoms}
            \cup {ArrayLit(<<a>>) : a \in {X, Y}}
            \cup {MapLit(<<Lit(StrV("k")), X>>), Unary1("!", Y), Field(X, "k")}
            \cup {CallOf("len", <<X>>), CallOf("push", <<X, Y>>), Index(X, Y)}
Deep == {Binary2(op, a, b) : op \in {"+", "a", "o"}, a \in Simple, b \in {X, Y}}
          \cup {Binary2(op, a, b) : op \in {"-", "a", "o"}, a \in {X, Y}, b \in Simple}
          \cup {Index(a, I(0)) : a \in Simple} \cup {ArrayLit(<<a, b>>) : a \in Simple, b \in {X}}
          \cup {CallOf("len", <<a>>) : a \in Simple}
Values0 == {I(0), I(3), ArrayLit(<<I(1), Y>>), MapLit(<<Lit(StrV("k")), I(1), Lit(StrV("k")), Y>>),
            Lit(StrV("ab"))}
Expressions ==
  {Program(<<Set("y", I(1)), SetX(v), SetX(e), P(X), P(Y)>>) : v \in Values0, e \in Simple \cup Deep}

\* Stores into containers, by alias.
Stores ==
  {Program(<<SetX(v), Set("y", X), Assign(t, e), P(Index(Y, I(0))), P(CallOf("len", <<Y>>)),
             P(Field(Y, "k"))>>) :
     v \in {ArrayLit(<<I(5), X>>), MapLit(<<Lit(StrV("k")), I(4)>>), I(2)},
     t \in {Index(X, I(0)), Index(X, I(2)), Index(X, I(-1)), Field(X, "k"), Field(X, "j"),
            Index(X, CallOf("len", <<Y>>))},
     e \in {I(7), X, CallOf("push", <<X, I(9)>>), ArrayLit(<<Y>>)}}

-----------------------------------------------------------------------------
\* Loops with every way out, nested in one another.
Less3 == Binary2("<", X, I(3))
Inc   == SetX(Binary2("+", X, I(1)))
IfX(n, s) == If(<<Binary2("E", X, I(n)), s>>)
Exits == {Break, Continue, P(X), Return(<<X>>)}
Bodies == {Block(<<Inc, IfX(n, s), P(X)>>) : n \in {1, 2}, s \in Exits}
            \cup {Block(<<Inc, If(<<Binary2("<", X, I(n)), s, t>>)>>) :
                    n \in {1, 2}, s \in Exits, t \in Exits \cup {Inc}}
LoopsOf(b) ==
  {While(Less3, b), For(SetX(I(0)), Less3, Inc, b), For(Block(<<>>), Block(<<>>), Inc, Block(<<IfX(3, Break), b>>))}
Inner2 == {While(Binary2("<", Y, I(2)), Block(<<Set("y", Binary2("+", Y, I(1))), s>>)) :
            s \in {IfX(2, Break), IfX(2, Continue), If(<<Binary2("E", Y, I(2)), Break, Continue>>)}}
Loops ==
  {Program(<<SetX(I(0)), l, P(X)>>) : l \in UNION {LoopsOf(b) : b \in Bodies}}
  \cup {Program(<<SetX(I(0)), Set("y", I(0)), l, P(X), P(Y)>>) :
          l \in UNION {LoopsOf(Block(<<Inc, i, IfX(2, s), Set("y", I(1))>>)) :
                       i \in Inner2, s \in {Break, Continue}}}

-----------------------------------------------------------------------------
\* Functions: parameters, recursion, closures that capture, functions as values.
FBodies == { Block(<<Return(<<Binary2("+", Ident("a"), Ident("b"))>>)>>),
             Block(<<If(<<Binary2("<", Ident("a"), I(1)), Return(<<I(1)>>)>>),
                     Return(<<Binary2("*", Ident("a"), CallOf("f", <<Binary2("-", Ident("a"), I(1))>>))>>)>>),
             Block(<<Set("b", Binary2("+", Ident("a"), I(1))), SetX(Ident("b")), P(X)>>),
             Block(<<Return(<<Lambda(<<"z">>, Block(<<Return(<<Binary2("+", Ident("z"), Ident("a"))>>)>>))>>)>>),
             Block(<<Return(<<Lambda(<<>>, Block(<<SetX(CallOf("b", <<Ident("a")>>)), Return(<<X>>)>>))>>)>>),
             Block(<<Return(<<>>)>>) }
Params == {<<"a">>, <<"a", "b">>, <<"b", "a">>, <<"a", "a">>}
Uses == {SetX(CallOf("f", <<I(2)>>)), SetX(CallOf("f", <<I(2), I(5)>>)), SetX(CallOf("f", <<>>)),
         SetX(CallOf("f", <<I(2), Ident("f")>>)), SetX(CallOf("f", <<CallOf("f", <<I(3), X>>)>>)), SetX(Ident("f"))}
Afters == {P(X), P(CallOf("x", <<I(10)>>)), P(CallOf("x", <<>>)), P(CallOf("f", <<X>>))}
Calls ==
  {Program(<<SetX(I(4)), u, a, P(X), FnDecl("f", p, b)>>) :
     u \in Uses, a \in Afters, p \in Params, b \in FBodies}

\* Lambdas in main: captured variables, shadowed functions, two levels.
LBodies == {X, Binary2("+", X, Ident("z")), CallOf("x", <<Ident("z")>>), CallOf("g", <<X>>),
            Lambda(<<>>, Block(<<Return(<<Ident("z")>>)>>)), Lambda(<<>>, Block(<<Return(<<X>>)>>)),
            ArrayLit(<<X, Y>>), Ident("f")}
Lambdas ==
  {Program(<<SetX(v), Set("g", Lambda(<<"z">>, Block(<<s, Return(<<e>>)>>))), SetX(I(6)),
             P(CallOf("g", <<I(1)>>)), P(X)>>) :
     v \in {I(3), Lambda(<<"q">>, Block(<<Return(<<Ident("q")>>)>>))},
     s \in {Block(<<>>), Set("z", I(9)), SetX(Ident("z"))}, e \in LBodies}

-----------------------------------------------------------------------------
\* Programs with a name out of scope, a stray exit or a misplaced construct.
Fragments == {P(Ident("u")), P(Ident("len")), P(CallOf("len", <<>>)), P(CallOf("push", <<X>>)), P(CallOf("u", <<>>)),
              Break, IfX(0, Continue), Assign(Lit(NilV), X), P(SetX(Y)), FnDecl("g", <<>>, Block(<<>>)),
              P(MapLit(<<X, X>>)), P(Ident("f")), P(CallOf("f", <<X>>)), P(CallOf("push", <<X, X>>)),
              P(X), SetX(Y), P(Lambda(<<>>, Block(<<Break>>))), Set("len", I(1)), P(CallOf("x", <<Y>>))}
Illegal ==
  {Program(<<SetX(I(1)), s, While(Lit(BoolV(FALSE)), Block(<<t>>)), FnDecl("f", <<"y">>, Block(<<u>>))>>) :
     s \in Fragments, t \in Fragments, u \in {P(Y), P(X), Break, SetX(Y)}}
  \cup {Program(<<P(I(1)), FnDecl(n, <<>>, Block(<<>>)), FnDecl("g", <<>>, Block(<<P(CallOf(n, <<>>))>>))>>) :
          n \in {"f", "g", "main", "len", "push"}}

\* Programs at the edge of what an operand can count, for limits about 10.
Many(n, e(_)) == [i \in 1 .. n |-> e(i)]
Name(i) == "v" \o ToString(i)
One(i) == I(1)
Edges ==
  {Program(Many(n, LAMBDA i : Set(Name(i), I(i % m))) \o <<P(Ident(Name(n)))>>) : n \in 6 .. 11, m \in 3 .. 11}
  \cup {Program(<<SetX(ArrayLit(Many(n, One))), P(Index(X, I(n - 1)))>>) : n \in 7 .. 12}
  \cup {Program(<<P(CallOf("f", Many(n, One))), FnDecl("f", Many(m, Name), Block(<<Return(<<Ident(Name(m))>>)>>))>>) :
          n, m \in 7 .. 12}
  \cup {Program(<<SetX(Lambda(Many(m, Name), Block(<<Return(<<Ident(Name(m))>>)>>))), P(X)>>) : m \in 7 .. 12}
  \cup {Program(Many(n, LAMBDA i : Set(Name(i), I(7))) \o
                 <<SetX(Lambda(<<>>, Block(Many(n, LAMBDA i : P(Ident(Name(i)))))))>>) : n \in 7 .. 10}
  \cup {Program(<<SetX(I(0)), While(Less3, Block(<<Inc>> \o Many(n, LAMBDA i : P(X)))), P(X)>>) : n \in 1 .. 30}

-----------------------------------------------------------------------------
\* The two known deviations.
Overwriting == {Program(<<Set("y", I(1)), SetX(I(0)), SetX(e), P(X)>>) : e \in Simple}
FZero == Lit(Dbl(0))
ZeroPrograms ==
  {Program(<<SetX(a), Set("y", b), P(Binary2("/", Lit(Dbl(64)), X)), P(Binary2("/", I(1), Y))>>) :
     a \in {FZero, Unary1("-", FZero), I(0)},
     b \in {FZero, Unary1("-", FZero), Binary2("*", FZero, I(-1)), Binary2("-", FZero, FZero)}}
=============================================================================
