------------------------------ MODULE MCBuiltins ------------------------------
(***************************************************************************)
(* Calls for the builtin runs.                                             *)
(***************************************************************************)
EXTENDS BuiltinCalls

C0 == [fn |-> "", a |-> <<>>, dst |-> 0, key |-> "", i |-> 0, n |-> 0]
Make(fn, a, dst) == [C0 EXCEPT !.fn = fn, !.a = a, !.dst = dst]
At(c, i) == [c EXCEPT !.i = i]
Of(c, n) == [c EXCEPT !.n = n]
Named(c, key) == [c EXCEPT !.key = key]

String(r, s) == Named(Make("new_string", <<>>, r), s)
Array(r, n)  == Of(Make("new_array", <<>>, r), n)

\* Register 1: ["p"], 2: {k: "p"}, 3: "p"; garbage before that, or so much of it
\* after that that they are promoted.
Shape == << String(3, "p"), Array(1, 1), At(Make("set_elem", <<1, 3>>, 0), 1), Make("new_map", <<>>, 2),
            Named(Make("set", <<2, 3>>, 0), "k") >>
Garbage(n) == [i \in 1 .. n |-> Make("new_map", <<>>, 0)]
MCSetups == {Garbage(g) \o Shape : g \in 0 .. 9} \cup {Shape \o Garbage(g) : g \in {14, 20}}

MCCalls ==
  { String(3, "q"), Make("push", <<1, 3>>, 0), At(Make("insert", <<1, 3>>, 0), 1), Make("pop", <<1>>, 2),
    At(Make("remove", <<1>>, 3), 1), Named(Make("set", <<2, 3>>, 0), "k"), Named(Make("set", <<2, 3>>, 0), "l"),
    Named(Make("remove_key", <<2>>, 0), "k"), Make("closure", <<1, 2>>, 3), Make("merge", <<2, 2>>, 3),
    Make("iter", <<1>>, 3), Make("next", <<3>>, 2), Of(Make("fill", <<1>>, 3), 2),
    Make("format_join", <<1, 3>>, 2), Make("invert", <<2>>, 3), Of(At(Make("slice", <<1>>, 3), 1), 1),
    Make("concat_arr", <<1, 1>>, 3), Make("keys", <<2>>, 3), Make("values", <<2>>, 3),
    Make("zip", <<1, 1>>, 3), Make("unzip", <<3>>, 3), Make("entries", <<2>>, 1), Make("chunk", <<1>>, 3),
    Of(Named(Make("split", <<>>, 3), "q"), 2) }
\* The smallest heap in which a builtin is caught without its barrier.
MCGarbage == {Garbage(g) : g \in 0 .. 5}
MCFillers == {String(3, "q"), Of(Named(Make("split", <<>>, 1), "q"), 2)}
=============================================================================
