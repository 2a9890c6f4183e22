------------------------------- MODULE MCNatives -------------------------------
(***************************************************************************)
(* Questions for the natives run.                                          *)
(***************************************************************************)
EXTENDS Natives

Words(letters, n) == UNION {[1 .. k -> letters] : k \in 0 .. n}
Edge == {kI64Min, kI64Min + 1, -7, -3, -1, 0, 1, 2, 3, 5, kI64Max - 1, kI64Max}

Texts2 == Words({"a", "b", " ", "nl"}, 3) \cup [1 .. 4 -> {"a", "b"}] \cup [1 .. 5 -> {"a", "b"}]
Patterns == Words({"a", "b", " "}, 2) \cup [1 .. 3 -> {"a", "b"}]
Lists == Words({kI64Min, 0, 1, kI64Max, Nil}, 3) \cup [1 .. 4 -> {0, 1}]
Others == {<<>>, << 0 >>, << Nil >>, << kI64Max, kI64Min >>, << 1, 1, 3 >>, << 2, 1, kI64Max, kI64Min >>}

MCQuestions ==
  [of : {"number"}, x : Int64] \cup [of : {"pair"}, x : Int64, y : Int64]
  \cup [of : {"triple"}, x : Edge, y : Edge, z : Edge]
  \cup [of : {"text"}, s : Texts2, p : Patterns, t : {<<>>, << "b", "a" >>}, n : {-1, 0, 1, 2, 4, 6, 9}]
  \cup [of : {"array"}, a : Lists, b : Others, n : {-5, -1, 0, 1, 2, 3, 5, 8}, v : {0, Nil}]
=============================================================================
