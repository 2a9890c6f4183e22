------------------------------ MODULE MCLexer --------------------------------
(***************************************************************************)
(* Short texts over small alphabets for the lexer runs.                    *)
(***************************************************************************)
EXTENDS Lexer

Strings(m, chars) == UNION {[1 .. k -> chars] : k \in 0 .. m}

MCAlpha    == {"i", "f"}
MCDigits   == {"0", "1"}
MCKeywords == {<<"i", "f">>}
MCFits(kind, text) == Len(text) <= 3

MCTexts ==
  Strings(3, {"i", "1", " ", "\n", "/", ".", "\"", "\\", "=", "<", ">", "!", "&", "|", "+", "?"})
    \cup Strings(6, {"\"", "\\", "\n", "i"})
    \cup Strings(5, {"1", ".", "f", "/", "\n", "="})
    \cup Strings(4, {"i", "f", "0", " ", "<"})
=============================================================================
