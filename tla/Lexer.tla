-------------------------------- MODULE Lexer --------------------------------
(***************************************************************************)
(* The lexer (lex(), src/src/lexer.cc), one iteration of its loops per     *)
(* step.  mode says which loop it is in: the outer one ("top"), or that of *)
(* a comment, of the digits before or after a point, of a word, of a       *)
(* string.  Offsets count from 0, as in the source.  An operator's kind is *)
(* "Op": which one it is, its text tells.                                  *)
(***************************************************************************)
EXTENDS Integers, Sequences, FiniteSets

CONSTANTS
  Texts,            \* the sources: sequences of characters
  Alpha, Digits,    \* the characters is_alpha() and is_digit() accept
  Keywords,         \* the words keyword() knows, as sequences of characters
  Fits(_, _)        \* whether std::stoll or std::stod accepts a number's text

ASSUME TextsAssumption == Texts \subseteq Seq(STRING)

VARIABLES source, i, line, line_start, mode, start, tokens, status, err

lvars == <<source, i, line, line_start, mode, start, tokens, status, err>>

DQuote    == "\""
EndLine   == "\n"
Backslash == "\\"
Blanks  == {" ", "\t", "\r"}
Singles == {"+", "-", "*", "/", "%", "^", "~", "(", ")", "{", "}", "[", "]", ",", ".", ";",
            "=", "!", "&", "|", "<", ">"}
Doubles == {<<"=", "=">>, <<"!", "=">>, <<"&", "&">>, <<"|", "|">>, <<"<", "=">>, <<"<", "<">>,
            <<">", "=">>, <<">", ">">>}

\* is_alpha() accepts letters and the underscore, is_digit() digits, and nothing else.
ASSUME AlphabetAssumption ==
  /\ Alpha \cap Digits = {}
  /\ (Alpha \cup Digits) \cap (Blanks \cup Singles \cup {EndLine, DQuote, Backslash}) = {}

n == Len(source)
At(k) == source[k + 1]
Slice(from, to) == SubSeq(source, from + 1, to)
In(set) == i < n /\ At(i) \in set
next_is(set) == i + 1 < n /\ At(i + 1) \in set

LInit ==
  /\ source \in Texts
  /\ i = 0 /\ line = 1 /\ line_start = 0 /\ mode = "top" /\ start = 0
  /\ tokens = <<>> /\ status = "lexing" /\ err = [line |-> 0, col |-> 0]

\* Faulty: the column counts from the newline, not from the byte behind it.
col_of_newline(off) == off - line_start + 2

\* Columns count from 1.  Below the line's start the result is negative.
col_of(off) == off - line_start + 1

\* push(): the position is the current line's, whatever line the token began on.
push(kind, from, to) ==
  tokens' = Append(tokens, [kind |-> kind, start |-> from, len |-> to - from,
                            line |-> line, col |-> col_of(from)])
set_error(off) == status' = "error" /\ err' = [line |-> line, col |-> col_of(off)]

Lexing(m) == status = "lexing" /\ mode = m
Enter(m, next) == mode' = m /\ start' = i /\ i' = next
Leave == mode' = "top" /\ UNCHANGED start
SameLine == UNCHANGED <<line, line_start>>
Going == UNCHANGED <<status, err, source>>

\* Faulty: the blank is not consumed.
BlankKept ==
  /\ Lexing("top") /\ In(Blanks)
  /\ SameLine /\ UNCHANGED <<i, mode, start, tokens>> /\ Going

Blank ==
  /\ Lexing("top") /\ In(Blanks)
  /\ i' = i + 1
  /\ SameLine /\ UNCHANGED <<mode, start, tokens>> /\ Going

NewLine ==
  /\ Lexing("top") /\ In({EndLine})
  /\ i' = i + 1 /\ line' = line + 1 /\ line_start' = i + 1
  /\ UNCHANGED <<mode, start, tokens>> /\ Going

Comment ==
  /\ Lexing("top") /\ In({"/"}) /\ next_is({"/"})
  /\ Enter("comment", i + 2)
  /\ SameLine /\ UNCHANGED tokens /\ Going

\* Faulty: a comment runs to the end of the source.
InCommentForever ==
  /\ Lexing("comment")
  /\ IF i < n THEN i' = i + 1 /\ UNCHANGED <<mode, start>> ELSE Leave /\ UNCHANGED i
  /\ SameLine /\ UNCHANGED tokens /\ Going

InComment ==
  /\ Lexing("comment")
  /\ IF i < n /\ At(i) # EndLine THEN i' = i + 1 /\ UNCHANGED <<mode, start>> ELSE Leave /\ UNCHANGED i
  /\ SameLine /\ UNCHANGED tokens /\ Going

\* A point belongs to the number only before a digit.
Point == In({"."}) /\ next_is(Digits)

\* The number ends here: it is pushed, then converted.
NumberEnds(kind) ==
  /\ push(kind, start, i) /\ Leave /\ UNCHANGED i
  /\ IF Fits(kind, Slice(start, i)) THEN UNCHANGED <<status, err>> ELSE set_error(start)

Number ==
  /\ Lexing("top") /\ In(Digits)
  /\ Enter("int", i + 1)
  /\ SameLine /\ UNCHANGED tokens /\ Going

InInt ==
  /\ Lexing("int")
  /\ \/ In(Digits) /\ i' = i + 1 /\ UNCHANGED <<mode, start, tokens, status, err>>
     \/ Point /\ i' = i + 1 /\ mode' = "fraction" /\ UNCHANGED <<start, tokens, status, err>>
     \/ ~In(Digits) /\ ~Point /\ NumberEnds("Int")
  /\ SameLine /\ UNCHANGED source

InFraction ==
  /\ Lexing("fraction")
  /\ \/ In(Digits) /\ i' = i + 1 /\ UNCHANGED <<mode, start, tokens, status, err>>
     \/ ~In(Digits) /\ NumberEnds("Float")
  /\ SameLine /\ UNCHANGED source

WordKind(text) == IF text \in Keywords THEN "Keyword" ELSE "Ident"

Identifier ==
  /\ Lexing("top") /\ In(Alpha)
  /\ Enter("word", i + 1)
  /\ SameLine /\ UNCHANGED tokens /\ Going

InWord ==
  /\ Lexing("word")
  /\ \/ In(Alpha \cup Digits) /\ i' = i + 1 /\ UNCHANGED <<mode, start, tokens>>
     \/ ~In(Alpha \cup Digits) /\ push(WordKind(Slice(start, i)), start, i) /\ Leave /\ UNCHANGED i
  /\ SameLine /\ Going

String ==
  /\ Lexing("top") /\ In({DQuote})
  /\ Enter("string", i + 1)
  /\ SameLine /\ UNCHANGED tokens /\ Going

\* Faulty: a backslash takes only itself.
EscapeAlone == FALSE

\* A backslash takes the next byte with it, a newline too, which is then not counted.
Escape == In({Backslash}) /\ i + 1 < n

InString ==
  /\ Lexing("string")
  /\ \/ Escape /\ i' = i + 2 /\ SameLine /\ UNCHANGED <<mode, start, tokens>> /\ Going
     \/ In({DQuote}) /\ push("Str", start, i + 1) /\ Leave /\ i' = i + 1 /\ SameLine /\ Going
     \/ In({EndLine}) /\ line' = line + 1 /\ line_start' = i + 1 /\ i' = i + 1
          /\ UNCHANGED <<mode, start, tokens>> /\ Going
     \/ i < n /\ ~Escape /\ ~In({DQuote, EndLine}) /\ i' = i + 1 /\ SameLine
          /\ UNCHANGED <<mode, start, tokens>> /\ Going
     \/ i >= n /\ set_error(start) /\ SameLine /\ UNCHANGED <<source, i, mode, start, tokens>>

\* Faulty: & and | are taken to be doubled.
OpLenDoubled == IF At(i) \in {"&", "|"} \/ (i + 1 < n /\ Slice(i, i + 2) \in Doubles) THEN 2 ELSE 1

\* Longest match.
OpLen == IF i + 1 < n /\ Slice(i, i + 2) \in Doubles THEN 2 ELSE 1

Operator ==
  /\ Lexing("top") /\ In(Singles) /\ ~(In({"/"}) /\ next_is({"/"}))
  /\ push("Op", i, i + OpLen) /\ i' = i + OpLen
  /\ SameLine /\ UNCHANGED <<mode, start>> /\ Going

Unexpected ==
  /\ Lexing("top") /\ i < n
  /\ ~In(Blanks \cup Singles \cup Alpha \cup Digits \cup {EndLine, DQuote})
  /\ set_error(i)
  /\ SameLine /\ UNCHANGED <<source, i, mode, start, tokens>>

EndOfSource ==
  /\ Lexing("top") /\ i >= n
  /\ push("Eof", n, n) /\ status' = "done"
  /\ SameLine /\ UNCHANGED <<source, i, mode, start, err>>

LDone == status # "lexing" /\ UNCHANGED lvars

LNext == \/ Blank \/ NewLine \/ Comment \/ InComment \/ Number \/ InInt \/ InFraction
         \/ Identifier \/ InWord \/ String \/ InString \/ Operator \/ Unexpected
         \/ EndOfSource \/ LDone

\* lex() is one call: while it has an iteration to make it makes it.
LSpec == LInit /\ [][LNext]_lvars /\ WF_lvars(LNext)

-----------------------------------------------------------------------------
\* The state is of these types; a loop's start lies before i, and no offset is
\* beyond the source.
TokenKinds == {"Int", "Float", "Ident", "Keyword", "Str", "Op", "Eof"}
LTypeOK ==
  /\ source \in Texts
  /\ i \in 0 .. n /\ line \in Nat /\ line_start \in 0 .. n
  /\ mode \in {"top", "comment", "int", "fraction", "word", "string"}
  /\ start \in 0 .. n /\ start <= i
  /\ tokens \in Seq([kind : TokenKinds, start : 0 .. n, len : 0 .. n, line : Nat, col : Int])
  /\ status \in {"lexing", "error", "done"} /\ err \in [line : Nat, col : Int]

TokenEnd(t) == t.start + t.len

\* Tokens come in the order of the source, inside it, without sharing a byte, and
\* only Eof is empty.
InOrder ==
  /\ \A k \in 1 .. Len(tokens) : /\ TokenEnd(tokens[k]) <= n
                                 /\ tokens[k].len = 0 <=> tokens[k].kind = "Eof"
  /\ \A k \in 1 .. Len(tokens) - 1 : TokenEnd(tokens[k]) <= tokens[k + 1].start

\* Why: the last token ends before i, and before the lexeme being read.
LastEnd == IF tokens = <<>> THEN 0 ELSE TokenEnd(tokens[Len(tokens)])
LInv == /\ LTypeOK /\ InOrder
        /\ mode = "top" => LastEnd <= i
        /\ mode # "top" => LastEnd <= start /\ start < i

-----------------------------------------------------------------------------
(***************************************************************************)
(* What the lexemes of the language are, without the lexer's loops.        *)
(***************************************************************************)
Escaped(s, k) == \* an odd number of backslashes stand right before s[k]
  \E m \in 1 .. k - 1 : /\ (k - m) % 2 = 1
                        /\ \A x \in m .. k - 1 : s[x] = Backslash
                        /\ m = 1 \/ s[m - 1] # Backslash
All(s, set) == s # <<>> /\ \A k \in DOMAIN s : s[k] \in set
Lexeme(s) ==
  LET last == Len(s) IN
  IF All(s, Digits) THEN "Int"
  ELSE IF \E k \in 2 .. last - 1 : s[k] = "." /\ All(SubSeq(s, 1, k - 1), Digits)
                                   /\ All(SubSeq(s, k + 1, last), Digits) THEN "Float"
  ELSE IF All(s, Alpha \cup Digits) /\ s[1] \in Alpha THEN IF s \in Keywords THEN "Keyword" ELSE "Ident"
  ELSE IF last > 1 /\ \A k \in 1 .. last : s[k] = DQuote /\ ~Escaped(s, k) <=> k \in {1, last} THEN "Str"
  ELSE IF s \in Doubles \/ (last = 1 /\ s[1] \in Singles) THEN "Op"
  ELSE "none"

\* Every token is a lexeme of its kind, and no longer one starts where it does.
LongestMatch ==
  \A k \in 1 .. Len(tokens) : tokens[k].kind # "Eof" =>
    /\ tokens[k].kind = Lexeme(Slice(tokens[k].start, TokenEnd(tokens[k])))
    /\ \A to \in TokenEnd(tokens[k]) + 1 .. n : Lexeme(Slice(tokens[k].start, to)) = "none"

\* Offset k is blank, or in a comment that begins at or after `from`.
Skipped(from, k) ==
  \/ At(k) \in Blanks \cup {EndLine}
  \/ \E c \in from .. k : /\ c + 1 < n /\ At(c) = "/" /\ At(c + 1) = "/"
                          /\ \A x \in c .. k - 1 : At(x) # EndLine
\* A finished lexer has left out nothing but blanks and comments.
NothingLost ==
  status = "done" =>
    /\ tokens[Len(tokens)].kind = "Eof" /\ tokens[Len(tokens)].start = n
    /\ \A k \in 1 .. Len(tokens) :
         LET from == IF k = 1 THEN 0 ELSE TokenEnd(tokens[k - 1])
         IN  \A x \in from .. tokens[k].start - 1 : Skipped(from, x)

Newlines(to) == {k \in 0 .. to - 1 : At(k) = EndLine}
TrueLine(off) == 1 + Cardinality(Newlines(off))
TrueCol(off) == off - (IF Newlines(off) = {} THEN -1
                       ELSE CHOOSE x \in Newlines(off) : \A y \in Newlines(off) : y <= x)
EscapedNewline(to) == \E k \in 1 .. to - 1 : At(k) = EndLine /\ At(k - 1) = Backslash
MultiLine(from, to) == \E k \in from .. to - 1 : At(k) = EndLine

\* A token's line and column are those of its first byte, unless it is a string
\* of several lines or an escaped newline came before.
Located ==
  \A k \in 1 .. Len(tokens) :
    LET t == tokens[k] IN
    (~EscapedNewline(t.start) /\ ~MultiLine(t.start, TokenEnd(t))) =>
      t.line = TrueLine(t.start) /\ t.col = TrueCol(t.start)

\* lex() returns, whatever the bytes are.
LexerReturns == <>(status # "lexing")
=============================================================================
