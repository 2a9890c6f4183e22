----------------------------- MODULE LexerProofs ------------------------------
(***************************************************************************)
(* The lexer stays inside the source, and its tokens are in the order of   *)
(* the source and share no byte: for every text and every alphabet.  Then  *)
(* three invariants over these: the bytes between the tokens are blanks    *)
(* and comments, the positions are the true ones as far as the lexer       *)
(* counts newlines, and a token is the longest lexeme that starts where it *)
(* does.                                                                   *)
(***************************************************************************)
EXTENDS Lexer, FiniteSetTheorems, Induction, TLAPS

LEMMA TextLen == ASSUME LTypeOK PROVE n \in Nat /\ Len(tokens) \in Nat
<1>1. source \in Seq(STRING) BY TextsAssumption DEF LTypeOK
<1> QED BY <1>1 DEF LTypeOK, n

LEMMA LastEndNat == ASSUME LTypeOK PROVE LastEnd \in Nat
<1> DEFINE T == [kind : TokenKinds, start : 0 .. n, len : 0 .. n, line : Nat, col : Int]
<1>1. n \in Nat /\ Len(tokens) \in Nat /\ tokens \in Seq(T) BY TextLen DEF LTypeOK
<1>2. CASE tokens = <<>> BY <1>2 DEF LastEnd
<1>3. CASE tokens # <<>>
  <2> HIDE DEF T
  <2>1. tokens[Len(tokens)] \in T BY <1>1, <1>3
  <2> USE DEF T
  <2>2. tokens[Len(tokens)].start \in Nat /\ tokens[Len(tokens)].len \in Nat BY <2>1, <1>1
  <2> QED BY <1>3, <2>2 DEF LastEnd, TokenEnd
<1> QED BY <1>2, <1>3

LEMMA InitInv == LInit => LInv
<1> SUFFICES ASSUME LInit PROVE LInv OBVIOUS
<1>1. source \in Seq(STRING) BY TextsAssumption DEF LInit
<1>2. n \in Nat BY <1>1 DEF n
<1>3. LTypeOK BY <1>2 DEF LTypeOK, LInit
<1>4. InOrder /\ LastEnd = 0 BY DEF InOrder, LInit, LastEnd
<1> QED BY <1>3, <1>4 DEF LInv, LInit

\* A step that pushes nothing and moves i forward inside the source, staying in
\* its mode, in no mode, or entering one.
LEMMA Quiet ==
  ASSUME LInv, UNCHANGED <<source, tokens>>,
         i' \in 0 .. n, line' \in Nat, line_start' \in 0 .. n, start' \in 0 .. n, start' <= i',
         mode' \in {"top", "comment", "int", "fraction", "word", "string"},
         status' \in {"lexing", "error", "done"}, err' \in [line : Nat, col : Int],
         mode' = "top" => LastEnd <= i',
         mode' # "top" => LastEnd <= start' /\ start' < i'
  PROVE  LInv'
<1>1. n' = n /\ LastEnd' = LastEnd BY DEF n, LastEnd, TokenEnd
<1>2. LTypeOK' BY <1>1 DEF LInv, LTypeOK
<1>3. InOrder' BY <1>1 DEF LInv, InOrder, TokenEnd
<1> QED BY <1>1, <1>2, <1>3 DEF LInv

\* A step that pushes the bytes from `from` to `to`, behind every token there is.
LEMMA Pushes ==
  ASSUME LInv, NEW kind \in TokenKinds, NEW from \in Nat, NEW to \in Nat,
         push(kind, from, to), source' = source,
         LastEnd <= from, from <= to, to <= n, from = to <=> kind = "Eof",
         i' = to, UNCHANGED <<line, line_start>>, start' = start, start <= to,
         mode' = "top", status' \in {"lexing", "error", "done"}, err' \in [line : Nat, col : Int]
  PROVE  LInv'
<1> DEFINE t == [kind |-> kind, start |-> from, len |-> to - from,
                 line |-> line, col |-> col_of(from)]
           T == [kind : TokenKinds, start : 0 .. n, len : 0 .. n, line : Nat, col : Int]
<1>1. n \in Nat /\ n' = n /\ Len(tokens) \in Nat BY TextLen DEF LInv, n
<1>2. tokens \in Seq(T) /\ tokens' = Append(tokens, t) BY DEF LInv, LTypeOK, push
<1>3. col_of(from) \in Int BY DEF col_of, LInv, LTypeOK
<1>4. t \in T BY <1>1, <1>3 DEF LInv, LTypeOK
<1> HIDE DEF t, T
<1>5. /\ tokens' \in Seq(T)
      /\ Len(tokens') = Len(tokens) + 1
      /\ tokens'[Len(tokens) + 1] = t
      /\ \A k \in 1 .. Len(tokens) : tokens'[k] = tokens[k]
  BY <1>2, <1>4
<1>6. TokenEnd(t) = to /\ t.start = from /\ t.kind = kind /\ t.len = to - from
  BY DEF t, TokenEnd
<1>7. LTypeOK' BY <1>1, <1>5 DEF LInv, LTypeOK, T
<1>8. InOrder'
  <2>1. ASSUME NEW k \in 1 .. Len(tokens')
        PROVE TokenEnd(tokens'[k]) <= n' /\ (tokens'[k].len = 0 <=> tokens'[k].kind = "Eof")
    <3>1. CASE k = Len(tokens) + 1 BY <3>1, <1>1, <1>5, <1>6
    <3>2. CASE k \in 1 .. Len(tokens) BY <3>2, <1>1, <1>5 DEF LInv, InOrder
    <3> QED BY <3>1, <3>2, <1>1, <1>5
  <2>2. ASSUME NEW k \in 1 .. Len(tokens') - 1
        PROVE TokenEnd(tokens'[k]) <= tokens'[k + 1].start
    <3>1. CASE k = Len(tokens)
      <4>1. tokens # <<>> BY <3>1, <1>1, <2>2
      <4>2. TokenEnd(tokens[k]) <= from BY <3>1, <4>1 DEF LastEnd
      <4> QED BY <3>1, <4>2, <1>1, <1>5, <1>6
    <3>2. CASE k \in 1 .. Len(tokens) - 1 BY <3>2, <1>1, <1>5 DEF LInv, InOrder
    <3> QED BY <3>1, <3>2, <1>1, <1>5
  <2> QED BY <2>1, <2>2 DEF InOrder, TokenEnd
<1>9. LastEnd' = to BY <1>1, <1>5, <1>6 DEF LastEnd, TokenEnd
<1> QED BY <1>7, <1>8, <1>9 DEF LInv

LEMMA StepInv == LInv /\ [LNext]_lvars => LInv'
<1> SUFFICES ASSUME LInv, [LNext]_lvars PROVE LInv' OBVIOUS
<1>n. n \in Nat BY TextLen DEF LInv
<1>t. LTypeOK BY DEF LInv
<1>i. /\ LastEnd \in Nat /\ i \in Nat /\ i <= n /\ start \in Nat /\ start <= i
      /\ mode = "top" => LastEnd <= i
      /\ mode # "top" => LastEnd <= start /\ start < i
      /\ line \in Nat /\ line_start \in 0 .. n
      /\ mode \in {"top", "comment", "int", "fraction", "word", "string"}
      /\ status \in {"lexing", "error", "done"} /\ err \in [line : Nat, col : Int]
  BY <1>t, <1>n, LastEndNat DEF LInv, LTypeOK
<1>e. ASSUME NEW off \in Nat, set_error(off)
      PROVE status' \in {"lexing", "error", "done"} /\ err' \in [line : Nat, col : Int]
  BY <1>e, <1>t DEF set_error, col_of, LTypeOK
<1>1. CASE Blank BY <1>1, <1>n, <1>i, Quiet DEF Blank, Lexing, In, SameLine, Going
<1>2. CASE NewLine BY <1>2, <1>n, <1>i, Quiet DEF NewLine, Lexing, In, Going
<1>3. CASE Comment
  BY <1>3, <1>n, <1>i, Quiet DEF Comment, Enter, Lexing, In, next_is, SameLine, Going
<1>4. CASE InComment
  BY <1>4, <1>n, <1>i, Quiet DEF InComment, Lexing, Leave, SameLine, Going
<1>5. CASE Number
  BY <1>5, <1>n, <1>i, Quiet DEF Number, Enter, Lexing, In, SameLine, Going
<1>m. ASSUME NEW kind \in {"Int", "Float"}, NumberEnds(kind), mode # "top", SameLine, source' = source
      PROVE LInv'
  <2>1. status' \in {"lexing", "error", "done"} /\ err' \in [line : Nat, col : Int]
    BY <1>m, <1>t, <1>e DEF NumberEnds, LTypeOK
  <2>2. push(kind, start, i) /\ mode' = "top" /\ start' = start /\ i' = i
    BY <1>m DEF NumberEnds, Leave
  <2>3. LastEnd <= start /\ start < i /\ i <= n /\ start \in Nat /\ i \in Nat
    BY <1>m, <1>t, <1>n DEF LInv, LTypeOK
  <2> QED BY <2>1, <2>2, <2>3, <1>m, Pushes DEF TokenKinds, SameLine
<1>6. CASE InInt
  <2>1. CASE NumberEnds("Int") BY <2>1, <1>6, <1>m DEF InInt, Lexing
  <2>2. CASE ~NumberEnds("Int")
    BY <2>2, <1>6, <1>n, <1>i, Quiet DEF InInt, Point, Lexing, In, SameLine
  <2> QED BY <2>1, <2>2
<1>7. CASE InFraction
  <2>1. CASE NumberEnds("Float") BY <2>1, <1>7, <1>m DEF InFraction, Lexing
  <2>2. CASE ~NumberEnds("Float")
    BY <2>2, <1>7, <1>n, <1>i, Quiet DEF InFraction, Lexing, In, SameLine
  <2> QED BY <2>1, <2>2
<1>8. CASE Identifier
  BY <1>8, <1>n, <1>i, Quiet DEF Identifier, Enter, Lexing, In, SameLine, Going
<1>9. CASE InWord
  <2>1. CASE In(Alpha \cup Digits)
    BY <2>1, <1>9, <1>n, <1>i, Quiet DEF InWord, Lexing, In, SameLine, Going
  <2>2. CASE ~In(Alpha \cup Digits)
    <3>1. push(WordKind(Slice(start, i)), start, i) /\ mode' = "top" /\ start' = start /\ i' = i
      BY <2>2, <1>9 DEF InWord, Leave
    <3>2. LastEnd <= start /\ start < i /\ i <= n /\ start \in Nat /\ i \in Nat
      BY <1>9, <1>t, <1>n DEF LInv, LTypeOK, InWord, Lexing
    <3>3. WordKind(Slice(start, i)) \in TokenKinds \ {"Eof"} BY DEF WordKind, TokenKinds
    <3>4. UNCHANGED <<line, line_start, source, status, err>> BY <1>9 DEF InWord, SameLine, Going
    <3>5. status' \in {"lexing", "error", "done"} /\ err' \in [line : Nat, col : Int]
      BY <3>4, <1>t DEF LTypeOK
    <3> QED BY <3>1, <3>2, <3>3, <3>4, <3>5, Pushes
  <2> QED BY <2>1, <2>2
<1>10. CASE String
  BY <1>10, <1>n, <1>i, Quiet DEF String, Enter, Lexing, In, SameLine, Going
<1>11. CASE InString
  <2>s. LastEnd <= start /\ start < i /\ i <= n /\ start \in Nat /\ i \in Nat
    BY <1>11, <1>i DEF InString, Lexing
  <2>1. CASE In({DQuote}) /\ push("Str", start, i + 1) /\ Leave /\ i' = i + 1 /\ SameLine /\ Going
    <3>1. i < n BY <2>1 DEF In
    <3>2. status' \in {"lexing", "error", "done"} /\ err' \in [line : Nat, col : Int]
      BY <2>1, <1>t DEF LTypeOK, Going
    <3>3. LastEnd <= start /\ start <= i + 1 /\ i + 1 <= n /\ i + 1 \in Nat /\ start # i + 1
      BY <3>1, <2>s, <1>n
    <3>4. PICK to \in Nat, kind \in TokenKinds : to = i + 1 /\ kind = "Str"
      BY <3>3 DEF TokenKinds
    <3>5. push(kind, start, to) /\ i' = to /\ mode' = "top" /\ start' = start
          /\ UNCHANGED <<line, line_start>> /\ source' = source
      BY <2>1, <3>4 DEF SameLine, Going, Leave
    <3>6. LastEnd <= start /\ start <= to /\ to <= n /\ (start = to <=> kind = "Eof")
      BY <3>3, <3>4
    <3>7. start \in Nat BY <2>s
    <3> QED BY <3>2, <3>5, <3>6, <3>7, Pushes
  <2>2. CASE i >= n /\ set_error(start) /\ SameLine /\ UNCHANGED <<source, i, mode, start, tokens>>
    BY <2>2, <2>s, <1>n, <1>i, <1>e, Quiet DEF SameLine
  <2>3. CASE Escape /\ i' = i + 2 /\ SameLine /\ UNCHANGED <<mode, start, tokens>> /\ Going
    BY <2>3, <2>s, <1>n, <1>i, Quiet DEF Escape, In, SameLine, Going
  <2>4. CASE In({EndLine}) /\ line' = line + 1 /\ line_start' = i + 1 /\ i' = i + 1
               /\ UNCHANGED <<mode, start, tokens>> /\ Going
    BY <2>4, <2>s, <1>n, <1>i, Quiet DEF In, Going
  <2>5. CASE i < n /\ ~Escape /\ ~In({DQuote, EndLine}) /\ i' = i + 1 /\ SameLine
               /\ UNCHANGED <<mode, start, tokens>> /\ Going
    BY <2>5, <2>s, <1>n, <1>i, Quiet DEF SameLine, Going
  <2> QED BY <1>11, <2>1, <2>2, <2>3, <2>4, <2>5 DEF InString
<1>12. CASE Operator
  <2>1. push("Op", i, i + OpLen) /\ i' = i + OpLen /\ i < n /\ mode = "top" /\ mode' = "top"
    BY <1>12 DEF Operator, In, Lexing
  <2>2. OpLen \in {1, 2} /\ (OpLen = 2 => i + 1 < n) BY DEF OpLen
  <2>3. i \in Nat /\ i + OpLen \in Nat /\ i <= i + OpLen /\ i + OpLen <= n /\ i # i + OpLen
        /\ LastEnd <= i /\ start <= i + OpLen
    BY <2>1, <2>2, <1>n, <1>t DEF LInv, LTypeOK
  <2>4. UNCHANGED <<line, line_start, source, start, status, err>>
    BY <1>12 DEF Operator, SameLine, Going
  <2>5. status' \in {"lexing", "error", "done"} /\ err' \in [line : Nat, col : Int]
    BY <2>4, <1>t DEF LTypeOK
  <2> HIDE DEF OpLen
  <2>6. PICK to \in Nat, kind \in TokenKinds : to = i + OpLen /\ kind = "Op"
    BY <2>3 DEF TokenKinds
  <2>7. push(kind, i, to) /\ i' = to /\ mode' = "top" /\ start' = start
        /\ UNCHANGED <<line, line_start>> /\ source' = source
    BY <2>1, <2>4, <2>6
  <2>8. LastEnd <= i /\ i <= to /\ to <= n /\ start <= to /\ (i = to <=> kind = "Eof")
    BY <2>3, <2>6
  <2>9. i \in Nat BY <1>i
  <2> QED BY <2>5, <2>7, <2>8, <2>9, Pushes
<1>13. CASE Unexpected
  <2>1. set_error(i) /\ i \in Nat BY <1>13, <1>i DEF Unexpected
  <2> QED BY <1>13, <2>1, <1>e, <1>n, <1>i, Quiet DEF Unexpected, Lexing, SameLine
<1>14. CASE EndOfSource
  <2>1. i = n /\ mode = "top" /\ LastEnd <= i
    BY <1>14, <1>n, <1>t DEF EndOfSource, Lexing, LInv, LTypeOK
  <2>2. push("Eof", n, n) /\ status' = "done" /\ UNCHANGED <<source, i, mode, start, err, line, line_start>>
    BY <1>14 DEF EndOfSource, SameLine
  <2>3. status' \in {"lexing", "error", "done"} /\ err' \in [line : Nat, col : Int]
    BY <2>2, <1>i
  <2>4. PICK to \in Nat, kind \in TokenKinds : to = n /\ kind = "Eof" BY <1>n DEF TokenKinds
  <2>5. push(kind, to, to) /\ i' = to /\ mode' = "top" /\ start' = start
        /\ UNCHANGED <<line, line_start>> /\ source' = source
    BY <2>1, <2>2, <2>4
  <2>6. LastEnd <= to /\ to <= to /\ to <= n /\ start <= to /\ (to = to <=> kind = "Eof")
    BY <2>1, <2>4, <1>i
  <2> QED BY <2>3, <2>5, <2>6, Pushes
<1>15. CASE UNCHANGED lvars \/ LDone
  <2>1. UNCHANGED lvars BY <1>15 DEF LDone
  <2> QED BY <2>1 DEF lvars, LInv, LTypeOK, InOrder, LastEnd, TokenEnd, n
<1> QED
  BY <1>1, <1>2, <1>3, <1>4, <1>5, <1>6, <1>7, <1>8, <1>9, <1>10, <1>11, <1>12, <1>13, <1>14, <1>15
  DEF LNext

\* The invariant of every behaviour of the lexer, whatever text it is given.
THEOREM LexerInvariant == LSpec => []LInv
<1> QED BY InitInv, StepInv, PTL DEF LSpec

\* lex() never leaves the source, and its tokens are ordered and disjoint.
THEOREM TokensInOrder == LSpec => [](LTypeOK /\ InOrder)
<1>1. LInv => LTypeOK /\ InOrder BY DEF LInv
<1> QED BY <1>1, LexerInvariant, PTL

-----------------------------------------------------------------------------
(***************************************************************************)
(* Nothing is lost: the bytes between two tokens are blanks and comments.  *)
(***************************************************************************)
Gap(from, to) == \A x \in from .. to - 1 : Skipped(from, x)

\* Where the gap before token k begins.
Behind(k) == IF k = 1 THEN 0 ELSE TokenEnd(tokens[k - 1])

GapInv ==
  /\ \A k \in 1 .. Len(tokens) : Gap(Behind(k), tokens[k].start)
  /\ mode # "top" => Gap(LastEnd, start)
  /\ mode = "top" /\ status = "lexing" => Gap(LastEnd, i)
  /\ mode = "comment" => /\ start + 1 < i /\ At(start) = "/" /\ At(start + 1) = "/"
                         /\ \A x \in start .. i - 1 : At(x) # EndLine
  /\ status = "done" => /\ Len(tokens) > 0 /\ tokens[Len(tokens)].kind = "Eof"
                        /\ tokens[Len(tokens)].start = n

\* The characters that matter are different ones.
LEMMA CharsApart ==
  /\ EndLine # "/" /\ EndLine # DQuote /\ EndLine # Backslash /\ DQuote # Backslash
  /\ EndLine \notin Blanks \cup Singles /\ DQuote \notin Singles /\ "." \in Singles
  /\ EndLine \notin Alpha \cup Digits /\ DQuote \notin Alpha \cup Digits
  /\ Backslash \notin Alpha \cup Digits /\ Alpha \cap Digits = {}
  /\ (Alpha \cup Digits) \cap Singles = {}
<1>1. /\ EndLine # "/" /\ EndLine # DQuote /\ EndLine # Backslash /\ DQuote # Backslash
      /\ EndLine \notin Blanks \cup Singles /\ DQuote \notin Singles /\ "." \in Singles
  BY DEF EndLine, DQuote, Backslash, Blanks, Singles
<1> QED BY <1>1, AlphabetAssumption

\* A blank, or a comment from its first byte, may be added to a gap.
LEMMA GapGrows ==
  ASSUME NEW from \in Nat, NEW to \in Nat, from <= to, Gap(from, to)
  PROVE  /\ At(to) \in Blanks \cup {EndLine} => Gap(from, to + 1)
         /\ \A end \in Nat :
              /\ to + 1 < n /\ At(to) = "/" /\ At(to + 1) = "/"
              /\ \A x \in to .. end - 1 : At(x) # EndLine
              => Gap(from, end)
<1>1. ASSUME At(to) \in Blanks \cup {EndLine}, NEW x \in from .. to PROVE Skipped(from, x)
  <2>1. CASE x = to
    BY <1>1, <2>1 DEF Skipped
  <2>2. CASE x # to
    BY <2>2 DEF Gap
  <2> QED BY <2>1, <2>2
<1>2. ASSUME NEW end \in Nat, to + 1 < n, At(to) = "/", At(to + 1) = "/",
             \A x \in to .. end - 1 : At(x) # EndLine, NEW x \in from .. end - 1
      PROVE  Skipped(from, x)
  <2>1. CASE x < to
    BY <2>1 DEF Gap
  <2>2. CASE x >= to
    <3>1. to \in from .. x /\ \A y \in to .. x - 1 : At(y) # EndLine
      BY <1>2, <2>2
    <3> QED BY <1>2, <3>1 DEF Skipped
  <2> QED BY <2>1, <2>2
<1> QED BY <1>1, <1>2 DEF Gap

\* A step that pushes nothing.
LEMMA GapQuiet ==
  ASSUME LInv, GapInv, UNCHANGED <<source, tokens>>, status' # "done" \/ UNCHANGED status,
         mode' # "top" => Gap(LastEnd, start'),
         mode' = "top" /\ status' = "lexing" => Gap(LastEnd, i'),
         mode' = "comment" => /\ start' + 1 < i' /\ At(start') = "/" /\ At(start' + 1) = "/"
                              /\ \A x \in start' .. i' - 1 : At(x) # EndLine
  PROVE  GapInv'
<1>1. \A from, to : Gap(from, to)' = Gap(from, to)
  BY DEF Gap, Skipped, At, n
<1>2. LastEnd' = LastEnd /\ n' = n /\ \A k : At(k)' = At(k)
  BY DEF LastEnd, TokenEnd, n, At
<1>3. \A k \in 1 .. Len(tokens) : Gap(Behind(k), tokens[k].start)'
  BY <1>1 DEF GapInv, Behind, TokenEnd
<1> QED BY <1>1, <1>2, <1>3 DEF GapInv, At

\* What a pushed token is, and that the others stay.
LEMMA Pushed ==
  ASSUME LInv, NEW kind \in TokenKinds, NEW from \in Nat, NEW to \in Nat, from <= to, to <= n,
         push(kind, from, to)
  PROVE  LET t == [kind |-> kind, start |-> from, len |-> to - from,
                   line |-> line, col |-> col_of(from)] IN
         /\ Len(tokens) \in Nat /\ Len(tokens') = Len(tokens) + 1
         /\ tokens'[Len(tokens) + 1] = t /\ TokenEnd(t) = to
         /\ \A k \in 1 .. Len(tokens) : tokens'[k] = tokens[k]
<1> DEFINE T == [kind : TokenKinds, start : 0 .. n, len : 0 .. n, line : Nat, col : Int]
           t == [kind |-> kind, start |-> from, len |-> to - from,
                 line |-> line, col |-> col_of(from)]
<1>1. n \in Nat /\ Len(tokens) \in Nat
  BY TextLen DEF LInv
<1>2. tokens \in Seq(T) /\ tokens' = Append(tokens, t)
  BY DEF LInv, LTypeOK, push
<1>3. t \in T
  BY <1>1 DEF LInv, LTypeOK, col_of
<1>4. TokenEnd(t) = to
  BY DEF TokenEnd
<1> HIDE DEF t, T
<1>5. /\ Len(tokens') = Len(tokens) + 1 /\ tokens'[Len(tokens) + 1] = t
      /\ \A k \in 1 .. Len(tokens) : tokens'[k] = tokens[k]
  BY <1>2, <1>3
<1> QED BY <1>1, <1>4, <1>5 DEF t

LEMMA GapPushes ==
  ASSUME LInv, GapInv, NEW kind \in TokenKinds, NEW from \in Nat, NEW to \in Nat,
         from <= to, to <= n, push(kind, from, to), UNCHANGED source, Gap(LastEnd, from),
         i' = to, mode' = "top", status' = "done" => kind = "Eof" /\ from = n
  PROVE  GapInv'
<1> DEFINE m == Len(tokens)
           t == [kind |-> kind, start |-> from, len |-> to - from,
                 line |-> line, col |-> col_of(from)]
<1>1. /\ m \in Nat /\ Len(tokens') = m + 1 /\ tokens'[m + 1] = t /\ TokenEnd(t) = to
      /\ \A k \in 1 .. m : tokens'[k] = tokens[k]
  BY Pushed
<1>2. t.kind = kind /\ t.start = from /\ \A u : TokenEnd(u) = u.start + u.len
  BY DEF TokenEnd
<1>3. m = 0 => tokens = <<>>
  BY DEF LInv, LTypeOK
<1> HIDE DEF m, t
<1>4. \A a, b : Gap(a, b)' = Gap(a, b)
  BY DEF Gap, Skipped, At, n
<1>5. ASSUME NEW k \in 1 .. m + 1 PROVE Gap(Behind(k), tokens[k].start)'
  <2>1. CASE k \in 1 .. m
    <3>1. Behind(k)' = Behind(k) /\ tokens'[k] = tokens[k]
      BY <1>1, <2>1 DEF Behind, TokenEnd
    <3>2. Gap(Behind(k), tokens[k].start)
      BY <2>1 DEF GapInv, m
    <3> QED BY <1>4, <3>1, <3>2 DEF Gap
  <2>2. CASE k = m + 1
    <3>1. Behind(k)' = LastEnd
      BY <1>1, <1>3, <2>2 DEF Behind, LastEnd, TokenEnd, m
    <3>2. tokens'[k].start = from
      BY <1>1, <1>2, <2>2
    <3> QED BY <1>4, <3>1, <3>2 DEF Gap
  <2> QED BY <1>1, <2>1, <2>2
<1>6. LastEnd' = to
  BY <1>1, <1>2 DEF LastEnd, TokenEnd
<1>7. Gap(LastEnd, i)'
  BY <1>6 DEF Gap
<1>8. n' = n
  BY DEF n
<1> QED BY <1>1, <1>2, <1>5, <1>7, <1>8 DEF GapInv

\* What every step of the lexer may assume about its offsets.
LEMMA Offsets ==
  ASSUME LInv
  PROVE  /\ n \in Nat /\ LastEnd \in Nat /\ i \in Nat /\ i <= n /\ start \in Nat /\ start <= i
         /\ mode = "top" => LastEnd <= i
         /\ mode # "top" => LastEnd <= start /\ start < i
         /\ line \in Nat /\ line_start \in 0 .. n /\ Len(tokens) \in Nat
         /\ {"Int", "Float", "Ident", "Keyword", "Str", "Op", "Eof"} = TokenKinds
BY TextLen, LastEndNat DEF LInv, LTypeOK, TokenKinds

LEMMA GapStep == LInv /\ GapInv /\ [LNext]_lvars => GapInv'
<1> SUFFICES ASSUME LInv, GapInv, [LNext]_lvars PROVE GapInv'
  OBVIOUS
<1>o. /\ n \in Nat /\ LastEnd \in Nat /\ i \in Nat /\ i <= n /\ start \in Nat /\ start <= i
      /\ mode = "top" => LastEnd <= i
      /\ mode # "top" => LastEnd <= start /\ start < i
      /\ {"Int", "Float", "Ident", "Keyword", "Str", "Op", "Eof"} = TokenKinds
  BY Offsets
<1>g. /\ mode # "top" => Gap(LastEnd, start)
      /\ mode = "top" /\ status = "lexing" => Gap(LastEnd, i)
      /\ mode = "comment" => /\ start + 1 < i /\ At(start) = "/" /\ At(start + 1) = "/"
                             /\ \A x \in start .. i - 1 : At(x) # EndLine
  BY DEF GapInv
<1>1. CASE Blank \/ NewLine
  <2>1. /\ mode = "top" /\ status = "lexing" /\ At(i) \in Blanks \cup {EndLine} /\ i' = i + 1
        /\ UNCHANGED <<source, tokens, mode, status>>
    BY <1>1 DEF Blank, NewLine, Lexing, In, SameLine, Going
  <2>2. Gap(LastEnd, i + 1)
    BY <1>o, <1>g, <2>1, GapGrows
  <2> QED BY <2>1, <2>2, GapQuiet
<1>2. CASE Comment
  <2>1. /\ mode = "top" /\ status = "lexing" /\ At(i) = "/" /\ At(i + 1) = "/" /\ i + 1 < n
        /\ mode' = "comment" /\ start' = i /\ i' = i + 2 /\ UNCHANGED <<source, tokens, status>>
    BY <1>2 DEF Comment, Enter, Lexing, In, next_is, Going
  <2>2. \A x \in i .. i + 2 - 1 : At(x) # EndLine
    <3>1. \A x \in i .. i + 2 - 1 : x = i \/ x = i + 1
      BY <1>o
    <3> QED BY <2>1, <3>1, CharsApart
  <2> QED BY <1>o, <1>g, <2>1, <2>2, GapQuiet
<1>3. CASE InComment
  <2>1. /\ mode = "comment" /\ status = "lexing" /\ UNCHANGED <<source, tokens, status, start>>
        /\ IF i < n /\ At(i) # EndLine THEN i' = i + 1 /\ UNCHANGED mode
           ELSE mode' = "top" /\ UNCHANGED i
    BY <1>3 DEF InComment, Lexing, Leave, Going
  <2>2. CASE i < n /\ At(i) # EndLine
    <3>1. \A x \in start .. i + 1 - 1 : At(x) # EndLine
      <4>1. \A x \in start .. i + 1 - 1 : x \in start .. i - 1 \/ x = i
        BY <1>o
      <4> QED BY <1>g, <2>1, <2>2, <4>1
    <3> QED BY <1>o, <1>g, <2>1, <2>2, <3>1, GapQuiet
  <2>3. CASE ~(i < n /\ At(i) # EndLine)
    <3>1. Gap(LastEnd, i)
      <4>1. /\ start + 1 < n /\ At(start) = "/" /\ At(start + 1) = "/"
            /\ \A x \in start .. i - 1 : At(x) # EndLine
        BY <1>o, <1>g, <2>1
      <4> QED BY <1>o, <1>g, <2>1, <4>1, GapGrows
    <3> QED BY <2>1, <2>3, <3>1, GapQuiet
  <2> QED BY <2>2, <2>3
<1>4. CASE Number \/ Identifier \/ String
  <2>1. /\ mode = "top" /\ status = "lexing" /\ start' = i /\ mode' \in {"int", "word", "string"}
        /\ UNCHANGED <<source, tokens, status>>
    BY <1>4 DEF Number, Identifier, String, Enter, Lexing, Going
  <2> QED BY <1>g, <2>1, GapQuiet
\* Inside a lexeme.
<1>q. ASSUME mode \in {"int", "fraction", "word", "string"}, status = "lexing",
             mode' \in {"int", "fraction", "word", "string"}, status' \in {"lexing", "error"},
             UNCHANGED <<source, tokens, start>>
      PROVE  GapInv'
  BY <1>g, <1>q, GapQuiet DEF LastEnd, TokenEnd
\* At its end.
<1>p. ASSUME NEW kind \in TokenKinds, NEW to \in Nat, start <= to, to <= n, mode # "top",
             push(kind, start, to), i' = to, mode' = "top", status' # "done", UNCHANGED source
      PROVE  GapInv'
  BY <1>o, <1>g, <1>p, GapPushes
<1>m. ASSUME NEW kind \in TokenKinds, NumberEnds(kind), mode # "top", status = "lexing",
             UNCHANGED source
      PROVE  GapInv'
  <2>1. push(kind, start, i) /\ i' = i /\ mode' = "top" /\ status' # "done"
    BY <1>m DEF NumberEnds, Leave, set_error
  <2> QED BY <1>m, <1>o, <1>p, <2>1
<1>5. CASE InInt
  <2>1. mode = "int" /\ status = "lexing" /\ UNCHANGED source
    BY <1>5 DEF InInt, Lexing
  <2>2. CASE NumberEnds("Int")
    BY <1>m, <1>o, <2>1, <2>2
  <2>3. CASE ~NumberEnds("Int")
    <3>1. mode' \in {"int", "fraction"} /\ UNCHANGED <<start, tokens, status>>
      BY <1>5, <2>1, <2>3 DEF InInt
    <3> QED BY <1>q, <2>1, <3>1
  <2> QED BY <2>2, <2>3
<1>6. CASE InFraction
  <2>1. mode = "fraction" /\ status = "lexing" /\ UNCHANGED source
    BY <1>6 DEF InFraction, Lexing
  <2>2. CASE NumberEnds("Float")
    BY <1>m, <1>o, <2>1, <2>2
  <2>3. CASE ~NumberEnds("Float")
    <3>1. mode' = "fraction" /\ UNCHANGED <<start, tokens, status>>
      BY <1>6, <2>1, <2>3 DEF InFraction
    <3> QED BY <1>q, <2>1, <3>1
  <2> QED BY <2>2, <2>3
<1>7. CASE InWord
  <2>1. mode = "word" /\ status = "lexing" /\ UNCHANGED <<source, status>>
    BY <1>7 DEF InWord, Lexing, Going
  <2>2. CASE In(Alpha \cup Digits)
    BY <1>7, <1>q, <2>1, <2>2 DEF InWord
  <2>3. CASE ~In(Alpha \cup Digits)
    <3>1. push(WordKind(Slice(start, i)), start, i) /\ i' = i /\ mode' = "top"
      BY <1>7, <2>3 DEF InWord, Leave
    <3>2. WordKind(Slice(start, i)) \in TokenKinds
      BY <1>o DEF WordKind
    <3> QED BY <1>o, <1>p, <2>1, <3>1, <3>2
  <2> QED BY <2>2, <2>3
<1>8. CASE InString
  <2>1. mode = "string" /\ status = "lexing" /\ UNCHANGED source
    BY <1>8 DEF InString, Lexing, Going
  <2>2. CASE In({DQuote}) /\ push("Str", start, i + 1) /\ Leave /\ i' = i + 1 /\ Going
    <3>1. i + 1 <= n /\ i + 1 \in Nat /\ start <= i + 1 /\ "Str" \in TokenKinds
      BY <1>o, <2>2 DEF In
    <3>2. mode' = "top" /\ status' = status
      BY <2>2 DEF Leave, Going
    <3> QED BY <1>p, <2>1, <2>2, <3>1, <3>2
  <2>3. CASE ~(In({DQuote}) /\ push("Str", start, i + 1) /\ Leave /\ i' = i + 1 /\ Going)
    <3>1. mode' = "string" /\ status' \in {"lexing", "error"} /\ UNCHANGED <<start, tokens>>
      BY <1>8, <2>1, <2>3 DEF InString, Going, set_error
    <3> QED BY <1>q, <2>1, <3>1
  <2> QED BY <2>2, <2>3
<1>9. CASE Operator
  <2>1. /\ mode = "top" /\ status = "lexing" /\ push("Op", i, i + OpLen) /\ i' = i + OpLen
        /\ mode' = "top" /\ UNCHANGED <<source, status>> /\ i < n
    BY <1>9 DEF Operator, Lexing, In, Going
  <2>2. OpLen \in 1 .. 2 /\ (OpLen = 2 => i + 1 < n)
    BY DEF OpLen
  <2> HIDE DEF OpLen
  <2>3. i + OpLen \in Nat /\ i <= i + OpLen /\ i + OpLen <= n /\ "Op" \in TokenKinds
    BY <1>o, <2>1, <2>2
  <2> QED BY <1>o, <1>g, <2>1, <2>3, GapPushes
<1>10. CASE Unexpected
  <2>1. status' = "error" /\ mode = "top" /\ UNCHANGED <<source, i, mode, start, tokens>>
    BY <1>10 DEF Unexpected, set_error, Lexing
  <2> QED BY <2>1, GapQuiet
<1>11. CASE EndOfSource
  <2>1. /\ mode = "top" /\ status = "lexing" /\ i >= n /\ push("Eof", n, n)
        /\ UNCHANGED <<source, i, mode>>
    BY <1>11 DEF EndOfSource, Lexing
  <2>2. i = n /\ "Eof" \in TokenKinds
    BY <1>o, <2>1
  <2> QED BY <1>o, <1>g, <2>1, <2>2, GapPushes
<1>12. CASE LDone \/ UNCHANGED lvars
  <2>1. UNCHANGED <<source, i, mode, start, tokens, status>>
    BY <1>12 DEF LDone, lvars
  <2> QED BY <1>g, <2>1, GapQuiet DEF LastEnd, TokenEnd
<1> QED
  BY <1>1, <1>2, <1>3, <1>4, <1>5, <1>6, <1>7, <1>8, <1>9, <1>10, <1>11, <1>12 DEF LNext

LEMMA NothingIsLost == GapInv => NothingLost
BY DEF GapInv, NothingLost, Gap, Behind

-----------------------------------------------------------------------------
(***************************************************************************)
(* Lines and columns: line and line_start tell the truth about the byte at *)
(* hand as long as no escaped newline lies behind it.                      *)
(***************************************************************************)
TrueStart(off) == off + 1 - TrueCol(off)

TokenLocated(t) ==
  ~EscapedNewline(t.start) /\ ~MultiLine(t.start, TokenEnd(t)) =>
    t.line = TrueLine(t.start) /\ t.col = TrueCol(t.start)

LineInv ==
  /\ ~EscapedNewline(i) => line = TrueLine(i) /\ line_start = TrueStart(i)
  /\ \A k \in 1 .. Len(tokens) : TokenLocated(tokens[k])

\* The last newline, when there is one.
LEMMA LastNewline ==
  ASSUME NEW off \in Nat, Newlines(off) # {}
  PROVE  \E x \in Newlines(off) : \A y \in Newlines(off) : y <= x
<1>1. Newlines(off) \subseteq Nat /\ \A x \in Newlines(off) : x <= off
  BY DEF Newlines
<1> HIDE DEF Newlines
<1> QED BY <1>1, Greatest

NewlineBefore(off) ==
  IF Newlines(off) = {} THEN -1
  ELSE CHOOSE x \in Newlines(off) : \A y \in Newlines(off) : y <= x

LEMMA Column ==
  ASSUME NEW off \in Nat
  PROVE  /\ NewlineBefore(off) \in Int /\ TrueCol(off) \in Int
         /\ TrueCol(off) = off - NewlineBefore(off)
<1>1. TrueCol(off) = off - NewlineBefore(off)
  BY DEF TrueCol, NewlineBefore
<1>2. NewlineBefore(off) \in Int
  <2>1. CASE Newlines(off) = {}
    BY <2>1 DEF NewlineBefore
  <2>2. CASE Newlines(off) # {}
    <3>1. \E x \in Newlines(off) : \A y \in Newlines(off) : y <= x
      BY <2>2, LastNewline
    <3>2. NewlineBefore(off) \in Newlines(off)
      BY <2>2, <3>1 DEF NewlineBefore
    <3>3. Newlines(off) \subseteq Nat
      BY DEF Newlines
    <3> QED BY <3>2, <3>3
  <2> QED BY <2>1, <2>2
<1> QED BY <1>1, <1>2

\* Bytes that are no newlines leave line and line start as they are.
LEMMA SameLines ==
  ASSUME NEW a \in Nat, NEW b \in Nat, a <= b, \A x \in a .. b - 1 : At(x) # EndLine
  PROVE  /\ TrueLine(b) = TrueLine(a) /\ TrueStart(b) = TrueStart(a)
         /\ EscapedNewline(a) <=> EscapedNewline(b)
<1>1. Newlines(b) = Newlines(a)
  BY DEF Newlines
<1>2. TrueLine(b) = TrueLine(a)
  BY <1>1 DEF TrueLine
<1>3. NewlineBefore(b) = NewlineBefore(a)
  BY <1>1 DEF NewlineBefore
<1>4. NewlineBefore(a) \in Int /\ TrueCol(a) = a - NewlineBefore(a) /\ TrueCol(b) = b - NewlineBefore(b)
  BY Column
<1>5. TrueStart(b) = TrueStart(a)
  BY <1>3, <1>4 DEF TrueStart
<1>6. EscapedNewline(a) <=> EscapedNewline(b)
  BY DEF EscapedNewline
<1> QED BY <1>2, <1>5, <1>6

\* A newline begins the next line.
LEMMA NextLine ==
  ASSUME NEW x \in Nat, At(x) = EndLine
  PROVE  TrueLine(x + 1) = TrueLine(x) + 1 /\ TrueStart(x + 1) = x + 1
<1>1. Newlines(x + 1) = Newlines(x) \cup {x} /\ x \notin Newlines(x)
  BY DEF Newlines
<1>2. IsFiniteSet(Newlines(x))
  <2> DEFINE last == x - 1
  <2>1. Newlines(x) \subseteq 0 .. last /\ last \in Int
    BY DEF Newlines
  <2> HIDE DEF last, Newlines
  <2>2. IsFiniteSet(0 .. last)
    BY <2>1, FS_Interval
  <2> QED BY <2>1, <2>2, FS_Subset
<1>3. TrueLine(x + 1) = TrueLine(x) + 1
  <2>1. Cardinality(Newlines(x)) \in Nat
    BY <1>2, FS_CardinalityType
  <2>2. Cardinality(Newlines(x) \cup {x}) = Cardinality(Newlines(x)) + 1
    BY <1>1, <1>2, FS_AddElement
  <2>3. Cardinality(Newlines(x + 1)) = Cardinality(Newlines(x)) + 1
    BY <1>1, <2>2
  <2>4. TrueLine(x) = 1 + Cardinality(Newlines(x))
        /\ TrueLine(x + 1) = 1 + Cardinality(Newlines(x + 1))
    BY DEF TrueLine
  <2> HIDE DEF Newlines
  <2> QED BY <2>1, <2>3, <2>4
<1>4. TrueCol(x + 1) = 1
  <2> DEFINE m == CHOOSE y \in Newlines(x + 1) : \A z \in Newlines(x + 1) : z <= y
  <2>1. x \in Newlines(x + 1) /\ \A z \in Newlines(x + 1) : z \in Nat /\ z <= x
    BY <1>1 DEF Newlines
  <2>2. m \in Newlines(x + 1) /\ \A z \in Newlines(x + 1) : z <= m
    BY <2>1
  <2>3. m = x
    BY <2>1, <2>2
  <2>4. TrueCol(x + 1) = x + 1 - m
    BY <2>1 DEF TrueCol
  <2> HIDE DEF m
  <2> QED BY <2>3, <2>4
<1> QED BY <1>3, <1>4 DEF TrueStart

\* A step that pushes nothing and reads no newline.
LEMMA LineQuiet ==
  ASSUME LInv, LineInv, UNCHANGED <<source, tokens, line, line_start>>, i' \in Nat, i <= i',
         ~EscapedNewline(i') => \A x \in i .. i' - 1 : At(x) # EndLine
  PROVE  LineInv'
<1>1. /\ \A k : At(k)' = At(k)
      /\ \A k : TrueLine(k)' = TrueLine(k) /\ TrueStart(k)' = TrueStart(k)
      /\ \A k : EscapedNewline(k)' = EscapedNewline(k)
      /\ \A t : TokenLocated(t)' = TokenLocated(t)
  BY DEF At, TrueLine, TrueStart, TrueCol, Newlines, EscapedNewline, TokenLocated, MultiLine, TokenEnd
<1>2. i \in Nat
  BY Offsets
<1> DEFINE j == i'
<1>3. ASSUME ~EscapedNewline(j) PROVE line = TrueLine(j) /\ line_start = TrueStart(j)
  <2>1. j \in Nat /\ i <= j /\ \A x \in i .. j - 1 : At(x) # EndLine
    BY <1>3
  <2>2. TrueLine(j) = TrueLine(i) /\ TrueStart(j) = TrueStart(i) /\ ~EscapedNewline(i)
    BY <1>2, <1>3, <2>1, SameLines
  <2> QED BY <2>2 DEF LineInv
<1>4. (~EscapedNewline(i) => line = TrueLine(i) /\ line_start = TrueStart(i))'
  BY <1>1, <1>3
<1>5. (\A k \in 1 .. Len(tokens) : TokenLocated(tokens[k]))'
  BY <1>1 DEF LineInv
<1> QED BY <1>4, <1>5 DEF LineInv

\* A step that reads a newline at i and counts it.
LEMMA LineCounts ==
  ASSUME LInv, LineInv, UNCHANGED <<source, tokens>>, At(i) = EndLine,
         i' = i + 1, line' = line + 1, line_start' = i + 1
  PROVE  LineInv'
<1>1. /\ \A k : TrueLine(k)' = TrueLine(k) /\ TrueStart(k)' = TrueStart(k)
      /\ \A k : EscapedNewline(k)' = EscapedNewline(k)
      /\ \A t : TokenLocated(t)' = TokenLocated(t)
  BY DEF At, TrueLine, TrueStart, TrueCol, Newlines, EscapedNewline, TokenLocated, MultiLine, TokenEnd
<1>2. i \in Nat
  BY Offsets
<1>3. TrueLine(i + 1) = TrueLine(i) + 1 /\ TrueStart(i + 1) = i + 1
  BY <1>2, NextLine
<1>4. ~EscapedNewline(i + 1) => ~EscapedNewline(i)
  BY <1>2 DEF EscapedNewline
<1>5. (\A k \in 1 .. Len(tokens) : TokenLocated(tokens[k]))'
  BY <1>1 DEF LineInv
<1>6. (~EscapedNewline(i) => line = TrueLine(i) /\ line_start = TrueStart(i))'
  BY <1>1, <1>3, <1>4 DEF LineInv
<1> QED BY <1>5, <1>6 DEF LineInv

\* A step that pushes a token when it has come to i, inside it or at one of its ends.
LEMMA LinePushes ==
  ASSUME LInv, LineInv, NEW kind \in TokenKinds, NEW from \in Nat, NEW to \in Nat,
         from <= i, i <= to, to <= n, push(kind, from, to), UNCHANGED <<source, line, line_start>>,
         i' = to, \A x \in i .. to - 1 : At(x) # EndLine
  PROVE  LineInv'
<1>1. /\ \A k : TrueLine(k)' = TrueLine(k) /\ TrueStart(k)' = TrueStart(k)
      /\ \A k : EscapedNewline(k)' = EscapedNewline(k)
      /\ \A t : TokenLocated(t)' = TokenLocated(t)
  BY DEF At, TrueLine, TrueStart, TrueCol, Newlines, EscapedNewline, TokenLocated, MultiLine, TokenEnd
<1>2. i \in Nat /\ line_start \in Int
  BY Offsets
<1> DEFINE m == Len(tokens)
           t == [kind |-> kind, start |-> from, len |-> to - from,
                 line |-> line, col |-> col_of(from)]
<1>3. /\ m \in Nat /\ Len(tokens') = m + 1 /\ tokens'[m + 1] = t /\ TokenEnd(t) = to
      /\ \A k \in 1 .. m : tokens'[k] = tokens[k]
  BY <1>2, Pushed
<1>4. t.start = from /\ t.line = line /\ t.col = from - line_start + 1
  BY DEF col_of
<1> HIDE DEF m, t
<1>5. TokenLocated(t)
  <2> SUFFICES ASSUME ~EscapedNewline(from), ~MultiLine(from, to)
               PROVE  line = TrueLine(from) /\ from - line_start + 1 = TrueCol(from)
    BY <1>3, <1>4 DEF TokenLocated
  <2>1. \A x \in from .. i - 1 : At(x) # EndLine
    BY <1>2 DEF MultiLine
  <2>2. TrueLine(i) = TrueLine(from) /\ TrueStart(i) = TrueStart(from) /\ ~EscapedNewline(i)
    BY <1>2, <2>1, SameLines
  <2>3. line = TrueLine(from) /\ line_start = TrueStart(from)
    BY <2>2 DEF LineInv
  <2>4. TrueCol(from) \in Int
    BY Column
  <2> QED BY <1>2, <2>3, <2>4 DEF TrueStart
<1>6. \A k \in 1 .. m + 1 : TokenLocated(tokens'[k])
  <2>1. \A k \in 1 .. m : TokenLocated(tokens'[k])
    BY <1>3 DEF LineInv, m
  <2>2. \A k \in 1 .. m + 1 : k \in 1 .. m \/ k = m + 1
    BY <1>3
  <2> QED BY <1>3, <1>5, <2>1, <2>2
<1>7. (\A k \in 1 .. Len(tokens) : TokenLocated(tokens[k]))'
  BY <1>1, <1>3, <1>6
<1>8. ASSUME ~EscapedNewline(to) PROVE line = TrueLine(to) /\ line_start = TrueStart(to)
  <2>1. TrueLine(to) = TrueLine(i) /\ TrueStart(to) = TrueStart(i) /\ ~EscapedNewline(i)
    BY <1>2, <1>8, SameLines
  <2> QED BY <2>1 DEF LineInv
<1>9. (~EscapedNewline(i) => line = TrueLine(i) /\ line_start = TrueStart(i))'
  BY <1>1, <1>8
<1> QED BY <1>7, <1>9 DEF LineInv

\* The bytes of a slice.
LEMMA Slices ==
  ASSUME LTypeOK, NEW from \in Nat, NEW to \in Nat, from <= to, to <= n
  PROVE  /\ Slice(from, to) \in Seq(STRING) /\ Len(Slice(from, to)) = to - from
         /\ DOMAIN Slice(from, to) = 1 .. to - from
         /\ \A k \in 1 .. to - from : Slice(from, to)[k] = At(from + k - 1)
<1>1. source \in Seq(STRING)
  BY TextsAssumption DEF LTypeOK
<1>2. \A k \in 1 .. to - from : SubSeq(source, from + 1, to)[k] = source[from + k]
  BY <1>1 DEF n
<1> QED BY <1>1, <1>2 DEF Slice, At, n

LEMMA Operators2 ==
  \A s \in Doubles : Len(s) = 2 /\ s[1] \in Singles /\ s[2] \in Singles
<1>1. ASSUME NEW s \in Doubles PROVE \E a, b \in Singles : s = <<a, b>>
  <2> DEFINE first == {"=", "!", "&", "|", "<", ">"}
  <2>1. first \subseteq Singles
    BY DEF Singles
  <2>2. \E a, b \in first : s = <<a, b>>
    BY DEF Doubles
  <2> HIDE DEF first
  <2> QED BY <2>1, <2>2
<1>2. \A a, b : Len(<<a, b>>) = 2 /\ <<a, b>>[1] = a /\ <<a, b>>[2] = b
  OBVIOUS
<1> QED BY <1>1, <1>2

\* The bytes of an operator.
LEMMA OperatorBytes ==
  ASSUME LTypeOK, i < n, At(i) \in Singles
  PROVE  /\ OpLen \in 1 .. 2 /\ i + OpLen <= n
         /\ \A x \in i .. i + OpLen - 1 : At(x) \in Singles
<1>1. n \in Nat /\ i \in Nat
  BY TextLen DEF LTypeOK
<1>2. CASE i + 1 < n /\ Slice(i, i + 2) \in Doubles
  <2>1. OpLen = 2
    BY <1>2 DEF OpLen
  <2> DEFINE end == i + 2
  <2>a. end \in Nat /\ i <= end /\ end <= n /\ end - i = 2 /\ end = i + 2 /\ i + 2 - 1 = end - 1
    BY <1>1, <1>2
  <2> HIDE DEF end
  <2>b. Len(Slice(i, end)) = end - i /\ \A k \in 1 .. end - i : Slice(i, end)[k] = At(i + k - 1)
    BY <1>1, <2>a, Slices
  <2>c. Len(Slice(i, end)) = 2 /\ Slice(i, end)[2] = At(i + 2 - 1)
    <3>1. 2 \in 1 .. end - i /\ Len(Slice(i, end)) = end - i
      BY <2>a, <2>b
    <3>2. Slice(i, end)[2] = At(i + 2 - 1)
      BY <2>b, <3>1, Zenon
    <3> QED BY <2>a, <3>1, <3>2, Zenon
  <2>2. Len(Slice(i, i + 2)) = 2 /\ Slice(i, i + 2)[2] = At(i + 2 - 1)
    BY <2>a, <2>c
  <2>3. At(i + 1) \in Singles
    BY <1>1, <1>2, <2>2, Operators2
  <2>4. \A x \in i .. i + 2 - 1 : x = i \/ x = i + 1
    BY <1>1
  <2> QED BY <1>1, <1>2, <2>1, <2>3, <2>4
<1>3. CASE ~(i + 1 < n /\ Slice(i, i + 2) \in Doubles)
  <2>1. OpLen = 1
    BY <1>3 DEF OpLen
  <2> QED BY <1>1, <2>1
<1> QED BY <1>2, <1>3

LEMMA LineStep == LInv /\ LineInv /\ [LNext]_lvars => LineInv'
<1> SUFFICES ASSUME LInv, LineInv, [LNext]_lvars PROVE LineInv'
  OBVIOUS
<1>o. /\ n \in Nat /\ i \in Nat /\ i <= n /\ start \in Nat /\ start <= i
      /\ {"Int", "Float", "Ident", "Keyword", "Str", "Op", "Eof"} = TokenKinds
      /\ LTypeOK
  BY Offsets DEF LInv
\* One byte that is no newline is read, or none.
<1>r. ASSUME UNCHANGED <<source, tokens, line, line_start>>,
             i' = i \/ (i' = i + 1 /\ At(i) # EndLine)
      PROVE  LineInv'
  <2>1. \A x \in i .. i' - 1 : At(x) # EndLine
    BY <1>o, <1>r
  <2> QED BY <1>o, <1>r, <2>1, LineQuiet
<1>1. CASE Blank
  <2>1. At(i) \in Blanks /\ i' = i + 1 /\ UNCHANGED <<source, tokens, line, line_start>>
    BY <1>1 DEF Blank, In, SameLine, Going
  <2> QED BY <1>r, <2>1, CharsApart
<1>2. CASE NewLine
  <2>1. /\ At(i) = EndLine /\ i' = i + 1 /\ line' = line + 1 /\ line_start' = i + 1
        /\ UNCHANGED <<source, tokens>>
    BY <1>2 DEF NewLine, In, Going
  <2> QED BY <2>1, LineCounts
<1>3. CASE Comment
  <2>1. At(i) = "/" /\ At(i + 1) = "/" /\ i' = i + 2 /\ UNCHANGED <<source, tokens, line, line_start>>
    BY <1>3 DEF Comment, In, next_is, Enter, SameLine, Going
  <2>2. \A x \in i .. i' - 1 : x = i \/ x = i + 1
    BY <1>o, <2>1
  <2> QED BY <1>o, <2>1, <2>2, CharsApart, LineQuiet
<1>4. CASE InComment
  BY <1>4, <1>r DEF InComment, SameLine, Going
<1>5. CASE Number \/ Identifier \/ String
  <2>1. /\ At(i) \in Digits \cup Alpha \cup {DQuote} /\ i' = i + 1
        /\ UNCHANGED <<source, tokens, line, line_start>>
    BY <1>5 DEF Number, Identifier, String, In, Enter, SameLine, Going
  <2> QED BY <1>r, <2>1, CharsApart
<1>m. ASSUME NEW kind \in TokenKinds, NumberEnds(kind), SameLine, UNCHANGED source PROVE LineInv'
  BY <1>o, <1>m, LinePushes DEF NumberEnds, SameLine
<1>6. CASE InInt
  <2>1. UNCHANGED <<source, line, line_start>> /\ SameLine
    BY <1>6 DEF InInt, SameLine
  <2>2. CASE NumberEnds("Int")
    BY <1>m, <1>o, <2>1, <2>2
  <2>3. CASE ~NumberEnds("Int")
    <3>1. (In(Digits) \/ Point) /\ i' = i + 1 /\ UNCHANGED tokens
      BY <1>6, <2>3 DEF InInt
    <3> QED BY <1>r, <2>1, <3>1, CharsApart DEF In, Point
  <2> QED BY <2>2, <2>3
<1>7. CASE InFraction
  <2>1. UNCHANGED <<source, line, line_start>> /\ SameLine
    BY <1>7 DEF InFraction, SameLine
  <2>2. CASE NumberEnds("Float")
    BY <1>m, <1>o, <2>1, <2>2
  <2>3. CASE ~NumberEnds("Float")
    <3>1. In(Digits) /\ i' = i + 1 /\ UNCHANGED tokens
      BY <1>7, <2>3 DEF InFraction
    <3> QED BY <1>r, <2>1, <3>1, CharsApart DEF In
  <2> QED BY <2>2, <2>3
<1>8. CASE InWord
  <2>1. UNCHANGED <<source, line, line_start>>
    BY <1>8 DEF InWord, SameLine, Going
  <2>2. CASE In(Alpha \cup Digits)
    <3>1. i' = i + 1 /\ UNCHANGED tokens
      BY <1>8, <2>2 DEF InWord
    <3> QED BY <1>r, <2>1, <2>2, <3>1, CharsApart DEF In
  <2>3. CASE ~In(Alpha \cup Digits)
    <3>1. push(WordKind(Slice(start, i)), start, i) /\ i' = i
      BY <1>8, <2>3 DEF InWord
    <3>2. WordKind(Slice(start, i)) \in TokenKinds
      BY <1>o DEF WordKind
    <3> QED BY <1>o, <2>1, <3>1, <3>2, LinePushes
  <2> QED BY <2>2, <2>3
<1>9. CASE InString
  <2>1. CASE Escape /\ i' = i + 2 /\ SameLine /\ UNCHANGED tokens /\ Going
    <3>1. At(i) = Backslash /\ UNCHANGED <<source, tokens, line, line_start>>
      BY <2>1 DEF Escape, In, SameLine, Going
    <3>2. ASSUME ~EscapedNewline(i') PROVE \A x \in i .. i' - 1 : At(x) # EndLine
      <4>1. ~(At(i + 1) = EndLine /\ At(i + 1 - 1) = Backslash)
        BY <1>o, <2>1, <3>2 DEF EscapedNewline
      <4>2. i + 1 - 1 = i /\ \A x \in i .. i' - 1 : x = i \/ x = i + 1
        BY <1>o, <2>1
      <4> QED BY <3>1, <4>1, <4>2, CharsApart
    <3> QED BY <1>o, <2>1, <3>1, <3>2, LineQuiet
  <2>2. CASE In({DQuote}) /\ push("Str", start, i + 1) /\ i' = i + 1 /\ SameLine /\ Going
    <3>1. i + 1 <= n /\ At(i) = DQuote /\ UNCHANGED <<source, line, line_start>>
      BY <1>o, <2>2 DEF In, SameLine, Going
    <3>2. \A x \in i .. i + 1 - 1 : At(x) # EndLine
      BY <1>o, <3>1, CharsApart
    <3>3. i + 1 \in Nat /\ i <= i + 1 /\ "Str" \in TokenKinds
      BY <1>o
    <3> QED BY <1>o, <2>2, <3>1, <3>2, <3>3, LinePushes
  <2>3. CASE In({EndLine}) /\ line' = line + 1 /\ line_start' = i + 1 /\ i' = i + 1
             /\ UNCHANGED tokens /\ Going
    BY <2>3, LineCounts DEF In, Going
  <2>4. CASE i < n /\ ~In({DQuote, EndLine}) /\ i' = i + 1 /\ SameLine /\ UNCHANGED tokens /\ Going
    BY <1>r, <2>4 DEF In, SameLine, Going
  <2>5. CASE SameLine /\ UNCHANGED <<source, i, tokens>>
    BY <1>r, <2>5 DEF SameLine
  <2> QED BY <1>9, <2>1, <2>2, <2>3, <2>4, <2>5 DEF InString
<1>10. CASE Operator
  <2>1. /\ push("Op", i, i + OpLen) /\ i' = i + OpLen /\ UNCHANGED <<source, line, line_start>>
        /\ i < n /\ At(i) \in Singles
    BY <1>10 DEF Operator, In, SameLine, Going
  <2>2. /\ OpLen \in 1 .. 2 /\ i + OpLen <= n
        /\ \A x \in i .. i + OpLen - 1 : At(x) \in Singles
    BY <1>o, <2>1, OperatorBytes
  <2> HIDE DEF OpLen
  <2>3. i + OpLen \in Nat /\ i <= i + OpLen /\ "Op" \in TokenKinds
    BY <1>o, <2>2
  <2> QED BY <1>o, <2>1, <2>2, <2>3, CharsApart, LinePushes
<1>11. CASE Unexpected
  BY <1>r, <1>11 DEF Unexpected, SameLine
<1>12. CASE EndOfSource
  <2>1. push("Eof", n, n) /\ i = n /\ i' = i /\ UNCHANGED <<source, line, line_start>>
    BY <1>o, <1>12 DEF EndOfSource, SameLine
  <2>2. "Eof" \in TokenKinds
    BY <1>o
  <2> QED BY <1>o, <2>1, <2>2, LinePushes
<1>13. CASE LDone \/ UNCHANGED lvars
  BY <1>r, <1>13 DEF LDone, lvars
<1> QED
  BY <1>1, <1>2, <1>3, <1>4, <1>5, <1>6, <1>7, <1>8, <1>9, <1>10, <1>11, <1>12, <1>13 DEF LNext

LEMMA TokensLocated == LineInv => Located
BY DEF LineInv, TokenLocated, Located

-----------------------------------------------------------------------------
(***************************************************************************)
(* Longest match.  Lexeme is first said of the bytes of the source from    *)
(* one offset to another, instead of those of a slice.                     *)
(***************************************************************************)
AllIn(from, to, set) == from < to /\ \A x \in from .. to - 1 : At(x) \in set

FloatAt(from, to) ==
  \E p \in from + 1 .. to - 2 :
    At(p) = "." /\ AllIn(from, p, Digits) /\ AllIn(p + 1, to, Digits)

WordAt(from, to) == AllIn(from, to, Alpha \cup Digits) /\ At(from) \in Alpha

\* The backslashes right before x begin at m.
SlashesFrom(from, m, x) ==
  (\A y \in m .. x - 1 : At(y) = Backslash) /\ (m = from \/ At(m - 1) # Backslash)

EscapedAt(from, x) == \E m \in from .. x - 1 : (x - m) % 2 = 1 /\ SlashesFrom(from, m, x)

Quotes(from, x) == At(x) = DQuote /\ ~EscapedAt(from, x)

StringAt(from, to) ==
  from + 1 < to /\ \A x \in from .. to - 1 : Quotes(from, x) <=> x \in {from, to - 1}

OperatorAt(from, to) ==
  Slice(from, to) \in Doubles \/ (to = from + 1 /\ At(from) \in Singles)

KindAt(from, to) ==
  IF AllIn(from, to, Digits) THEN "Int"
  ELSE IF FloatAt(from, to) THEN "Float"
  ELSE IF WordAt(from, to) THEN WordKind(Slice(from, to))
  ELSE IF StringAt(from, to) THEN "Str"
  ELSE IF OperatorAt(from, to) THEN "Op"
  ELSE "none"

\* All said of a part of a sequence.
LEMMA AllOfPart ==
  ASSUME NEW s \in Seq(STRING), NEW a \in 1 .. Len(s), NEW b \in 1 .. Len(s), a <= b, NEW set
  PROVE  All(SubSeq(s, a, b), set) <=> \A x \in a .. b : s[x] \in set
<1> DEFINE part == SubSeq(s, a, b)
<1>1. Len(s) \in Nat /\ a \in Nat /\ b \in Nat
  OBVIOUS
<1>2. /\ part \in Seq(STRING) /\ DOMAIN part = 1 .. b - a + 1 /\ Len(part) = b - a + 1
      /\ \A k \in 1 .. b - a + 1 : part[k] = s[a + k - 1]
  BY <1>1
<1>3. part # <<>>
  BY <1>1, <1>2
<1> HIDE DEF part
<1>4. ASSUME All(part, set), NEW x \in a .. b PROVE s[x] \in set
  <2>1. x - a + 1 \in 1 .. b - a + 1 /\ a + (x - a + 1) - 1 = x
    BY <1>1
  <2> QED BY <1>2, <1>4, <2>1 DEF All
<1>5. ASSUME \A x \in a .. b : s[x] \in set PROVE All(part, set)
  <2>1. ASSUME NEW k \in 1 .. b - a + 1 PROVE part[k] \in set
    <3>1. a + k - 1 \in a .. b
      BY <1>1
    <3> QED BY <1>2, <1>5, <3>1
  <2> QED BY <1>2, <1>3, <2>1 DEF All
<1> QED BY <1>4, <1>5 DEF part

\* Index k of a slice is offset from + k - 1 of the source.
LEMMA SliceAll ==
  ASSUME LTypeOK, NEW from \in Nat, NEW to \in Nat, from < to, to <= n, NEW set
  PROVE  All(Slice(from, to), set) <=> AllIn(from, to, set)
<1> DEFINE s == Slice(from, to)
<1>0. from <= to
  OBVIOUS
<1>1. /\ s \in Seq(STRING) /\ Len(s) = to - from /\ DOMAIN s = 1 .. to - from
      /\ \A k \in 1 .. to - from : s[k] = At(from + k - 1)
  BY <1>0, Slices, Zenon
<1>2. s # <<>>
  BY <1>1
<1> HIDE DEF s
<1>3. ASSUME All(s, set), NEW x \in from .. to - 1 PROVE At(x) \in set
  <2>1. x - from + 1 \in 1 .. to - from /\ from + (x - from + 1) - 1 = x
    OBVIOUS
  <2> QED BY <1>1, <1>3, <2>1 DEF All
<1>4. ASSUME AllIn(from, to, set), NEW k \in 1 .. to - from PROVE s[k] \in set
  <2>1. from + k - 1 \in from .. to - 1
    OBVIOUS
  <2> QED BY <1>1, <1>4, <2>1 DEF AllIn
<1> QED BY <1>1, <1>2, <1>3, <1>4 DEF All, AllIn, s

LEMMA SliceFloat ==
  ASSUME LTypeOK, NEW from \in Nat, NEW to \in Nat, from < to, to <= n
  PROVE  LET s == Slice(from, to) IN
         (\E k \in 2 .. Len(s) - 1 : s[k] = "." /\ All(SubSeq(s, 1, k - 1), Digits)
                                     /\ All(SubSeq(s, k + 1, Len(s)), Digits))
         <=> FloatAt(from, to)
<1> DEFINE s == Slice(from, to)
           len == to - from
<1>0. from <= to /\ len \in Nat
  OBVIOUS
<1>1. /\ s \in Seq(STRING) /\ Len(s) = len /\ \A k \in 1 .. len : s[k] = At(from + k - 1)
      /\ len \in Nat
  BY <1>0, Slices, Zenon
<1> HIDE DEF s
<1>2. ASSUME NEW k \in 2 .. len - 1
      PROVE  /\ All(SubSeq(s, 1, k - 1), Digits) <=> AllIn(from, from + k - 1, Digits)
             /\ All(SubSeq(s, k + 1, len), Digits) <=> AllIn(from + k, to, Digits)
  <2>1. /\ 1 \in 1 .. len /\ k - 1 \in 1 .. len /\ 1 <= k - 1
        /\ k + 1 \in 1 .. len /\ len \in 1 .. len /\ k + 1 <= len
    BY <1>1
  <2>2. /\ All(SubSeq(s, 1, k - 1), Digits) <=> \A x \in 1 .. k - 1 : s[x] \in Digits
        /\ All(SubSeq(s, k + 1, len), Digits) <=> \A x \in k + 1 .. len : s[x] \in Digits
    BY <1>1, <2>1, AllOfPart
  <2>3. /\ \A x \in 1 .. len : s[x] = At(from + x - 1)
        /\ \A y \in from .. to - 1 : y - from + 1 \in 1 .. len /\ from + (y - from + 1) - 1 = y
    BY <1>1
  <2>4. (\A x \in 1 .. k - 1 : s[x] \in Digits) <=> AllIn(from, from + k - 1, Digits)
    <3>1. ASSUME \A x \in 1 .. k - 1 : s[x] \in Digits, NEW y \in from .. from + k - 1 - 1
          PROVE  At(y) \in Digits
      <4>1. y \in from .. to - 1 /\ y - from + 1 \in 1 .. k - 1
        BY <1>1
      <4> QED BY <1>1, <2>3, <3>1, <4>1
    <3>2. ASSUME AllIn(from, from + k - 1, Digits), NEW x \in 1 .. k - 1 PROVE s[x] \in Digits
      <4>1. from + x - 1 \in from .. from + k - 1 - 1 /\ x \in 1 .. len
        BY <1>1
      <4> QED BY <2>3, <3>2, <4>1 DEF AllIn
    <3>3. from < from + k - 1
      OBVIOUS
    <3> QED BY <3>1, <3>2, <3>3 DEF AllIn
  <2>5. (\A x \in k + 1 .. len : s[x] \in Digits) <=> AllIn(from + k, to, Digits)
    <3>1. ASSUME \A x \in k + 1 .. len : s[x] \in Digits, NEW y \in from + k .. to - 1
          PROVE  At(y) \in Digits
      <4>1. y \in from .. to - 1 /\ y - from + 1 \in k + 1 .. len
        BY <1>1
      <4> QED BY <1>1, <2>3, <3>1, <4>1
    <3>2. ASSUME AllIn(from + k, to, Digits), NEW x \in k + 1 .. len PROVE s[x] \in Digits
      <4>1. from + x - 1 \in from + k .. to - 1 /\ x \in 1 .. len
        BY <1>1
      <4> QED BY <2>3, <3>2, <4>1 DEF AllIn
    <3>3. from + k < to
      BY <1>1
    <3> QED BY <3>1, <3>2, <3>3 DEF AllIn
  <2> QED BY <2>2, <2>4, <2>5
<1>3. ASSUME NEW k \in 2 .. len - 1, s[k] = ".", All(SubSeq(s, 1, k - 1), Digits),
             All(SubSeq(s, k + 1, len), Digits)
      PROVE  FloatAt(from, to)
  <2> DEFINE p == from + k - 1
  <2>1. p \in from + 1 .. to - 2 /\ p + 1 = from + k /\ k \in 1 .. len
    BY <1>1
  <2>2. At(p) = "."
    BY <1>1, <1>3, <2>1
  <2> QED BY <1>2, <1>3, <2>1, <2>2 DEF FloatAt
<1>4. ASSUME FloatAt(from, to)
      PROVE  \E k \in 2 .. len - 1 : s[k] = "." /\ All(SubSeq(s, 1, k - 1), Digits)
                                     /\ All(SubSeq(s, k + 1, len), Digits)
  <2>1. PICK p \in from + 1 .. to - 2 :
               At(p) = "." /\ AllIn(from, p, Digits) /\ AllIn(p + 1, to, Digits)
    BY <1>4 DEF FloatAt
  <2> DEFINE k == p - from + 1
  <2>2. k \in 2 .. len - 1 /\ from + k - 1 = p /\ from + k = p + 1 /\ k \in 1 .. len
    BY <1>1
  <2> HIDE DEF k
  <2>3. s[k] = "."
    BY <1>1, <2>1, <2>2
  <2> QED BY <1>2, <2>1, <2>2, <2>3
<1>5. Len(s) = len
  BY <1>1
<1> HIDE DEF len
<1> QED BY <1>3, <1>4, <1>5 DEF s

LEMMA SliceEscaped ==
  ASSUME LTypeOK, NEW from \in Nat, NEW to \in Nat, from < to, to <= n,
         NEW x \in from .. to - 1
  PROVE  Escaped(Slice(from, to), x - from + 1) <=> EscapedAt(from, x)
<1> DEFINE s == Slice(from, to)
           k == x - from + 1
<1>0. from <= to
  OBVIOUS
<1>1. \A j \in 1 .. to - from : s[j] = At(from + j - 1)
  BY <1>0, Slices, Zenon
<1> HIDE DEF s
<1>2. \A y \in from .. to - 1 : /\ s[y - from + 1] = At(y) /\ from + (y - from + 1) - 1 = y
                                /\ y - from + 1 \in 1 .. to - from
  <2>1. \A y \in from .. to - 1 : y - from + 1 \in 1 .. to - from /\ from + (y - from + 1) - 1 = y
    OBVIOUS
  <2> QED BY <1>1, <2>1
<1>3. ASSUME EscapedAt(from, x) PROVE Escaped(s, k)
  <2>1. PICK m \in from .. x - 1 : (x - m) % 2 = 1 /\ SlashesFrom(from, m, x)
    BY <1>3 DEF EscapedAt
  <2> DEFINE j == m - from + 1
  <2>2. j \in 1 .. k - 1 /\ k - j = x - m
    OBVIOUS
  <2>3. ASSUME NEW y \in j .. k - 1 PROVE s[y] = Backslash
    <3>1. from + y - 1 \in m .. x - 1 /\ from + y - 1 \in from .. to - 1
          /\ (from + y - 1) - from + 1 = y
      OBVIOUS
    <3> QED BY <1>2, <2>1, <3>1 DEF SlashesFrom
  <2>4. j = 1 \/ s[j - 1] # Backslash
    <3>1. CASE m = from
      BY <3>1
    <3>2. CASE m # from
      <4>1. m - 1 \in from .. to - 1 /\ (m - 1) - from + 1 = j - 1
        BY <3>2
      <4>2. At(m - 1) # Backslash
        BY <2>1, <3>2 DEF SlashesFrom
      <4> HIDE DEF j
      <4> QED BY <1>2, <4>1, <4>2
    <3> QED BY <3>1, <3>2
  <2> HIDE DEF j, k
  <2> QED BY <2>1, <2>2, <2>3, <2>4 DEF Escaped
<1>4. ASSUME Escaped(s, k) PROVE EscapedAt(from, x)
  <2>1. PICK j \in 1 .. k - 1 : /\ (k - j) % 2 = 1
                                /\ \A y \in j .. k - 1 : s[y] = Backslash
                                /\ j = 1 \/ s[j - 1] # Backslash
    BY <1>4 DEF Escaped
  <2> DEFINE m == from + j - 1
  <2>2. m \in from .. x - 1 /\ x - m = k - j
    OBVIOUS
  <2>3. ASSUME NEW y \in m .. x - 1 PROVE At(y) = Backslash
    <3>1. y - from + 1 \in j .. k - 1 /\ y \in from .. to - 1
      OBVIOUS
    <3> QED BY <1>2, <2>1, <3>1
  <2>4. m = from \/ At(m - 1) # Backslash
    <3>1. CASE j = 1
      BY <3>1
    <3>2. CASE j # 1
      <4>1. m - 1 \in from .. to - 1 /\ (m - 1) - from + 1 = j - 1
        BY <3>2
      <4>2. s[j - 1] # Backslash
        BY <2>1, <3>2
      <4> HIDE DEF m
      <4> QED BY <1>2, <4>1, <4>2
    <3> QED BY <3>1, <3>2
  <2> HIDE DEF m, k
  <2> QED BY <2>1, <2>2, <2>3, <2>4 DEF EscapedAt, SlashesFrom
<1> QED BY <1>3, <1>4 DEF s

LEMMA SliceString ==
  ASSUME LTypeOK, NEW from \in Nat, NEW to \in Nat, from < to, to <= n
  PROVE  LET s == Slice(from, to) IN
         (Len(s) > 1 /\ \A k \in 1 .. Len(s) :
                          s[k] = DQuote /\ ~Escaped(s, k) <=> k \in {1, Len(s)})
         <=> StringAt(from, to)
<1> DEFINE s == Slice(from, to)
           len == to - from
<1>0. from <= to /\ len \in Nat
  OBVIOUS
<1>1. Len(s) = len /\ \A k \in 1 .. len : s[k] = At(from + k - 1)
  BY <1>0, Slices, Zenon
<1>2. \A x \in from .. to - 1 : Escaped(s, x - from + 1) <=> EscapedAt(from, x)
  BY SliceEscaped, Zenon
<1> HIDE DEF s
<1>3. ASSUME NEW k \in 1 .. len
      PROVE  (s[k] = DQuote /\ ~Escaped(s, k)) <=> Quotes(from, from + k - 1)
  <2>1. from + k - 1 \in from .. to - 1 /\ (from + k - 1) - from + 1 = k
    OBVIOUS
  <2> QED BY <1>1, <1>2, <2>1 DEF Quotes
<1>4. ASSUME len > 1, \A k \in 1 .. len : s[k] = DQuote /\ ~Escaped(s, k) <=> k \in {1, len}
      PROVE  StringAt(from, to)
  <2>1. ASSUME NEW x \in from .. to - 1 PROVE Quotes(from, x) <=> x \in {from, to - 1}
    <3> DEFINE k == x - from + 1
    <3>1. k \in 1 .. len /\ from + k - 1 = x /\ (k \in {1, len} <=> x \in {from, to - 1})
      OBVIOUS
    <3> HIDE DEF k, len
    <3> QED BY <1>3, <1>4, <3>1
  <2> QED BY <1>4, <2>1 DEF StringAt
<1>5. ASSUME StringAt(from, to), NEW k \in 1 .. len
      PROVE  len > 1 /\ (s[k] = DQuote /\ ~Escaped(s, k) <=> k \in {1, len})
  <2> DEFINE x == from + k - 1
  <2>1. x \in from .. to - 1 /\ (k \in {1, len} <=> x \in {from, to - 1})
    OBVIOUS
  <2>2. len > 1
    BY <1>5 DEF StringAt
  <2> HIDE DEF x
  <2>3. Quotes(from, x) <=> x \in {from, to - 1}
    BY <1>5, <2>1 DEF StringAt
  <2> HIDE DEF len
  <2> QED BY <1>3, <2>1, <2>2, <2>3 DEF x
<1>6. len \in Nat /\ len > 0
  OBVIOUS
<1> HIDE DEF len
<1>7. 1 \in 1 .. len
  BY <1>6
<1> QED BY <1>1, <1>4, <1>5, <1>7 DEF s

\* The lexeme a slice is, said of the source.
LEMMA LexemeIs ==
  ASSUME LTypeOK, NEW from \in Nat, NEW to \in Nat, from < to, to <= n
  PROVE  Lexeme(Slice(from, to)) = KindAt(from, to)
<1> DEFINE s == Slice(from, to)
<1>1. All(s, Digits) <=> AllIn(from, to, Digits)
  BY SliceAll
<1>2. (\E k \in 2 .. Len(s) - 1 : s[k] = "." /\ All(SubSeq(s, 1, k - 1), Digits)
                                  /\ All(SubSeq(s, k + 1, Len(s)), Digits))
      <=> FloatAt(from, to)
  BY SliceFloat
<1>3. All(s, Alpha \cup Digits) <=> AllIn(from, to, Alpha \cup Digits)
  BY SliceAll
<1>4. (Len(s) > 1 /\ \A k \in 1 .. Len(s) : s[k] = DQuote /\ ~Escaped(s, k) <=> k \in {1, Len(s)})
      <=> StringAt(from, to)
  BY SliceString
<1>5. Len(s) = to - from /\ s[1] = At(from)
  <2>1. from <= to /\ 1 \in 1 .. to - from /\ from + 1 - 1 = from
    OBVIOUS
  <2>2. Len(s) = to - from /\ \A k \in 1 .. to - from : s[k] = At(from + k - 1)
    BY <2>1, Slices, Zenon
  <2> HIDE DEF s
  <2>3. s[1] = At(from + 1 - 1)
    BY <2>1, <2>2, Zenon
  <2> QED BY <2>1, <2>2, <2>3
<1>6. (All(s, Alpha \cup Digits) /\ s[1] \in Alpha) <=> WordAt(from, to)
  BY <1>3, <1>5 DEF WordAt
<1>7. (s \in Doubles \/ (Len(s) = 1 /\ s[1] \in Singles)) <=> OperatorAt(from, to)
  BY <1>5 DEF OperatorAt
<1> HIDE DEF s
<1>8. Lexeme(s) =
        IF AllIn(from, to, Digits) THEN "Int" ELSE IF FloatAt(from, to) THEN "Float"
        ELSE IF WordAt(from, to) THEN WordKind(s) ELSE IF StringAt(from, to) THEN "Str"
        ELSE IF OperatorAt(from, to) THEN "Op" ELSE "none"
  BY <1>1, <1>2, <1>4, <1>6, <1>7, Zenon DEF Lexeme, WordKind
<1> QED BY <1>8 DEF KindAt, s

-----------------------------------------------------------------------------
\* A lexeme of its kind, and no longer one starts where it does.
Longest(kind, from, to) ==
  /\ kind = KindAt(from, to)
  /\ \A end \in to + 1 .. n : KindAt(from, end) = "none"

\* What a lexeme cannot be is told by its first byte.
LEMMA FirstByte ==
  ASSUME LTypeOK, NEW from \in Nat, NEW to \in Nat, from < to, to <= n
  PROVE  /\ AllIn(from, to, Digits) => At(from) \in Digits
         /\ FloatAt(from, to) => At(from) \in Digits
         /\ WordAt(from, to) => At(from) \in Alpha
         /\ StringAt(from, to) => At(from) = DQuote
         /\ OperatorAt(from, to) => At(from) \in Singles /\ to <= from + 2
<1>0. from <= to /\ from \in from .. to - 1 /\ 1 \in 1 .. to - from /\ from + 1 - 1 = from
  OBVIOUS
<1>1. FloatAt(from, to) => At(from) \in Digits
  <2> SUFFICES ASSUME NEW p \in from + 1 .. to - 2, AllIn(from, p, Digits) PROVE At(from) \in Digits
    BY DEF FloatAt
  <2>1. from \in from .. p - 1
    OBVIOUS
  <2> QED BY <2>1 DEF AllIn
<1>2. StringAt(from, to) => At(from) = DQuote
  BY <1>0 DEF StringAt, Quotes
<1>3. ASSUME Slice(from, to) \in Doubles PROVE At(from) \in Singles /\ to <= from + 2
  <2>1. /\ Len(Slice(from, to)) = to - from
        /\ \A k \in 1 .. to - from : Slice(from, to)[k] = At(from + k - 1)
    BY <1>0, Slices, Zenon
  <2>2. Slice(from, to)[1] = At(from + 1 - 1)
    BY <1>0, <2>1, Zenon
  <2>3. Len(Slice(from, to)) = 2 /\ Slice(from, to)[1] \in Singles
    BY <1>3, Operators2
  <2>4. to - from = 2
    BY <2>1, <2>3, Zenon
  <2>5. At(from) \in Singles
    BY <1>0, <2>2, <2>3
  <2> QED BY <2>4, <2>5
<1>4. OperatorAt(from, to) => At(from) \in Singles /\ to <= from + 2
  BY <1>3 DEF OperatorAt
<1> QED BY <1>0, <1>1, <1>2, <1>4 DEF AllIn, WordAt

\* Digits with no digit and no fraction behind them are an Int.
LEMMA IntLongest ==
  ASSUME LTypeOK, NEW from \in Nat, NEW to \in Nat, from < to, to <= n, AllIn(from, to, Digits),
         to < n => At(to) \notin Digits,
         ~(to + 1 < n /\ At(to) = "." /\ At(to + 1) \in Digits)
  PROVE  Longest("Int", from, to)
<1>1. n \in Nat
  BY TextLen
<1>2. At(from) \in Digits
  BY FirstByte
<1>3. ASSUME NEW end \in to + 1 .. n PROVE KindAt(from, end) = "none"
  <2>1. end \in Nat /\ from < end /\ end <= n /\ to < n
    BY <1>1
  <2>2. ~AllIn(from, end, Digits)
    BY <1>1, <2>1 DEF AllIn
  <2>3. ~FloatAt(from, end)
    <3> SUFFICES ASSUME NEW p \in from + 1 .. end - 2, At(p) = ".", AllIn(from, p, Digits),
                        AllIn(p + 1, end, Digits)
                 PROVE  FALSE
      BY DEF FloatAt
    <3>1. CASE p < to
      <4>1. p \in from .. to - 1
        BY <3>1
      <4> QED BY <4>1, CharsApart DEF AllIn
    <3>2. CASE p = to
      <4>1. p + 1 \in p + 1 .. end - 1 /\ to + 1 < n
        BY <1>1, <3>2
      <4> QED BY <3>2, <4>1 DEF AllIn
    <3>3. CASE p > to
      <4>1. to \in from .. p - 1
        BY <3>3
      <4> QED BY <2>1, <4>1 DEF AllIn
    <3> QED BY <3>1, <3>2, <3>3
  <2>4. At(from) \notin Alpha /\ At(from) # DQuote /\ At(from) \notin Singles
    BY <1>2, CharsApart
  <2>5. ~WordAt(from, end) /\ ~StringAt(from, end) /\ ~OperatorAt(from, end)
    BY <2>1, <2>4, FirstByte
  <2> QED BY <2>2, <2>3, <2>5 DEF KindAt
<1> QED BY <1>3 DEF Longest, KindAt

\* Digits, a point and digits, with no digit behind them, are a Float.
LEMMA FloatLongest ==
  ASSUME LTypeOK, NEW from \in Nat, NEW to \in Nat, from < to, to <= n, FloatAt(from, to),
         to < n => At(to) \notin Digits
  PROVE  Longest("Float", from, to)
<1>1. n \in Nat
  BY TextLen
<1>2. At(from) \in Digits
  BY FirstByte
<1>3. PICK p \in from + 1 .. to - 2 : At(p) = "." /\ AllIn(from, p, Digits)
  BY DEF FloatAt
<1>4. \A end \in to .. n : ~AllIn(from, end, Digits)
  <2> SUFFICES ASSUME NEW end \in to .. n, AllIn(from, end, Digits) PROVE FALSE
    OBVIOUS
  <2>1. p \in from .. end - 1
    BY <1>1
  <2> QED BY <1>3, <2>1, CharsApart DEF AllIn
<1>5. ASSUME NEW end \in to + 1 .. n PROVE KindAt(from, end) = "none"
  <2>1. end \in Nat /\ from < end /\ end <= n /\ to < n /\ end \in to .. n
    BY <1>1
  <2>3. ~FloatAt(from, end)
    <3> SUFFICES ASSUME NEW q \in from + 1 .. end - 2, At(q) = ".", AllIn(from, q, Digits),
                        AllIn(q + 1, end, Digits)
                 PROVE  FALSE
      BY DEF FloatAt
    <3>1. CASE q < p
      <4>1. q \in from .. p - 1
        BY <3>1
      <4> QED BY <1>3, <4>1, CharsApart DEF AllIn
    <3>2. CASE q = p
      <4>1. to \in q + 1 .. end - 1
        BY <1>1, <3>2
      <4> QED BY <2>1, <4>1 DEF AllIn
    <3>3. CASE q > p
      <4>1. p \in from .. q - 1
        BY <3>3
      <4> QED BY <1>3, <4>1, CharsApart DEF AllIn
    <3> QED BY <3>1, <3>2, <3>3
  <2>4. At(from) \notin Alpha /\ At(from) # DQuote /\ At(from) \notin Singles
    BY <1>2, CharsApart
  <2>5. ~WordAt(from, end) /\ ~StringAt(from, end) /\ ~OperatorAt(from, end)
    BY <2>1, <2>4, FirstByte
  <2> QED BY <1>4, <2>1, <2>3, <2>5 DEF KindAt
<1>6. to \in to .. n
  BY <1>1
<1> QED BY <1>4, <1>5, <1>6 DEF Longest, KindAt

\* A letter and the letters and digits that follow, none left, are a word.
LEMMA WordLongest ==
  ASSUME LTypeOK, NEW from \in Nat, NEW to \in Nat, from < to, to <= n, WordAt(from, to),
         to < n => At(to) \notin Alpha \cup Digits
  PROVE  Longest(WordKind(Slice(from, to)), from, to)
<1>1. n \in Nat
  BY TextLen
<1>2. At(from) \in Alpha
  BY FirstByte
<1>3. At(from) \notin Digits /\ At(from) # DQuote /\ At(from) \notin Singles
  BY <1>2, CharsApart
<1>4. ASSUME NEW end \in to + 1 .. n PROVE KindAt(from, end) = "none"
  <2>1. end \in Nat /\ from < end /\ end <= n /\ to < n /\ to \in from .. end - 1
    BY <1>1
  <2>2. ~WordAt(from, end)
    BY <2>1 DEF WordAt, AllIn
  <2>3. /\ ~AllIn(from, end, Digits) /\ ~FloatAt(from, end) /\ ~StringAt(from, end)
        /\ ~OperatorAt(from, end)
    BY <1>3, <2>1, FirstByte
  <2> QED BY <2>2, <2>3 DEF KindAt
<1>5. ~AllIn(from, to, Digits) /\ ~FloatAt(from, to)
  BY <1>3, FirstByte
<1> QED BY <1>4, <1>5 DEF Longest, KindAt

\* What ends at the first quote that is not escaped is a string.
LEMMA StringLongest ==
  ASSUME LTypeOK, NEW from \in Nat, NEW to \in Nat, from < to, to <= n, StringAt(from, to)
  PROVE  Longest("Str", from, to)
<1>1. n \in Nat
  BY TextLen
<1>2. At(from) = DQuote
  BY FirstByte
<1>3. At(from) \notin Digits /\ At(from) \notin Alpha /\ At(from) \notin Singles
  BY <1>2, CharsApart
<1>4. Quotes(from, to - 1) /\ from + 1 < to
  <2>1. to - 1 \in from .. to - 1
    OBVIOUS
  <2> QED BY <2>1 DEF StringAt
<1>5. ASSUME NEW end \in to + 1 .. n PROVE KindAt(from, end) = "none"
  <2>1. end \in Nat /\ from < end /\ end <= n
    BY <1>1
  <2>2. ~StringAt(from, end)
    <3>1. to - 1 \in from .. end - 1 /\ to - 1 \notin {from, end - 1}
      BY <1>4
    <3> QED BY <1>4, <3>1 DEF StringAt
  <2>3. /\ ~AllIn(from, end, Digits) /\ ~FloatAt(from, end) /\ ~WordAt(from, end)
        /\ ~OperatorAt(from, end)
    BY <1>3, <2>1, FirstByte
  <2> QED BY <2>2, <2>3 DEF KindAt
<1>6. ~AllIn(from, to, Digits) /\ ~FloatAt(from, to) /\ ~WordAt(from, to)
  BY <1>3, FirstByte
<1> QED BY <1>5, <1>6 DEF Longest, KindAt

\* The operator of OpLen bytes is the longest one.
LEMMA OperatorLongest ==
  ASSUME LTypeOK, i < n, At(i) \in Singles
  PROVE  Longest("Op", i, i + OpLen)
<1>1. n \in Nat /\ i \in Nat
  BY TextLen DEF LTypeOK
<1>2. OpLen \in 1 .. 2 /\ i + OpLen <= n
  BY OperatorBytes
<1>3. At(i) \notin Digits /\ At(i) \notin Alpha /\ At(i) # DQuote
  BY CharsApart
<1>4. \A end \in Nat : i < end /\ end <= n =>
        KindAt(i, end) = IF OperatorAt(i, end) THEN "Op" ELSE "none"
  <2> SUFFICES ASSUME NEW end \in Nat, i < end, end <= n
               PROVE  KindAt(i, end) = IF OperatorAt(i, end) THEN "Op" ELSE "none"
    OBVIOUS
  <2>1. /\ ~AllIn(i, end, Digits) /\ ~FloatAt(i, end) /\ ~WordAt(i, end) /\ ~StringAt(i, end)
    BY <1>1, <1>3, FirstByte
  <2> QED BY <2>1 DEF KindAt
<1>5. OperatorAt(i, i + OpLen)
  BY <1>1 DEF OperatorAt, OpLen
<1>6. ASSUME NEW end \in i + OpLen + 1 .. n PROVE ~OperatorAt(i, end)
  <2>1. end \in Nat /\ i < end /\ end <= n /\ end # i + 1
    BY <1>1, <1>2
  <2>2. OperatorAt(i, end) => end = i + 2
    BY <1>1, <2>1, FirstByte
  <2>3. CASE end = i + 2
    <3>1. OpLen # 2 /\ i + 1 < n
      BY <1>1, <1>2, <2>3
    <3>2. Slice(i, i + 2) \notin Doubles
      BY <3>1 DEF OpLen
    <3> QED BY <2>1, <2>3, <3>2 DEF OperatorAt
  <2> QED BY <2>2, <2>3
<1> HIDE DEF OpLen
<1>7. i + OpLen \in Nat /\ i < i + OpLen /\ \A end \in i + OpLen + 1 .. n : end \in Nat /\ i < end /\ end <= n
  BY <1>1, <1>2
<1> QED BY <1>2, <1>4, <1>5, <1>6, <1>7 DEF Longest

-----------------------------------------------------------------------------
(***************************************************************************)
(* What each loop has read so far; in a string the backslashes before i    *)
(* are even in number, for an odd one would have taken the next byte along.*)
(***************************************************************************)
PointAt(p, from, to) ==
  /\ p \in from + 1 .. to - 1
  /\ At(p) = "." /\ AllIn(from, p, Digits) /\ \A x \in p + 1 .. to - 1 : At(x) \in Digits
  /\ p + 1 < n /\ At(p + 1) \in Digits

FractionSoFar == \E p \in Nat : PointAt(p, start, i)

EvenSlashes(from, x) == \E m \in from .. x : SlashesFrom(from, m, x) /\ (x - m) % 2 = 0

StringSoFar ==
  /\ At(start) = DQuote /\ \A x \in start + 1 .. i - 1 : ~Quotes(start, x)
  /\ i < n => EvenSlashes(start, i)

LongInv ==
  /\ \A k \in 1 .. Len(tokens) : tokens[k].kind # "Eof" =>
       Longest(tokens[k].kind, tokens[k].start, TokenEnd(tokens[k]))
  /\ mode = "int" => AllIn(start, i, Digits)
  /\ mode = "fraction" => FractionSoFar
  /\ mode = "word" => WordAt(start, i)
  /\ mode = "string" => StringSoFar

\* Behind an even number of backslashes nothing is escaped, and one more escapes.
LEMMA Parity ==
  ASSUME NEW from \in Nat, NEW x \in Nat, from <= x, EvenSlashes(from, x)
  PROVE  /\ ~EscapedAt(from, x)
         /\ At(x) = Backslash => EscapedAt(from, x + 1)
         /\ At(x) = Backslash /\ At(x + 1) = Backslash => EvenSlashes(from, x + 2)
<1>1. PICK m \in from .. x : SlashesFrom(from, m, x) /\ (x - m) % 2 = 0
  BY DEF EvenSlashes
<1>2. ASSUME NEW j \in from .. x - 1, (x - j) % 2 = 1, SlashesFrom(from, j, x) PROVE FALSE
  <2>1. CASE j < m
    <3>1. m - 1 \in j .. x - 1 /\ m # from
      BY <2>1
    <3> QED BY <1>1, <1>2, <3>1 DEF SlashesFrom
  <2>2. CASE j > m
    <3>1. j - 1 \in m .. x - 1 /\ j # from
      BY <2>2
    <3> QED BY <1>1, <1>2, <3>1 DEF SlashesFrom
  <2>3. CASE j = m
    BY <1>1, <1>2, <2>3
  <2> QED BY <2>1, <2>2, <2>3
<1>3. ASSUME At(x) = Backslash PROVE EscapedAt(from, x + 1)
  <2>1. \A y \in m .. x + 1 - 1 : y \in m .. x - 1 \/ y = x
    OBVIOUS
  <2>2. SlashesFrom(from, m, x + 1)
    BY <1>1, <1>3, <2>1 DEF SlashesFrom
  <2>3. (x + 1 - m) % 2 = 1 /\ m \in from .. x + 1 - 1
    BY <1>1
  <2> QED BY <2>2, <2>3 DEF EscapedAt
<1>4. ASSUME At(x) = Backslash, At(x + 1) = Backslash PROVE EvenSlashes(from, x + 2)
  <2>1. \A y \in m .. x + 2 - 1 : y \in m .. x - 1 \/ y = x \/ y = x + 1
    OBVIOUS
  <2>2. SlashesFrom(from, m, x + 2)
    BY <1>1, <1>4, <2>1 DEF SlashesFrom
  <2>3. (x + 2 - m) % 2 = 0 /\ m \in from .. x + 2
    BY <1>1
  <2> QED BY <2>2, <2>3 DEF EvenSlashes
<1> QED BY <1>2, <1>3, <1>4 DEF EscapedAt

\* Right behind a byte that is no backslash there are none.
LEMMA NoSlashes ==
  ASSUME NEW from \in Nat, NEW x \in Nat, from <= x, At(x) # Backslash
  PROVE  EvenSlashes(from, x + 1)
<1>1. SlashesFrom(from, x + 1, x + 1)
  BY DEF SlashesFrom
<1>2. (x + 1 - (x + 1)) % 2 = 0 /\ x + 1 \in from .. x + 1
  OBVIOUS
<1> QED BY <1>1, <1>2 DEF EvenSlashes

\* A step that pushes nothing.
LEMMA LongQuiet ==
  ASSUME LInv, LongInv, UNCHANGED <<source, tokens>>,
         mode' = "int" => AllIn(start, i, Digits)',
         mode' = "fraction" => FractionSoFar',
         mode' = "word" => WordAt(start, i)',
         mode' = "string" => StringSoFar'
  PROVE  LongInv'
<1>1. \A kind, from, to : Longest(kind, from, to)' = Longest(kind, from, to)
  BY DEF Longest, KindAt, AllIn, FloatAt, WordAt, WordKind, Slice, StringAt, Quotes, EscapedAt,
         SlashesFrom, OperatorAt, At, n
<1>2. (\A k \in 1 .. Len(tokens) : tokens[k].kind # "Eof" =>
         Longest(tokens[k].kind, tokens[k].start, TokenEnd(tokens[k])))'
  BY <1>1 DEF LongInv, TokenEnd
<1> QED BY <1>2 DEF LongInv

LEMMA LongPushes ==
  ASSUME LInv, LongInv, NEW kind \in TokenKinds, NEW from \in Nat, NEW to \in Nat,
         from <= to, to <= n, push(kind, from, to), UNCHANGED source, mode' = "top",
         kind # "Eof" => Longest(kind, from, to)
  PROVE  LongInv'
<1> DEFINE m == Len(tokens)
           t == [kind |-> kind, start |-> from, len |-> to - from,
                 line |-> line, col |-> col_of(from)]
<1>1. /\ m \in Nat /\ Len(tokens') = m + 1 /\ tokens'[m + 1] = t /\ TokenEnd(t) = to
      /\ \A k \in 1 .. m : tokens'[k] = tokens[k]
  BY Pushed
<1>2. t.kind = kind /\ t.start = from
  OBVIOUS
<1> HIDE DEF m, t
<1>3. \A any, a, b : Longest(any, a, b)' = Longest(any, a, b)
  BY DEF Longest, KindAt, AllIn, FloatAt, WordAt, WordKind, Slice, StringAt, Quotes, EscapedAt,
         SlashesFrom, OperatorAt, At, n
<1>4. ASSUME NEW k \in 1 .. m + 1, tokens'[k].kind # "Eof"
      PROVE  Longest(tokens'[k].kind, tokens'[k].start, TokenEnd(tokens'[k]))
  <2>1. CASE k \in 1 .. m
    <3>1. tokens'[k] = tokens[k]
      BY <1>1, <2>1
    <3>2. tokens[k].kind # "Eof" => Longest(tokens[k].kind, tokens[k].start, TokenEnd(tokens[k]))
      BY <2>1 DEF LongInv, m
    <3>3. Longest(tokens[k].kind, tokens[k].start, TokenEnd(tokens[k]))
      BY <1>4, <3>1, <3>2
    <3> QED BY <3>1, <3>3
  <2>2. CASE k = m + 1
    <3>1. tokens'[k] = t
      BY <1>1, <2>2
    <3>2. Longest(kind, from, to)
      BY <1>2, <1>4, <3>1
    <3>3. Longest(t.kind, t.start, TokenEnd(t))
      BY <1>1, <1>2, <3>2
    <3> QED BY <3>1, <3>3
  <2> QED BY <1>1, <2>1, <2>2
<1>5. (\A k \in 1 .. Len(tokens) : tokens[k].kind # "Eof" =>
         Longest(tokens[k].kind, tokens[k].start, TokenEnd(tokens[k])))'
  BY <1>1, <1>3, <1>4 DEF TokenEnd
<1> QED BY <1>5 DEF LongInv

LEMMA LongStep == LInv /\ LongInv /\ [LNext]_lvars => LongInv'
<1> SUFFICES ASSUME LInv, LongInv, [LNext]_lvars PROVE LongInv'
  OBVIOUS
<1>o. /\ n \in Nat /\ i \in Nat /\ i <= n /\ start \in Nat /\ start <= i
      /\ mode # "top" => start < i
      /\ {"Int", "Float", "Ident", "Keyword", "Str", "Op", "Eof"} = TokenKinds
      /\ LTypeOK
  BY Offsets DEF LInv
<1>1. CASE Blank \/ NewLine
  <2>1. mode' = "top" /\ UNCHANGED <<source, tokens>>
    BY <1>1 DEF Blank, NewLine, Lexing, SameLine, Going
  <2> QED BY <2>1, LongQuiet
<1>2. CASE Comment
  BY <1>2, LongQuiet DEF Comment, Enter, Going
<1>3. CASE InComment
  <2>1. mode' \in {"top", "comment"} /\ UNCHANGED <<source, tokens>>
    BY <1>3 DEF InComment, Lexing, Leave, Going
  <2> QED BY <2>1, LongQuiet
<1>4. CASE Number
  <2>1. /\ i < n /\ At(i) \in Digits /\ mode' = "int" /\ start' = i /\ i' = i + 1
        /\ UNCHANGED <<source, tokens>>
    BY <1>4 DEF Number, In, Enter, Going
  <2>2. AllIn(start, i, Digits)'
    BY <1>o, <2>1 DEF AllIn, At
  <2> QED BY <2>1, <2>2, LongQuiet
<1>5. CASE InInt
  <2>1. mode = "int" /\ UNCHANGED source /\ AllIn(start, i, Digits) /\ start < i
    BY <1>5, <1>o DEF InInt, Lexing, LongInv
  <2>2. CASE In(Digits) /\ i' = i + 1 /\ UNCHANGED <<mode, start, tokens>>
    <3>1. AllIn(start, i, Digits)'
      BY <1>o, <2>1, <2>2 DEF AllIn, At, In
    <3> QED BY <2>1, <2>2, <3>1, LongQuiet
  <2>3. CASE Point /\ i' = i + 1 /\ mode' = "fraction" /\ UNCHANGED <<start, tokens>>
    <3>1. PointAt(i, start, i + 1)
      BY <1>o, <2>1, <2>3 DEF Point, In, next_is, PointAt
    <3>2. FractionSoFar'
      <4>1. \A p, from, to : PointAt(p, from, to)' = PointAt(p, from, to)
        BY <2>1 DEF PointAt, AllIn, At, n
      <4> QED BY <1>o, <2>3, <3>1, <4>1 DEF FractionSoFar
    <3> QED BY <2>1, <2>3, <3>2, LongQuiet
  <2>4. CASE ~In(Digits) /\ ~Point /\ NumberEnds("Int")
    <3>1. push("Int", start, i) /\ mode' = "top"
      BY <2>4 DEF NumberEnds, Leave
    <3>2. (i < n => At(i) \notin Digits) /\ ~(i + 1 < n /\ At(i) = "." /\ At(i + 1) \in Digits)
      BY <1>o, <2>4 DEF In, Point, next_is
    <3>3. Longest("Int", start, i)
      BY <1>o, <2>1, <3>2, IntLongest
    <3> QED BY <1>o, <2>1, <3>1, <3>3, LongPushes
  <2> QED BY <1>5, <2>2, <2>3, <2>4 DEF InInt
<1>6. CASE InFraction
  <2>1. mode = "fraction" /\ UNCHANGED source /\ FractionSoFar /\ start < i
    BY <1>6, <1>o DEF InFraction, Lexing, LongInv
  <2>2. PICK p \in Nat : PointAt(p, start, i)
    BY <2>1 DEF FractionSoFar
  <2>3. CASE In(Digits) /\ i' = i + 1 /\ UNCHANGED <<mode, start, tokens>>
    <3>1. PointAt(p, start, i + 1)
      <4>1. p \in start + 1 .. (i + 1) - 1 /\ \A x \in p + 1 .. (i + 1) - 1 : At(x) \in Digits
        BY <1>o, <2>2, <2>3 DEF In, PointAt
      <4>2. At(p) = "." /\ AllIn(start, p, Digits) /\ p + 1 < n /\ At(p + 1) \in Digits
        BY <2>2 DEF PointAt
      <4> QED BY ONLY <4>1, <4>2, Zenon DEF PointAt
    <3>2. FractionSoFar'
      <4>1. \A q, from, to : PointAt(q, from, to)' = PointAt(q, from, to)
        BY <2>1 DEF PointAt, AllIn, At, n
      <4> QED BY <2>3, <3>1, <4>1 DEF FractionSoFar
    <3> QED BY <2>1, <2>3, <3>2, LongQuiet
  <2>4. CASE ~In(Digits) /\ NumberEnds("Float")
    <3>1. push("Float", start, i) /\ mode' = "top"
      BY <2>4 DEF NumberEnds, Leave
    <3>2. i < n => At(i) \notin Digits
      BY <2>4 DEF In
    <3>3. p + 1 < i
      BY <1>o, <2>2, <3>2 DEF PointAt
    <3>4. FloatAt(start, i)
      BY <1>o, <2>2, <3>3 DEF FloatAt, AllIn, PointAt
    <3>5. Longest("Float", start, i)
      BY <1>o, <2>1, <3>2, <3>4, FloatLongest
    <3> QED BY <1>o, <2>1, <3>1, <3>5, LongPushes
  <2> QED BY <1>6, <2>3, <2>4 DEF InFraction
<1>7. CASE Identifier
  <2>1. /\ i < n /\ At(i) \in Alpha /\ mode' = "word" /\ start' = i /\ i' = i + 1
        /\ UNCHANGED <<source, tokens>>
    BY <1>7 DEF Identifier, In, Enter, Going
  <2>2. WordAt(start, i)'
    BY <1>o, <2>1 DEF WordAt, AllIn, At
  <2> QED BY <2>1, <2>2, LongQuiet
<1>8. CASE InWord
  <2>1. mode = "word" /\ UNCHANGED source /\ WordAt(start, i) /\ start < i
    BY <1>8, <1>o DEF InWord, Lexing, Going, LongInv
  <2>2. CASE In(Alpha \cup Digits) /\ i' = i + 1 /\ UNCHANGED <<mode, start, tokens>>
    <3>1. WordAt(start, i)'
      BY <1>o, <2>1, <2>2 DEF WordAt, AllIn, At, In
    <3> QED BY <2>1, <2>2, <3>1, LongQuiet
  <2>3. CASE ~In(Alpha \cup Digits) /\ push(WordKind(Slice(start, i)), start, i) /\ Leave
    <3>1. i < n => At(i) \notin Alpha \cup Digits
      BY <2>3 DEF In
    <3>2. WordKind(Slice(start, i)) \in TokenKinds /\ mode' = "top"
      BY <1>o, <2>3 DEF WordKind, Leave
    <3>3. Longest(WordKind(Slice(start, i)), start, i)
      BY <1>o, <2>1, <3>1, WordLongest
    <3> QED BY <1>o, <2>1, <2>3, <3>2, <3>3, LongPushes
  <2> QED BY <1>8, <2>2, <2>3 DEF InWord
<1>9. CASE String
  <2>1. /\ i < n /\ At(i) = DQuote /\ mode' = "string" /\ start' = i /\ i' = i + 1
        /\ UNCHANGED <<source, tokens>>
    BY <1>9 DEF String, In, Enter, Going
  <2>2. EvenSlashes(i, i + 1)
    BY <1>o, <2>1, CharsApart, NoSlashes
  <2>3. StringSoFar'
    BY <1>o, <2>1, <2>2 DEF StringSoFar, EvenSlashes, SlashesFrom, At, n
  <2> QED BY <2>1, <2>3, LongQuiet
<1>10. CASE InString
  <2>1. mode = "string" /\ UNCHANGED source /\ start < i /\ At(start) = DQuote
        /\ (\A x \in start + 1 .. i - 1 : ~Quotes(start, x)) /\ (i < n => EvenSlashes(start, i))
    BY <1>10, <1>o DEF InString, Lexing, Going, LongInv, StringSoFar
\* The bytes from i to j are read: none is a quote that ends the string.
  <2>r. ASSUME NEW j \in Nat, i <= j, i' = j, UNCHANGED <<mode, start, tokens>>,
               \A x \in i .. j - 1 : ~Quotes(start, x), j < n => EvenSlashes(start, j)
        PROVE  LongInv'
    <3>1. \A x \in start + 1 .. j - 1 : ~Quotes(start, x)
      <4>1. \A x \in start + 1 .. j - 1 : x \in start + 1 .. i - 1 \/ x \in i .. j - 1
        BY <1>o, <2>r
      <4> QED BY <2>1, <2>r, <4>1
    <3>2. \A x : Quotes(start, x)' = Quotes(start, x)
      BY <2>1, <2>r DEF Quotes, EscapedAt, SlashesFrom, At
    <3>3. EvenSlashes(start, j)' = EvenSlashes(start, j) /\ n' = n /\ At(start)' = At(start)
      BY <2>1, <2>r DEF EvenSlashes, SlashesFrom, At, n
    <3>4. StringSoFar'
      BY <2>1, <2>r, <3>1, <3>2, <3>3 DEF StringSoFar
    <3> QED BY <2>1, <2>r, <3>4, LongQuiet
  <2>2. CASE Escape /\ i' = i + 2 /\ UNCHANGED <<mode, start, tokens>>
    <3>1. At(i) = Backslash /\ i + 1 < n /\ i < n
      BY <1>o, <2>2 DEF Escape, In
    <3>2. EscapedAt(start, i + 1) /\ (At(i + 1) = Backslash => EvenSlashes(start, i + 2))
      BY <1>o, <2>1, <3>1, Parity
    <3>3. EvenSlashes(start, i + 2)
      <4>1. At(i + 1) # Backslash => EvenSlashes(start, i + 1 + 1)
        BY <1>o, NoSlashes
      <4>2. i + 1 + 1 = i + 2
        BY <1>o
      <4> QED BY <3>2, <4>1, <4>2
    <3>4. \A x \in i .. i + 2 - 1 : ~Quotes(start, x)
      <4>1. \A x \in i .. i + 2 - 1 : x = i \/ x = i + 1
        BY <1>o
      <4> QED BY <3>1, <3>2, <4>1, CharsApart DEF Quotes
    <3> QED BY <1>o, <2>2, <2>r, <3>3, <3>4
  <2>3. CASE In({DQuote}) /\ push("Str", start, i + 1) /\ Leave
    <3>1. i < n /\ At(i) = DQuote /\ mode' = "top"
      BY <2>3 DEF In, Leave
    <3>2. Quotes(start, i)
      BY <1>o, <2>1, <3>1, Parity DEF Quotes
    <3>3. Quotes(start, start)
      <4>1. ~EscapedAt(start, start)
        BY <1>o DEF EscapedAt
      <4> QED BY <2>1, <4>1 DEF Quotes
    <3>4. StringAt(start, i + 1)
      <4>1. \A x \in start .. (i + 1) - 1 : x = start \/ x \in start + 1 .. i - 1 \/ x = i
        BY <1>o
      <4>2. \A x \in start + 1 .. i - 1 : x \notin {start, (i + 1) - 1}
        BY <1>o
      <4>3. (i + 1) - 1 = i /\ start + 1 < i + 1
        BY <1>o, <2>1
      <4>4. ASSUME NEW x \in start .. (i + 1) - 1 PROVE Quotes(start, x) <=> x \in {start, (i + 1) - 1}
        <5>1. CASE x = start
          BY <3>3, <5>1
        <5>2. CASE x = i
          BY <3>2, <4>3, <5>2
        <5>3. CASE x \in start + 1 .. i - 1
          BY <2>1, <4>2, <5>3
        <5> QED BY <4>1, <5>1, <5>2, <5>3
      <4>5. \A x \in start .. (i + 1) - 1 : Quotes(start, x) <=> x \in {start, (i + 1) - 1}
        BY ONLY <4>4, Zenon
      <4> QED BY ONLY <4>3, <4>5, Zenon DEF StringAt
    <3>5. i + 1 \in Nat /\ start < i + 1 /\ start <= i + 1 /\ i + 1 <= n /\ "Str" \in TokenKinds
      BY <1>o, <3>1
    <3>6. Longest("Str", start, i + 1)
      BY <1>o, <3>4, <3>5, StringLongest
    <3> QED BY <1>o, <2>1, <2>3, <3>1, <3>5, <3>6, LongPushes
  <2>4. CASE i < n /\ ~Escape /\ ~In({DQuote}) /\ i' = i + 1 /\ UNCHANGED <<mode, start, tokens>>
    <3>1. At(i) # DQuote /\ (i + 1 < n => At(i) # Backslash)
      BY <2>4 DEF In, Escape
    <3>2. \A x \in i .. (i + 1) - 1 : ~Quotes(start, x)
      BY <1>o, <3>1 DEF Quotes
    <3>3. i + 1 < n => EvenSlashes(start, i + 1)
      BY <1>o, <3>1, NoSlashes
    <3> QED BY <1>o, <2>4, <2>r, <3>2, <3>3
  <2>5. CASE UNCHANGED <<i, mode, start, tokens>>
    BY <1>o, <2>1, <2>5, <2>r
  <2>6. In({EndLine}) => i < n /\ ~Escape /\ ~In({DQuote})
    BY CharsApart DEF In, Escape
  <2> QED BY <1>10, <2>2, <2>3, <2>4, <2>5, <2>6 DEF InString, In
<1>11. CASE Operator
  <2>1. /\ push("Op", i, i + OpLen) /\ mode' = "top" /\ UNCHANGED source
        /\ i < n /\ At(i) \in Singles
    BY <1>11 DEF Operator, Lexing, In, Going
  <2>2. OpLen \in 1 .. 2 /\ i + OpLen <= n /\ Longest("Op", i, i + OpLen)
    BY <1>o, <2>1, OperatorBytes, OperatorLongest
  <2> HIDE DEF OpLen
  <2>3. i + OpLen \in Nat /\ i <= i + OpLen /\ "Op" \in TokenKinds
    BY <1>o, <2>2
  <2> QED BY <1>o, <2>1, <2>2, <2>3, LongPushes
<1>12. CASE Unexpected
  <2>1. mode' = "top" /\ UNCHANGED <<source, tokens>>
    BY <1>12 DEF Unexpected, Lexing
  <2> QED BY <2>1, LongQuiet
<1>13. CASE EndOfSource
  <2>1. push("Eof", n, n) /\ mode' = "top" /\ UNCHANGED source /\ "Eof" \in TokenKinds
    BY <1>o, <1>13 DEF EndOfSource, Lexing
  <2> QED BY <1>o, <2>1, LongPushes
<1>14. CASE LDone \/ UNCHANGED lvars
  <2>1. UNCHANGED lvars
    BY <1>14 DEF LDone
  <2>2. UNCHANGED <<source, i, mode, start, tokens>>
    BY <2>1 DEF lvars
  <2>3. AllIn(start, i, Digits)' = AllIn(start, i, Digits)
    BY <2>2 DEF AllIn, At
  <2>4. FractionSoFar' = FractionSoFar
    BY <2>2 DEF FractionSoFar, PointAt, AllIn, At, n
  <2>5. WordAt(start, i)' = WordAt(start, i)
    BY <2>2 DEF WordAt, AllIn, At
  <2>6. StringSoFar' = StringSoFar
    BY <2>2 DEF StringSoFar, EvenSlashes, Quotes, EscapedAt, SlashesFrom, At, n
  <2> QED BY <2>2, <2>3, <2>4, <2>5, <2>6, LongQuiet DEF LongInv
<1> QED
  BY <1>1, <1>2, <1>3, <1>4, <1>5, <1>6, <1>7, <1>8, <1>9, <1>10, <1>11, <1>12, <1>13, <1>14
  DEF LNext

\* A kind read off the bytes is the kind of the lexeme.
LEMMA LongestLexemes == LInv /\ LongInv => LongestMatch
<1> SUFFICES ASSUME LInv, LongInv, NEW k \in 1 .. Len(tokens), tokens[k].kind # "Eof"
             PROVE  /\ tokens[k].kind = Lexeme(Slice(tokens[k].start, TokenEnd(tokens[k])))
                    /\ \A to \in TokenEnd(tokens[k]) + 1 .. n :
                         Lexeme(Slice(tokens[k].start, to)) = "none"
  BY DEF LongestMatch
<1> DEFINE from == tokens[k].start
           end == TokenEnd(tokens[k])
<1>1. LTypeOK /\ n \in Nat
  BY TextLen DEF LInv
<1>2. tokens[k] \in [kind : TokenKinds, start : 0 .. n, len : 0 .. n, line : Nat, col : Int]
  <2> DEFINE T == [kind : TokenKinds, start : 0 .. n, len : 0 .. n, line : Nat, col : Int]
  <2>1. tokens \in Seq(T)
    BY <1>1 DEF LTypeOK
  <2> HIDE DEF T
  <2>2. tokens[k] \in T
    BY <2>1
  <2> QED BY <2>2 DEF T
<1>3. tokens[k].len # 0 /\ end <= n
  BY DEF LInv, InOrder
<1>4. from \in Nat /\ end \in Nat /\ from < end
  BY <1>1, <1>2, <1>3 DEF TokenEnd
<1>5. Longest(tokens[k].kind, from, end)
  BY DEF LongInv
<1> HIDE DEF from, end
<1>6. tokens[k].kind = Lexeme(Slice(from, end))
  BY <1>1, <1>3, <1>4, <1>5, LexemeIs DEF Longest
<1>7. ASSUME NEW to \in end + 1 .. n PROVE Lexeme(Slice(from, to)) = "none"
  <2>1. to \in Nat /\ from < to /\ to <= n
    BY <1>1, <1>4
  <2> QED BY <1>1, <1>4, <1>5, <2>1, LexemeIs DEF Longest
<1> QED BY <1>6, <1>7 DEF from, end

LEMMA InitInvs == LInit => GapInv /\ LineInv /\ LongInv
<1> SUFFICES ASSUME LInit PROVE GapInv /\ LineInv /\ LongInv
  OBVIOUS
<1>1. i = 0 /\ line = 1 /\ line_start = 0 /\ mode = "top" /\ start = 0 /\ tokens = <<>>
      /\ status = "lexing" /\ Len(tokens) = 0
  BY DEF LInit
<1>2. GapInv
  BY <1>1 DEF GapInv, Gap, LastEnd
<1>3. LongInv
  BY <1>1 DEF LongInv
<1>4. LineInv
  <2>1. Newlines(0) = {}
    BY DEF Newlines
  <2>2. TrueLine(0) = 1 /\ TrueStart(0) = 0
    BY <2>1, FS_EmptySet DEF TrueLine, TrueStart, TrueCol
  <2> QED BY <1>1, <2>2 DEF LineInv
<1> QED BY <1>2, <1>3, <1>4

\* The three, with what they rest on.
LEMMA LexesTrue == LSpec => [](LInv /\ GapInv /\ LineInv /\ LongInv)
<1>1. LInit => LInv /\ GapInv /\ LineInv /\ LongInv
  BY InitInv, InitInvs
<1>2. LInv /\ GapInv /\ LineInv /\ LongInv /\ [LNext]_lvars => (LInv /\ GapInv /\ LineInv /\ LongInv)'
  BY StepInv, GapStep, LineStep, LongStep
<1> QED BY <1>1, <1>2, PTL DEF LSpec

\* A source that lexes has nothing left out but blanks and comments: every byte
\* of it is in a token, or is one lex() skips on purpose.
THEOREM NoByteLost == LSpec => []NothingLost
<1> QED BY LexesTrue, NothingIsLost, PTL

\* The line and column push() writes are those of the token's first byte, but
\* behind an escaped newline and for a string of several lines.
THEOREM PositionsTrue == LSpec => []Located
<1> QED BY LexesTrue, TokensLocated, PTL

\* No loop of lex() stops early or runs too far: a token has the kind its text
\* has, and no longer lexeme starts where it does.
THEOREM MatchesLongest == LSpec => []LongestMatch
<1> QED BY LexesTrue, LongestLexemes, PTL
=============================================================================
