--------------------------------- MODULE Texts ---------------------------------
(***************************************************************************)
(* The builtins on strings (src/src/native.cc).  A string is a sequence of *)
(* bytes; indices count from 0, as in the code.  std::string::find, rfind  *)
(* and substr are modelled by what they return.                            *)
(***************************************************************************)
EXTENDS Numbers, SequencesExt, FiniteSetsExt

CONSTANTS
  kCap,         \* bound on the length of a repeated or padded string (2^20)
  kIndentCap    \* bound on an indentation (2^16)
ASSUME TextsAssumption == kCap \in Nat /\ kIndentCap \in Nat

npos == -1
At(s, i) == s[i + 1]
substr(s, pos, n) == SubSeq(s, pos + 1, pos + n)
From(s, pos)      == SubSeq(s, pos + 1, Len(s))
Hits(s, sub, pos) == {f \in pos .. Len(s) - Len(sub) : substr(s, f, Len(sub)) = sub}
find(s, sub, pos) == IF Hits(s, sub, pos) = {} THEN npos ELSE Min(Hits(s, sub, pos))
rfind(s, sub)     == IF Hits(s, sub, 0) = {} THEN npos ELSE Max(Hits(s, sub, 0))
Fill(n, c)        == [i \in 1 .. n |-> c]
Clamped(k, lo, hi) == IF k < lo THEN lo ELSE IF k > hi THEN hi ELSE k
Blank == {" ", "nl"}            \* of the whitespace characters

substr_fn(s, start, count) ==
  LET b == Clamped(start, 0, Len(s)) IN Value(substr(s, b, Clamped(count, 0, Len(s) - b)))
char_at_fn(s, i) == IF i < 0 \/ i >= Len(s) THEN Error ELSE Value(At(s, i))
left_fn(s, k)  == Value(substr(s, 0, Clamped(k, 0, Len(s))))
right_fn(s, k) == LET n == Clamped(k, 0, Len(s)) IN Value(substr(s, Len(s) - n, n))

index_of_fn(s, sub)      == Value(find(s, sub, 0))
last_index_of_fn(s, sub) == Value(rfind(s, sub))
index_from_fn(s, sub, start) ==
  Value(IF start > Len(s) THEN npos ELSE find(s, sub, IF start < 0 THEN 0 ELSE start))
starts_with_fn(s, p) == Value(Len(p) <= Len(s) /\ substr(s, 0, Len(p)) = p)
ends_with_fn(s, p)   == Value(Len(p) <= Len(s) /\ From(s, Len(s) - Len(p)) = p)
strip_prefix_fn(s, p) == Value(IF starts_with_fn(s, p).v THEN From(s, Len(p)) ELSE s)
strip_suffix_fn(s, p) == Value(IF ends_with_fn(s, p).v THEN substr(s, 0, Len(s) - Len(p)) ELSE s)

\* The loop of split, replace, count_sub and find_all: one item for every hit, found
\* from the end of the hit before, and one for the rest.
split_fn(s, sep) ==
  LET parts[pos \in 0 .. Len(s)] ==
        LET f == find(s, sep, pos) IN
        IF f = npos THEN << From(s, pos) >>
        ELSE << substr(s, pos, f - pos) >> \o parts[f + Len(sep)]
  IN  IF sep = <<>> THEN Error ELSE Value(parts[0])
lines_fn(s) == split_fn(s, << "nl" >>)
\* Faulty: goes on one byte after the hit.
replace_fnOverlapping(s, from, to) ==
  LET r[pos \in 0 .. Len(s)] ==
        LET f == find(s, from, pos) IN
        IF f = npos THEN From(s, pos)
        ELSE substr(s, pos, f - pos) \o to \o r[f + 1]
  IN  IF from = <<>> THEN Error ELSE Value(r[0])
replace_fn(s, from, to) ==
  LET r[pos \in 0 .. Len(s)] ==
        LET f == find(s, from, pos) IN
        IF f = npos THEN From(s, pos)
        ELSE substr(s, pos, f - pos) \o to \o r[f + Len(from)]
  IN  IF from = <<>> THEN Error ELSE Value(r[0])
count_sub_fn(s, sub) ==
  LET c[pos \in 0 .. Len(s)] ==
        LET f == find(s, sub, pos) IN IF f = npos THEN 0 ELSE 1 + c[f + Len(sub)]
  IN  IF sub = <<>> THEN Error ELSE Value(c[0])
find_all_fn(s, sub) ==
  LET hits[pos \in 0 .. Len(s)] ==
        LET f == find(s, sub, pos) IN IF f = npos THEN <<>> ELSE << f >> \o hits[f + Len(sub)]
  IN  IF sub = <<>> THEN Error ELSE Value(hits[0])
replace_first_fn(s, from, to) ==
  LET f == find(s, from, 0) IN
  IF from = <<>> THEN Error
  ELSE Value(IF f = npos THEN s ELSE substr(s, 0, f) \o to \o From(s, f + Len(from)))
partition_fn(s, sep) ==
  LET f == find(s, sep, 0) IN
  IF sep = <<>> THEN Error
  ELSE Value(IF f = npos THEN << s, <<>>, <<>> >> ELSE << substr(s, 0, f), sep, From(s, f + Len(sep)) >>)

repeat_fn(s, c) ==
  IF c < 0 \/ (s # <<>> /\ c > kCap \div Len(s)) THEN Error
  ELSE Value(FlattenSeq([i \in 1 .. c |-> s]))
pad_side(s, width, fill, left) ==
  LET padding == Fill(width - Len(s), fill) IN
  IF width > kCap THEN Error
  ELSE Value(IF width <= Len(s) THEN s ELSE IF left THEN padding \o s ELSE s \o padding)
center_fn(s, width, fill) ==
  LET pad == width - Len(s) IN
  IF width > kCap THEN Error
  ELSE Value(IF width <= Len(s) THEN s
             ELSE Fill(pad \div 2, fill) \o s \o Fill(pad - (pad \div 2), fill))
indent_fn(s, n) ==
  LET pad == Fill(IF n < 0 THEN 0 ELSE n, " ") IN
  IF n > kIndentCap THEN Error
  ELSE Value(pad \o FlattenSeq([i \in 1 .. Len(s) |->
                       IF s[i] = "nl" /\ i < Len(s) THEN << s[i] >> \o pad ELSE << s[i] >>]))

\* What is left of s without leading and trailing bytes in drop.
Stripped(s, drop) ==
  LET b[i \in 0 .. Len(s)] == IF i < Len(s) /\ At(s, i) \in drop THEN b[i + 1] ELSE i
      e[i \in b[0] .. Len(s)] == IF i > b[0] /\ At(s, i - 1) \in drop THEN e[i - 1] ELSE i
  IN  substr(s, b[0], e[Len(s)] - b[0])
trim_fn(s)               == Value(Stripped(s, Blank))
strip_chars_fn(s, chars) == Value(Stripped(s, ToSet(chars)))
squeeze_fn(s) ==
  Value(FlattenSeq([i \in 1 .. Len(s) |->
                      IF i = 1 \/ s[i] # s[IF i = 1 THEN 1 ELSE i - 1] THEN << s[i] >> ELSE <<>>]))
count_words_fn(s) ==
  LET w[i \in 0 .. Len(s), in_word \in BOOLEAN] ==
        IF i = Len(s) THEN 0
        ELSE IF At(s, i) \in Blank THEN w[i + 1, FALSE]
        ELSE w[i + 1, TRUE] + (IF in_word THEN 0 ELSE 1)
  IN  Value(w[0, FALSE])
initials_fn(s) ==
  LET r[i \in 0 .. Len(s), start \in BOOLEAN] ==
        IF i = Len(s) THEN <<>>
        ELSE IF At(s, i) \in Blank THEN r[i + 1, TRUE]
        ELSE (IF start THEN << At(s, i) >> ELSE <<>>) \o r[i + 1, FALSE]
  IN  Value(r[0, TRUE])

\* i from the front and j from the back until they meet.
is_palindrome_fn(s) ==
  LET same[i \in 0 .. Len(s), j \in 0 .. Len(s)] ==
        IF i + 1 < j THEN At(s, i) = At(s, j - 1) /\ same[i + 1, j - 1] ELSE TRUE
  IN  Value(same[0, Len(s)])
common_prefix_fn(x, y) ==
  LET n[i \in Nat] == IF i < Len(x) /\ i < Len(y) /\ At(x, i) = At(y, i) THEN n[i + 1] ELSE i
  IN  Value(substr(x, 0, n[0]))
common_suffix_fn(x, y) ==
  LET n[i \in Nat] ==
        IF i < Len(x) /\ i < Len(y) /\ At(x, Len(x) - 1 - i) = At(y, Len(y) - 1 - i) THEN n[i + 1] ELSE i
  IN  Value(From(x, Len(x) - n[0]))
hamming_fn(x, y) ==
  IF Len(x) # Len(y) THEN Error ELSE Value(Cardinality({i \in DOMAIN x : x[i] # y[i]}))

\* The rolling rows: row(i) is cur after the i-th iteration of the outer loop.
levenshtein_fn(x, y) ==
  LET Next(prev, i) ==
        LET cur[j \in 0 .. Len(y)] ==
              IF j = 0 THEN i
              ELSE Min({prev[j] + 1, cur[j - 1] + 1,
                        prev[j - 1] + (IF At(x, i - 1) = At(y, j - 1) THEN 0 ELSE 1)})
        IN  cur
      rows[i \in 0 .. Len(x)] == IF i = 0 THEN [j \in 0 .. Len(y) |-> j] ELSE Next(rows[i - 1], i)
  IN  Value(rows[Len(x)][Len(y)])
=============================================================================
