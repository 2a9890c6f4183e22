-------------------------------- MODULE Natives --------------------------------
(***************************************************************************)
(* A caller of the builtins that touch no heap: a question names the       *)
(* arguments, and the answer holds what every builtin that takes such      *)
(* arguments makes of them.  The laws below say what that should be.       *)
(***************************************************************************)
EXTENDS Arrays

CONSTANTS
  Questions,    \* records with a field "of": which builtins are asked
  RangeMax      \* most elements of a range (2^20)
VARIABLES question, answer
nvars == <<question, answer>>

Unanswered == [of |-> "nothing"]
NInit == question \in Questions /\ answer = Unanswered
q == question
Asked(kind) == answer = Unanswered /\ q.of = kind /\ UNCHANGED question

\* What std::sqrt may give before it is corrected: one more or less than the root.
IsRoot(r, x) == r * r <= x /\ x < (r + 1) * (r + 1)
Guesses(x)   == {r \in 0 .. 2 ^ (Bits \div 2) - 1 : \E d \in -1 .. 1 : IsRoot(r + d, x)}

AnswerNumber ==
  /\ Asked("number")
  /\ \E guess \in IF q.x < 0 THEN {0} ELSE Guesses(q.x) :
       answer' = [ of |-> "number",
                   isqrt |-> isqrt_fn(q.x, guess), is_square |-> is_square_fn(q.x, guess),
                   is_prime |-> is_prime_fn(q.x), bit_count |-> bit_count_fn(q.x),
                   next_pow2 |-> next_pow2_fn(q.x), digit_sum |-> digit_sum_fn(q.x),
                   reverse_int |-> reverse_int_fn(q.x), triangular |-> triangular_fn(q.x) ]
AnswerPair ==
  /\ Asked("pair")
  /\ answer' = [ of |-> "pair",
                 gcd |-> gcd_fn(q.x, q.y), lcm |-> lcm_fn(q.x, q.y),
                 mod_floor |-> mod_floor_fn(q.x, q.y), floor_div |-> floor_div_fn(q.x, q.y),
                 ceil_div |-> ceil_div_fn(q.x, q.y), divmod |-> divmod_fn(q.x, q.y),
                 ncr |-> ncr_fn(q.x, q.y), npr |-> npr_fn(q.x, q.y) ]
AnswerTriple ==
  /\ Asked("triple")
  /\ answer' = [ of |-> "triple",
                 pow_mod |-> pow_mod_fn(q.x, q.y, q.z), range |-> range_fn(q.x, q.y, q.z, RangeMax) ]
AnswerText ==
  /\ Asked("text")
  /\ answer' = [ of |-> "text",
                 substr |-> substr_fn(q.s, q.n, Len(q.p)), char_at |-> char_at_fn(q.s, q.n),
                 left |-> left_fn(q.s, q.n), right |-> right_fn(q.s, Len(q.s) - q.n),
                 index_of |-> index_of_fn(q.s, q.p), last_index_of |-> last_index_of_fn(q.s, q.p),
                 index_from |-> index_from_fn(q.s, q.p, q.n),
                 starts_with |-> starts_with_fn(q.s, q.p), ends_with |-> ends_with_fn(q.s, q.p),
                 strip_prefix |-> strip_prefix_fn(q.s, q.p), strip_suffix |-> strip_suffix_fn(q.s, q.p),
                 split |-> split_fn(q.s, q.p), lines |-> lines_fn(q.s),
                 replace |-> replace_fn(q.s, q.p, q.t), replace_first |-> replace_first_fn(q.s, q.p, q.t),
                 count_sub |-> count_sub_fn(q.s, q.p), find_all |-> find_all_fn(q.s, q.p),
                 partition |-> partition_fn(q.s, q.p), repeat |-> repeat_fn(q.s, q.n),
                 pad_left |-> pad_side(q.s, q.n, "b", TRUE), pad_right |-> pad_side(q.s, q.n, "b", FALSE),
                 center |-> center_fn(q.s, q.n, "b"), indent |-> indent_fn(q.s, q.n),
                 trim |-> trim_fn(q.s), strip_chars |-> strip_chars_fn(q.s, q.p), squeeze |-> squeeze_fn(q.s),
                 count_words |-> count_words_fn(q.s), initials |-> initials_fn(q.s),
                 is_palindrome |-> is_palindrome_fn(q.s),
                 common_prefix |-> common_prefix_fn(q.s, q.p), common_suffix |-> common_suffix_fn(q.s, q.p),
                 hamming |-> hamming_fn(q.s, q.p), levenshtein |-> levenshtein_fn(q.s, q.p) ]
AnswerArray ==
  /\ Asked("array")
  /\ answer' = [ of |-> "array",
                 slice |-> slice_fn(q.a, q.n, Len(q.b)),
                 take |-> take_drop(q.a, q.n, TRUE), drop |-> take_drop(q.a, q.n, FALSE),
                 take_last |-> take_last_fn(q.a, q.n), drop_last |-> drop_last_fn(q.a, q.n),
                 tail |-> tail_fn(q.a), init |-> init_fn(q.a), swap |-> swap_fn(q.a, q.n, 1),
                 reverse |-> reverse_fn(q.a), reverse_copy |-> reverse_copy_fn(q.a),
                 rotate |-> rotate_fn(q.a, q.n),
                 replace_at |-> replace_at_fn(q.a, q.n, q.v), index_of |-> arr_index_of_fn(q.a, q.v),
                 positions |-> positions_fn(q.a, q.v), without |-> without_fn(q.a, q.v),
                 compact |-> compact_fn(q.a),
                 unique |-> unique_fn(q.a), intersperse |-> intersperse_fn(q.a, q.v),
                 interleave |-> interleave_fn(q.a, q.b),
                 sorted |-> sorted_fn(q.a), is_sorted |-> is_sorted_fn(q.a), argsort |-> argsort_fn(q.a),
                 median |-> median_fn(q.a), mode |-> mode_fn(q.a),
                 index_min |-> index_extreme(q.a, TRUE), index_max |-> index_extreme(q.a, FALSE),
                 running_min |-> running_extreme(q.a, FALSE), running_max |-> running_extreme(q.a, TRUE),
                 sum |-> sum_fn(q.a), cumsum |-> cumsum_fn(q.a), diff |-> diff_fn(q.a),
                 dot |-> dot_fn(q.a, q.b),
                 chunk |-> chunk_fn(q.a, q.n) ]

NNext == AnswerNumber \/ AnswerPair \/ AnswerTriple \/ AnswerText \/ AnswerArray
NSpec == NInit /\ [][NNext]_nvars

-----------------------------------------------------------------------------
(***************************************************************************)
(* What the builtins on integers should answer: the mathematical result    *)
(* where it is an integer of the machine, and otherwise an error.          *)
(***************************************************************************)
Answered(kind) == answer.of = kind
\* The answer r is v, if the machine has v; else an error.
Exactly(r, v) == r = IF v \in Int64 THEN Value(v) ELSE Error
\* For positive and for negative y: the greatest integer not above x / y, the least not below.
FloorOf(x, y)   ==
  CHOOSE d \in -2 ^ Bits .. 2 ^ Bits :
    IF y > 0 THEN y * d <= x /\ x < y * (d + 1) ELSE y * d >= x /\ x > y * (d + 1)
CeilingOf(x, y) == - FloorOf(- x, y)
Divisors(x)     == {d \in 1 .. 2 ^ Bits : x % d = 0}
Power(x, n)     == FoldLeft(LAMBDA r, i : r * x, 1, [i \in 1 .. n |-> i])
Digits(n) ==
  LET d[u \in 0 .. UINT64_MAX] == IF u = 0 THEN <<>> ELSE << u % 10 >> \o d[u \div 10] IN d[n]
Weighted(ds)    == FoldLeft(LAMBDA r, d : 10 * r + d, 0, ds)
Subsets(n, k)   == Cardinality(kSubset(k, 1 .. n))
Orders(k)       == FoldLeft(LAMBDA r, i : r * i, 1, [i \in 1 .. k |-> i])

NumberLaws ==
  /\ answer.isqrt = IF q.x < 0 THEN Error ELSE Value(CHOOSE r \in 0 .. q.x : IsRoot(r, q.x))
  /\ answer.is_square = Value(\E r \in 0 .. Abs(q.x) : r * r = q.x)
  /\ answer.is_prime = Value(q.x >= 2 /\ Divisors(q.x) = {1, q.x})
  /\ answer.bit_count = Value(Cardinality({b \in 0 .. Bits - 1 : (Unsigned(q.x) \div 2 ^ b) % 2 = 1}))
  /\ answer.next_pow2 = LET above == {b \in 0 .. Bits - 2 : 2 ^ b >= q.x}
                        IN  IF q.x < 1 \/ above = {} THEN Error ELSE Value(2 ^ Min(above))
  /\ answer.digit_sum = Value(FoldLeft(+, 0, Digits(Abs(q.x))))
  /\ LET back == Weighted(Digits(Abs(q.x)))
     IN  answer.reverse_int = IF back > kI64Max THEN Error ELSE Value(IF q.x < 0 THEN - back ELSE back)
  /\ LET total == FoldLeft(+, 0, [i \in 1 .. q.x |-> i])
     IN  IF q.x < 0 THEN answer.triangular = Error ELSE Exactly(answer.triangular, total)

\* ncr gives up where a product on the way to the result leaves the machine's range.
PairLaws ==
  LET common == Divisors(Abs(q.x)) \cap Divisors(Abs(q.y))
      lcm    == CHOOSE m \in 1 .. Abs(q.x) * Abs(q.y) :
                  /\ m % Abs(q.x) = 0 /\ m % Abs(q.y) = 0
                  /\ \A k \in 1 .. m - 1 : k % Abs(q.x) # 0 \/ k % Abs(q.y) # 0
      wraps  == q.x = kI64Min /\ q.y = -1
      failed(r) == q.y = 0 \/ wraps => r = Error
      subsets == Subsets(q.x, q.y)
  IN  /\ Exactly(answer.gcd, IF q.x = 0 /\ q.y = 0 THEN 0 ELSE Max(common))
      /\ Exactly(answer.lcm, IF q.x = 0 \/ q.y = 0 THEN 0 ELSE lcm)
      /\ failed(answer.floor_div) /\ failed(answer.ceil_div) /\ failed(answer.divmod)
      /\ q.y = 0 => answer.mod_floor = Error
      /\ q.y # 0 => answer.mod_floor = Value(q.x - q.y * FloorOf(q.x, q.y))
      /\ q.y # 0 /\ ~wraps =>
           /\ answer.floor_div = Value(FloorOf(q.x, q.y))
           /\ answer.ceil_div = Value(CeilingOf(q.x, q.y))
           /\ LET d == answer.divmod.v
              IN  d[1] * q.y + d[2] = q.x /\ Abs(d[2]) < Abs(q.y) /\ Abs(d[1] * q.y) <= Abs(q.x)
      /\ q.x < 0 \/ q.y < 0 => answer.ncr = Error /\ answer.npr = Error
      /\ q.x \in 0 .. 9 /\ q.y >= 0 =>
           /\ Exactly(answer.npr, IF q.y > q.x THEN 0 ELSE subsets * Orders(q.y))
           /\ answer.ncr = IF q.y <= q.x /\ Min({q.y, q.x - q.y}) * subsets > kI64Max THEN Error
                           ELSE Value(subsets)

\* A range whose span and step together exceed the machine's range is left out: its
\* count wraps (native.cc:1042).
TripleLaws ==
  LET below(i) == IF q.z > 0 THEN q.x + i * q.z < q.y ELSE q.x + i * q.z > q.y
      all      == {i \in 0 .. 2 ^ Bits : below(i)}
      fits     == Abs(q.y - q.x) + Abs(q.z) - 1 <= UINT64_MAX
  IN  /\ q.y < 0 \/ q.z \notin 1 .. MaxModulus => answer.pow_mod = Error
      /\ q.y \in 0 .. 5 /\ q.z \in 1 .. MaxModulus =>
           /\ answer.pow_mod.v \in 0 .. q.z - 1
           /\ (Power(q.x, q.y) - answer.pow_mod.v) % q.z = 0
      /\ q.z = 0 => answer.range = Error
      /\ q.z # 0 /\ fits =>
           answer.range = IF Cardinality(all) > RangeMax THEN Error
                          ELSE Value([i \in 1 .. Cardinality(all) |-> q.x + (i - 1) * q.z])

\* A builtin on integers answers with the mathematical result or fails where the result,
\* or a product on the way to it, is too large; it never answers with a wrapped number.
IntegersExact ==
  /\ Answered("number") => NumberLaws
  /\ Answered("pair")   => PairLaws
  /\ Answered("triple") => TripleLaws

-----------------------------------------------------------------------------
(***************************************************************************)
(* How the builtins on strings fit together.                               *)
(***************************************************************************)
Join(parts, sep) ==
  FlattenSeq([i \in DOMAIN parts |-> IF i = 1 THEN parts[i] ELSE sep \o parts[i]])
Occurs(s, sub) == Hits(s, sub, 0)
Within(n, s)   == Clamped(n, 0, Len(s))
FromFront(n, s) == << substr(s, 0, n), From(s, n) >>

\* What split, replace, count_sub, find_all and partition make of one pattern.
PatternLaws ==
  LET parts == answer.split.v
      hits  == answer.find_all.v
  IN  IF q.p = <<>>
      THEN \A r \in {"split", "replace", "count_sub", "find_all", "replace_first", "partition"} :
             answer[r] = Error
      ELSE /\ Join(parts, q.p) = q.s
           /\ \A i \in 1 .. Len(parts) - 1 : Min(Occurs(parts[i] \o q.p, q.p)) = Len(parts[i])
           /\ Occurs(Last(parts), q.p) = {}
           /\ answer.replace.v = Join(parts, q.t)
           /\ answer.count_sub.v = Len(parts) - 1
           /\ Len(hits) = Len(parts) - 1 /\ ToSet(hits) \subseteq Occurs(q.s, q.p)
           /\ \A f \in Occurs(q.s, q.p) \ ToSet(hits) : \E g \in ToSet(hits) : g < f /\ f < g + Len(q.p)
           /\ \A i \in 2 .. Len(hits) : hits[i] >= hits[i - 1] + Len(q.p)
           /\ LET pieces == answer.partition.v
              IN  /\ Join(pieces, <<>>) = q.s /\ pieces[1] = parts[1]
                  /\ answer.replace_first.v = IF Len(parts) = 1 THEN q.s ELSE pieces[1] \o q.t \o pieces[3]

SearchLaws ==
  LET all   == Occurs(q.s, q.p)
      later == {f \in all : f >= q.n}
  IN  /\ answer.index_of.v = IF all = {} THEN -1 ELSE Min(all)
      /\ answer.last_index_of.v = IF all = {} THEN -1 ELSE Max(all)
      /\ answer.index_from.v = IF later = {} THEN -1 ELSE Min(later)
      /\ answer.starts_with.v = IsPrefix(q.p, q.s) /\ answer.ends_with.v = IsSuffix(q.p, q.s)
      /\ q.s = (IF answer.starts_with.v THEN q.p ELSE <<>>) \o answer.strip_prefix.v
      /\ q.s = answer.strip_suffix.v \o (IF answer.ends_with.v THEN q.p ELSE <<>>)

\* Arguments out of range are clamped, or an error.
SliceLaws ==
  /\ answer.left.v \o answer.right.v = q.s
  /\ Len(answer.left.v) = Within(q.n, q.s)
  /\ answer.substr.v = SubSeq(q.s, Within(q.n, q.s) + 1, Min({Len(q.s), Within(q.n, q.s) + Len(q.p)}))
  /\ answer.char_at = IF q.n \in 0 .. Len(q.s) - 1 THEN Value(answer.right.v[1]) ELSE Error

PaddingLaws ==
  LET width == IF q.n > Len(q.s) THEN q.n ELSE Len(q.s)
      ls    == answer.lines.v
      kept  == IF Len(ls) > 1 /\ Last(ls) = <<>> THEN Len(ls) - 1 ELSE Len(ls)
      pad   == Fill(q.n, " ")
  IN  /\ answer.repeat = IF q.n < 0 \/ q.n * Len(q.s) > kCap THEN Error
                         ELSE Value(Join([i \in 1 .. q.n |-> q.s], <<>>))
      /\ q.n > kCap => answer.pad_left = Error /\ answer.pad_right = Error /\ answer.center = Error
      /\ (answer.indent = Error) = (q.n > kIndentCap)
      /\ q.n <= kIndentCap =>
           answer.indent.v = Join([i \in DOMAIN ls |-> IF i <= kept THEN pad \o ls[i] ELSE ls[i]], << "nl" >>)
      /\ q.n <= kCap =>
           /\ \A r \in {"pad_left", "pad_right", "center"} : Len(answer[r].v) = width
           /\ IsSuffix(q.s, answer.pad_left.v) /\ IsPrefix(q.s, answer.pad_right.v)
           /\ \E half \in 0 .. width : \* what an odd width leaves over goes to the right
                /\ answer.center.v = Fill(half, "b") \o q.s \o Fill(width - Len(q.s) - half, "b")
                /\ width - Len(q.s) - 2 * half \in {0, 1}

\* r is s without its longest ends over drop.
Peels(r, s, drop) ==
  /\ \E i \in 0 .. Len(s), j \in 0 .. Len(s) :
       /\ i <= j /\ r = SubSeq(s, i + 1, j)
       /\ \A k \in 1 .. Len(s) : k <= i \/ k > j => s[k] \in drop
  /\ r # <<>> => Head(r) \notin drop /\ Last(r) \notin drop
ScanLaws ==
  LET first == {i \in DOMAIN q.s : q.s[i] \notin Blank /\ (i = 1 \/ q.s[i - 1] \in Blank)}
      sq    == answer.squeeze.v
  IN  /\ Peels(answer.trim.v, q.s, Blank) /\ Peels(answer.strip_chars.v, q.s, ToSet(q.p))
      /\ answer.count_words.v = Cardinality(first) /\ Len(answer.initials.v) = Cardinality(first)
      /\ answer.initials.v = [i \in 1 .. Cardinality(first) |-> q.s[SetToSortSeq(first, <)[i]]]
      /\ \A i \in 2 .. Len(sq) : sq[i] # sq[i - 1]
      /\ Len(sq) = Cardinality({i \in DOMAIN q.s : i = 1 \/ q.s[i] # q.s[i - 1]}) /\ ToSet(sq) = ToSet(q.s)
      /\ answer.is_palindrome.v = (Reverse(q.s) = q.s)

DistanceLaws ==
  LET pre  == answer.common_prefix.v
      post == answer.common_suffix.v
      edits[i \in 0 .. Len(q.s), j \in 0 .. Len(q.p)] ==  \* to make s without i bytes of p without j
        IF i = Len(q.s) THEN Len(q.p) - j
        ELSE IF j = Len(q.p) THEN Len(q.s) - i
        ELSE IF At(q.s, i) = At(q.p, j) THEN edits[i + 1, j + 1]
        ELSE 1 + Min({edits[i + 1, j], edits[i, j + 1], edits[i + 1, j + 1]})
  IN  /\ pre = LongestCommonPrefix({q.s, q.p})
      /\ Reverse(post) = LongestCommonPrefix({Reverse(q.s), Reverse(q.p)})
      /\ answer.hamming = IF Len(q.s) # Len(q.p) THEN Error
                          ELSE Value(Len(q.s) - Cardinality({i \in DOMAIN q.s : q.s[i] = q.p[i]}))
      /\ answer.levenshtein.v = edits[0, 0]

\* The builtins on strings agree with one another and with what they are called for,
\* at empty strings, empty patterns, overlapping hits and arguments out of range.
TextLaws == Answered("text") => PatternLaws /\ SearchLaws /\ SliceLaws /\ PaddingLaws /\ ScanLaws /\ DistanceLaws

-----------------------------------------------------------------------------
(***************************************************************************)
(* How the builtins on arrays fit together.                                *)
(***************************************************************************)
Times(a, v) == Cardinality({i \in DOMAIN a : a[i] = v})
SameElements(a, b) == Len(a) = Len(b) /\ \A v \in ToSet(a) : Times(a, v) = Times(b, v)
Ordered(a) == \A i \in 1 .. Len(a) - 1 : a[i] <= a[i + 1]
ValueOr(r, none) == IF r = Error THEN none ELSE r.v

MoveLaws ==
  /\ answer.take.v \o answer.drop.v = q.a /\ Len(answer.take.v) = Within(q.n, q.a)
  /\ answer.drop_last.v \o answer.take_last.v = q.a /\ Len(answer.take_last.v) = Within(q.n, q.a)
  /\ answer.slice.v = SubSeq(answer.drop.v, 1, Min({Len(q.b), Len(answer.drop.v)}))
  /\ IF q.a = <<>> THEN answer.tail = Error /\ answer.init = Error
     ELSE Append(answer.init.v, Last(q.a)) = << Head(q.a) >> \o answer.tail.v
  /\ answer.reverse.v = Reverse(q.a) /\ answer.reverse_copy = answer.reverse
  /\ \E k \in 0 .. Len(q.a) : /\ answer.rotate.v = From(q.a, k) \o substr(q.a, 0, k)
                              /\ q.a # <<>> => (q.n - k) % Len(q.a) = 0
  /\ answer.replace_at # Error =>
       \A i \in DOMAIN q.a : answer.replace_at.v[i] = IF i = q.n + 1 THEN q.v ELSE q.a[i]
  /\ (answer.replace_at = Error) = (q.n \notin 0 .. Len(q.a) - 1)
  /\ answer.swap # Error => SameElements(answer.swap.v, q.a) /\ answer.swap.v[2] = q.a[q.n + 1]

SelectLaws ==
  LET hits == answer.positions.v
  IN  /\ ToSet(hits) = {i \in 0 .. Len(q.a) - 1 : At(q.a, i) = q.v} /\ Len(hits) = Times(q.a, q.v)
      /\ answer.index_of.v = IF hits = <<>> THEN -1 ELSE Head(hits)
      /\ Len(answer.without.v) = Len(q.a) - Len(hits) /\ q.v \notin ToSet(answer.without.v)
      /\ Len(answer.compact.v) = Len(q.a) - Times(q.a, Nil) /\ Numeric(answer.compact.v)
      /\ IsInjective(answer.unique.v) /\ ToSet(answer.unique.v) = ToSet(q.a)
      /\ \A i, j \in DOMAIN answer.unique.v :         \* in the order of their first occurrence
           i < j => arr_index_of_fn(q.a, answer.unique.v[i]).v < arr_index_of_fn(q.a, answer.unique.v[j]).v
      /\ LET s == answer.intersperse.v
         IN  /\ Len(s) = IF q.a = <<>> THEN 0 ELSE 2 * Len(q.a) - 1
             /\ \A i \in DOMAIN s : s[i] = IF i % 2 = 1 THEN q.a[(i + 1) \div 2] ELSE q.v
      /\ IF Len(q.a) + Len(q.b) >= 2 ^ LenBits THEN answer.interleave = Error
         ELSE SameElements(answer.interleave.v, q.a \o q.b)
      /\ answer.interleave # Error =>
           \A i \in 1 .. Min({Len(q.a), Len(q.b)}) :
             answer.interleave.v[2 * i - 1] = q.a[i] /\ answer.interleave.v[2 * i] = q.b[i]

OrderLaws ==
  LET s == answer.sorted.v
      by(i) == At(q.a, answer.argsort.v[i])
      most == {v \in ToSet(q.a) : \A w \in ToSet(q.a) : Times(q.a, w) <= Times(q.a, v)}
  IN  /\ ~Numeric(q.a) =>
           \A r \in {"sorted", "is_sorted", "argsort", "median", "mode", "index_min", "index_max"} :
             answer[r] = Error
      /\ Numeric(q.a) =>
           /\ Ordered(s) /\ SameElements(s, q.a) /\ answer.is_sorted.v = (q.a = s)
           /\ \A i \in DOMAIN s : by(i) = s[i]
           /\ \A i \in 2 .. Len(s) : by(i) = by(i - 1) => answer.argsort.v[i] > answer.argsort.v[i - 1]
      /\ Numeric(q.a) /\ q.a # <<>> =>
           /\ answer.index_min.v = arr_index_of_fn(q.a, Head(s)).v
           /\ answer.index_max.v = arr_index_of_fn(q.a, Last(s)).v
           /\ Last(answer.running_max.v) = Last(s) /\ Last(answer.running_min.v) = Head(s)
           /\ Ordered(answer.running_max.v) /\ Ordered(Reverse(answer.running_min.v))
           /\ answer.median.v = s[(Len(s) + 1) \div 2] + s[(Len(s) + 2) \div 2]
           /\ answer.mode.v = Min(most)

SumLaws ==
  LET sums == answer.cumsum.v
  IN  Numeric(q.a) =>
        /\ Len(sums) = Len(q.a)
        /\ q.a # <<>> => answer.sum.v = Last(sums) /\ Head(sums) = Head(q.a)
        /\ diff_fn(sums) = IF q.a = <<>> THEN Value(<<>>) ELSE answer.tail   \* sums wrap, and so do differences
        /\ Len(answer.diff.v) = Len(ValueOr(answer.tail, <<>>))
        /\ Len(q.a) = Len(q.b) /\ Numeric(q.b) =>
             (answer.dot.v - FoldLeft(+, 0, [i \in DOMAIN q.a |-> q.a[i] * q.b[i]])) % 2 ^ Bits = 0

\* Sizes that, with the array's length, exceed a length's range are left out: the code
\* cuts them to 32 bits (native.cc:1525), and divides by zero if nothing is left.
ChunkLaws ==
  LET chunks == answer.chunk.v
  IN  /\ q.n <= 0 => answer.chunk = Error
      /\ q.n \in 1 .. 2 ^ LenBits - 1 /\ Len(q.a) + q.n <= 2 ^ LenBits =>
           /\ \A i \in DOMAIN chunks : Len(chunks[i]) = q.n \/ (i = Len(chunks) /\ Len(chunks[i]) \in 1 .. q.n)
           /\ flatten_fn([i \in DOMAIN chunks |-> Nested([j \in DOMAIN chunks[i] |-> Leaf(chunks[i][j])])]).v
                = [i \in DOMAIN q.a |-> Leaf(q.a[i])]

\* The builtins on arrays lose, duplicate and reorder nothing they should not, whatever
\* index, count or amount they are given.
ArrayLaws == Answered("array") => MoveLaws /\ SelectLaws /\ OrderLaws /\ SumLaws /\ ChunkLaws
=============================================================================
