-------------------------------- MODULE Arrays ---------------------------------
(***************************************************************************)
(* The builtins on arrays (src/src/native.cc): what they make of a         *)
(* sequence of integers and nils, the integers small enough that the       *)
(* doubles some builtins compare them as are exact.  How their result gets *)
(* onto the heap is the subject of module Builtins.                        *)
(***************************************************************************)
EXTENDS Texts

CONSTANTS
  Nil,
  LenBits       \* width of a length (32 in the code)
ASSUME ArraysAssumption == LenBits \in Nat /\ LenBits < Bits

UINT32(n) == n % (2 ^ LenBits)
Numeric(a) == \A i \in DOMAIN a : a[i] # Nil
Sum(a)     == FoldLeft(LAMBDA x, y : Signed(x + y), 0, a)

slice_fn(a, start, count) == substr_fn(a, start, count)
\* Faulty: a count larger than the array is not clamped.
take_dropUnclamped(a, k, take) ==
  Value(IF take THEN substr(a, 0, IF k < 0 THEN 0 ELSE k)
        ELSE LET n == IF k < 0 THEN 0 ELSE k IN substr(a, n, n))
take_drop(a, k, take) ==
  LET n == Clamped(k, 0, Len(a)) IN Value(IF take THEN substr(a, 0, n) ELSE From(a, n))
take_last_fn(a, k) == LET n == Clamped(k, 0, Len(a)) IN Value(From(a, Len(a) - n))
drop_last_fn(a, k) == LET n == Clamped(k, 0, Len(a)) IN Value(substr(a, 0, Len(a) - n))
tail_fn(a) == IF a = <<>> THEN Error ELSE Value(From(a, 1))
init_fn(a) == IF a = <<>> THEN Error ELSE Value(substr(a, 0, Len(a) - 1))

\* In place, from both ends.
swap_fn(a, i, j) ==
  IF i \notin 0 .. Len(a) - 1 \/ j \notin 0 .. Len(a) - 1 THEN Error
  ELSE Value([a EXCEPT ![i + 1] = At(a, j), ![j + 1] = At(a, i)])
reverse_fn(a) ==
  LET r[i \in 0 .. Len(a)] ==
        IF i = 0 THEN a
        ELSE IF i <= Len(a) - i THEN swap_fn(r[i - 1], i - 1, Len(a) - i).v ELSE r[i - 1]
  IN  Value(r[Len(a)])
reverse_copy_fn(a) == Value([i \in DOMAIN a |-> At(a, Len(a) - i)])
rotate_fn(a, amount) ==
  LET shift == Remainder(Remainder(amount, Len(a)) + Len(a), Len(a)) IN
  Value(IF a = <<>> THEN a ELSE [i \in DOMAIN a |-> At(a, (i - 1 + shift) % Len(a))])
replace_at_fn(a, i, v) == IF i \notin 0 .. Len(a) - 1 THEN Error ELSE Value([a EXCEPT ![i + 1] = v])

arr_index_of_fn(a, v) ==
  LET hits == {i \in 0 .. Len(a) - 1 : At(a, i) = v} IN Value(IF hits = {} THEN -1 ELSE Min(hits))
positions_fn(a, v) == Value(SelectSeq([i \in DOMAIN a |-> i - 1], LAMBDA i : At(a, i) = v))
without_fn(a, v)   == Value(SelectSeq(a, LAMBDA e : e # v))
compact_fn(a)      == Value(SelectSeq(a, LAMBDA e : e # Nil))
unique_fn(a) ==
  LET keep == FoldLeft(LAMBDA k, i : IF \E j \in ToSet(k) : a[j] = a[i] THEN k ELSE Append(k, i),
                       <<>>, [i \in DOMAIN a |-> i])
  IN  Value([i \in DOMAIN keep |-> a[keep[i]]])
intersperse_fn(a, sep) ==
  LET n == IF Len(a) <= 1 THEN Len(a) ELSE UINT32(2 * Len(a) - 1) IN
  IF n < 2 * Len(a) - 1 THEN Crash        \* the loop would store behind the slots
  ELSE Value([i \in 1 .. n |-> IF i % 2 = 1 THEN a[(i + 1) \div 2] ELSE sep])
interleave_fn(a, b) ==
  IF Len(a) + Len(b) > UINT32(-1) THEN Error
  ELSE Value(FlattenSeq([k \in 1 .. Max({Len(a), Len(b)}) |->
          (IF k <= Len(a) THEN << a[k] >> ELSE <<>>) \o (IF k <= Len(b) THEN << b[k] >> ELSE <<>>)]))

\* std::sort of numbers: they are all the code lets through.
sorted_fn(a) == IF Numeric(a) THEN Value(SortSeq(a, <)) ELSE Error
is_sorted_fn(a) == IF Numeric(a) THEN Value(~ \E i \in 2 .. Len(a) : a[i] < a[i - 1]) ELSE Error
argsort_fn(a) ==
  IF Numeric(a)
  THEN Value(SortSeq([i \in DOMAIN a |-> i - 1],
                     LAMBDA i, j : IF At(a, i) # At(a, j) THEN At(a, i) < At(a, j) ELSE i < j))
  ELSE Error
\* The result is a double: twice the median is an integer.
median_fn(a) ==
  LET v == SortSeq(a, <)
      n == Len(a)
  IN  IF ~Numeric(a) \/ a = <<>> THEN Error
      ELSE Value(IF n % 2 = 1 THEN 2 * v[n \div 2 + 1] ELSE v[n \div 2] + v[n \div 2 + 1])
Count(a, v) == Cardinality({i \in DOMAIN a : a[i] = v})
mode_fn(a) ==
  IF ~Numeric(a) \/ a = <<>> THEN Error
  ELSE Value(FoldLeft(LAMBDA b, x : IF Count(a, x) > b[2] \/ (Count(a, x) = b[2] /\ x < b[1])
                                    THEN << x, Count(a, x) >> ELSE b,
                      << a[1], 0 >>, a)[1])
\* index_min, index_max: the first of equal ones.
index_extreme(a, want_min) ==
  IF ~Numeric(a) \/ a = <<>> THEN Error
  ELSE Value(FoldLeft(LAMBDA b, i : IF (IF want_min THEN a[i] < a[b + 1] ELSE a[i] > a[b + 1])
                                 THEN i - 1 ELSE b,
                      0, [i \in DOMAIN a |-> i]))
running_extreme(a, want_max) ==
  LET best[i \in 1 .. Len(a)] ==
        IF i = 1 THEN a[1]
        ELSE IF (IF want_max THEN a[i] > best[i - 1] ELSE a[i] < best[i - 1]) THEN a[i] ELSE best[i - 1]
  IN  IF Numeric(a) THEN Value([i \in DOMAIN a |-> best[i]]) ELSE Error

sum_fn(a)    == IF Numeric(a) THEN Value(Sum(a)) ELSE Error
cumsum_fn(a) == IF Numeric(a) THEN Value([i \in DOMAIN a |-> Sum(SubSeq(a, 1, i))]) ELSE Error
diff_fn(a)   == IF Numeric(a) THEN Value([i \in 1 .. (IF a = <<>> THEN 0 ELSE Len(a) - 1) |-> Signed(a[i + 1] - a[i])])
                ELSE Error
dot_fn(a, b) ==
  IF Len(a) # Len(b) \/ ~Numeric(a) \/ ~Numeric(b) THEN Error
  ELSE Value(Sum([i \in DOMAIN a |-> Signed(a[i] * b[i])]))

\* All lengths are of LenBits bits; size is of 64.
chunk_fn(a, size) ==
  LET usize   == UINT32(size)
      nchunks == UINT32(Len(a) + usize - 1) \div usize
  IN  IF size <= 0 THEN Error
      ELSE IF usize = 0 THEN Crash                    \* integer division by zero
      ELSE Value([c \in 1 .. nchunks |->
                     substr(a, (c - 1) * usize, Min({usize, Len(a) - (c - 1) * usize}))])

-----------------------------------------------------------------------------
(***************************************************************************)
(* Nested arrays: an element is a leaf or an array of elements.            *)
(***************************************************************************)
Leaf(n)  == [is_array |-> FALSE, n |-> n, e |-> <<>>]
Nested(e) == [is_array |-> TRUE, n |-> 0, e |-> e]

flatten_fn(a) ==
  Value(FlattenSeq([i \in DOMAIN a |-> IF a[i].is_array THEN a[i].e ELSE << a[i] >>]))
=============================================================================
