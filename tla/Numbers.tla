-------------------------------- MODULE Numbers --------------------------------
(***************************************************************************)
(* The builtins on integers (src/src/native.cc), over integers of Bits     *)
(* bits that wrap where the code's unsigned arithmetic wraps.  A builtin   *)
(* answers with a value, with an error the interpreter reports, or not at  *)
(* all (the process dies of undefined behaviour).                          *)
(***************************************************************************)
EXTENDS Integers, Sequences

CONSTANT Bits       \* width of an integer (64 in the code)
ASSUME NumbersAssumption == Bits \in Nat \ {0, 1}

Value(v) == [is |-> "value", v |-> v]
Error    == [is |-> "error"]
Crash    == [is |-> "crash"]

UINT64_MAX == 2 ^ Bits - 1
kI64Max    == 2 ^ (Bits - 1) - 1
kI64Min    == - kI64Max - 1
Int64      == kI64Min .. kI64Max

\* static_cast<uint64_t> and back.
Unsigned(i) == i % (2 ^ Bits)
Signed(u)   == LET r == Unsigned(u) IN IF r > kI64Max THEN r - 2 ^ Bits ELSE r

\* C++ division rounds towards zero; the remainder has the dividend's sign.
Abs(x) == IF x < 0 THEN - x ELSE x
Quotient(x, y)  == LET q == Abs(x) \div Abs(y) IN IF (x < 0) = (y < 0) THEN q ELSE - q
Remainder(x, y) == x - y * Quotient(x, y)

u_abs(v) == IF v < 0 THEN Unsigned(0 - Unsigned(v)) ELSE v
gcd_u(a, b) ==
  LET g[x \in 0 .. UINT64_MAX, y \in 0 .. UINT64_MAX] == IF y = 0 THEN x ELSE g[y, x % y]
  IN  g[a, b]
InRange(u) == IF u > kI64Max THEN Error ELSE Value(u)

gcd_fn(x, y) == InRange(gcd_u(u_abs(x), u_abs(y)))
lcm_fn(a, b) ==
  LET x == u_abs(a)  y == u_abs(b)
      q == x \div gcd_u(x, y)
  IN  IF x = 0 \/ y = 0 THEN Value(0)
      ELSE IF q > UINT64_MAX \div y THEN Error
      ELSE InRange(Unsigned(q * y))

mod_floor_fn(x, m) ==
  LET r == Remainder(x, m) IN
  IF m = 0 THEN Error
  ELSE IF m = -1 THEN Value(0)
  ELSE Value(IF r # 0 /\ ((r < 0) # (m < 0)) THEN r + m ELSE r)
\* Faulty: rounds towards zero.
floor_div_fnTruncating(x, y) ==
  IF y = 0 \/ (x = kI64Min /\ y = -1) THEN Error ELSE Value(Quotient(x, y))
floor_div_fn(x, y) ==
  IF y = 0 \/ (x = kI64Min /\ y = -1) THEN Error
  ELSE Value(Quotient(x, y) - (IF Remainder(x, y) # 0 /\ ((x < 0) # (y < 0)) THEN 1 ELSE 0))
ceil_div_fn(x, y) ==
  IF y = 0 \/ (x = kI64Min /\ y = -1) THEN Error
  ELSE Value(Quotient(x, y) + (IF Remainder(x, y) # 0 /\ ((x < 0) = (y < 0)) THEN 1 ELSE 0))
divmod_fn(x, m) ==
  IF m = 0 \/ (x = kI64Min /\ m = -1) THEN Error
  ELSE Value(<< Quotient(x, m), Remainder(x, m) >>)

\* The loops that correct the square root of a double; guess is what std::sqrt gave.
Root(x, guess) ==
  LET down[r \in 0 .. guess] == IF r # 0 /\ Unsigned(r * r) > x THEN down[r - 1] ELSE r
      up[r \in 0 .. x + 1]   == IF Unsigned((r + 1) * (r + 1)) <= x THEN up[r + 1] ELSE r
  IN  up[down[guess]]
isqrt_fn(x, guess)     == IF x < 0 THEN Error ELSE Value(Root(x, guess))
is_square_fn(x, guess) == Value(IF x < 0 THEN FALSE ELSE LET r == Root(x, guess) IN r * r = x)

is_prime_fn(n) ==
  Value(IF n < 4 THEN n >= 2
        ELSE n % 2 # 0 /\ ~ \E d \in 3 .. n : d % 2 = 1 /\ d <= n \div d /\ n % d = 0)
bit_count_fn(n) ==
  LET c[u \in 0 .. UINT64_MAX] == IF u = 0 THEN 0 ELSE (u % 2) + c[u \div 2]
  IN  Value(c[Unsigned(n)])
next_pow2_fn(n) ==
  LET up[p \in 1 .. UINT64_MAX] ==
        IF p >= n THEN Value(p) ELSE IF p > kI64Max \div 2 THEN Error ELSE up[2 * p]
  IN  IF n < 1 THEN Error ELSE up[1]

\* 3037000499 in the code: the largest m whose square is at most 2^63.
MaxModulus == CHOOSE m \in 1 .. 2 ^ (Bits - 1) : m * m <= 2 ^ (Bits - 1) /\ (m + 1) * (m + 1) > 2 ^ (Bits - 1)
pow_mod_fn(b, e, m) ==
  LET power[ue \in 0 .. kI64Max, base \in 0 .. m, result \in 0 .. m] ==
        IF ue = 0 THEN result
        ELSE power[ue \div 2, Unsigned(base * base) % m,
                   IF ue % 2 = 1 THEN Unsigned(result * base) % m ELSE result]
      r == Remainder(b, m)
  IN  IF e < 0 \/ m <= 0 \/ m > MaxModulus THEN Error
      ELSE IF m = 1 THEN Value(0)
      ELSE Value(power[e, IF r < 0 THEN r + m ELSE r, 1])

ncr_fn(n, kk) ==
  LET k == IF kk > n - kk THEN n - kk ELSE kk
      step[i \in 1 .. k + 1, r \in Nat] ==
        IF i > k THEN Value(r)
        ELSE IF r > kI64Max \div (n - k + i) THEN Error
        ELSE step[i + 1, (r * (n - k + i)) \div i]
  IN  IF n < 0 \/ kk < 0 THEN Error ELSE IF kk > n THEN Value(0) ELSE step[1, 1]
npr_fn(n, k) ==
  LET step[i \in 0 .. k, r \in Nat] ==
        IF i = k THEN Value(r)
        ELSE IF n - i # 0 /\ r > kI64Max \div (n - i) THEN Error
        ELSE step[i + 1, r * (n - i)]
  IN  IF n < 0 \/ k < 0 THEN Error ELSE IF k > n THEN Value(0) ELSE step[0, 1]
digit_sum_fn(n) ==
  LET s[u \in 0 .. UINT64_MAX] == IF u = 0 THEN 0 ELSE (u % 10) + s[u \div 10]
  IN  Value(s[u_abs(n)])
reverse_int_fn(n) ==
  LET rev[u \in 0 .. UINT64_MAX, r \in Nat] ==
        IF u = 0 THEN Value(IF n < 0 THEN - r ELSE r)
        ELSE IF r > (kI64Max - (u % 10)) \div 10 THEN Error
        ELSE rev[u \div 10, 10 * r + (u % 10)]
  IN  rev[u_abs(n), 0]
triangular_fn(n) ==
  LET t == Unsigned(n * (n + 1)) \div 2 IN
  IF n < 0 \/ n > 2 ^ (Bits \div 2) - 1 THEN Error ELSE InRange(t)

\* The integers from start up (down) to end in steps; at most RangeMax (2^20) of them.
CountUp(span, step) == Unsigned(span + step - 1) \div step
range_fn(start, end, step, RangeMax) ==
  LET count == IF step > 0 /\ end > start THEN CountUp(Unsigned(end - start), step)
               ELSE IF step < 0 /\ end < start THEN CountUp(Unsigned(start - end), u_abs(step))
               ELSE 0
  IN  IF step = 0 \/ count > RangeMax THEN Error
      ELSE Value([i \in 1 .. count |-> Signed(start + (i - 1) * step)])
=============================================================================
