------------------------------- MODULE Values --------------------------------
(***************************************************************************)
(* Concrete values of the language and its arithmetic: src/src/value.h,    *)
(* src/src/value.cc and the operators of src/src/interp.cc.  A value is a  *)
(* record [t, n, s]: n is an integer, a reference or a finite double in    *)
(* units of 1/64; s is a string or the double that n cannot hold.          *)
(*                                                                         *)
(* Doubles are external.  Only what the program can tell apart is kept:    *)
(* both zeros, the infinities, NaN and finite values; a quotient is        *)
(* truncated to the unit.                                                  *)
(***************************************************************************)
EXTENDS Integers, Sequences, Bitwise

CONSTANT IntBits   \* width of the language's integers (64 in the code)
ASSUME IntBitsAssumption == IntBits \in Nat \ {0, 1}

Val(t, n, s) == [t |-> t, n |-> n, s |-> s]
NilV     == Val("Nil", 0, "")
IntV(n)  == Val("Int", n, "")
BoolV(b) == Val("Bool", IF b THEN 1 ELSE 0, "")
StrV(s)  == Val("String", 0, s)
Ref(kind, n) == Val(kind, n, "")

\* Arithmetic wraps through uint64_t.
Unsigned(n) == n % 2 ^ IntBits
Wrap(n) == IF Unsigned(n) >= 2 ^ (IntBits - 1) THEN Unsigned(n) - 2 ^ IntBits ELSE Unsigned(n)
MinInt  == -(2 ^ (IntBits - 1))

\* C++ division truncates toward zero.
Trunc(x, y) == LET q == (IF x < 0 THEN -x ELSE x) \div (IF y < 0 THEN -y ELSE y)
               IN  IF (x < 0) = (y < 0) THEN q ELSE -q

-----------------------------------------------------------------------------
Dbl(n)  == Val("Double", n, "")
NegZero == Val("Double", 0, "-0")
PosInf  == Val("Double", 0, "inf")
NegInf  == Val("Double", 0, "-inf")
NaN     == Val("Double", 0, "nan")

is_nan(d)   == d = NaN
is_inf(d)   == d \in {PosInf, NegInf}
is_zero(d)  == d \in {Dbl(0), NegZero}
isfinite(d) == ~is_nan(d) /\ ~is_inf(d)
signbit(d)  == d.n < 0 \/ d \in {NegZero, NegInf}
Signed(neg, n) == IF n = 0 THEN (IF neg THEN NegZero ELSE Dbl(0)) ELSE Dbl(IF neg THEN -n ELSE n)
Magnitude(d) == IF d.n < 0 THEN -d.n ELSE d.n

as_double(v) == IF v.t = "Double" THEN v ELSE Dbl(64 * v.n)

DNeg(d) == IF is_nan(d) THEN NaN ELSE IF is_inf(d) THEN (IF signbit(d) THEN PosInf ELSE NegInf)
           ELSE Signed(~signbit(d), Magnitude(d))
DAdd(x, y) ==
  IF is_nan(x) \/ is_nan(y) \/ (is_inf(x) /\ is_inf(y) /\ x # y) THEN NaN
  ELSE IF is_inf(x) THEN x
  ELSE IF is_inf(y) THEN y
  ELSE IF x = NegZero /\ y = NegZero THEN NegZero
  ELSE Dbl(x.n + y.n)
DMul(x, y) ==
  LET neg == signbit(x) # signbit(y) IN
  IF is_nan(x) \/ is_nan(y) \/ (is_inf(x) /\ is_zero(y)) \/ (is_inf(y) /\ is_zero(x)) THEN NaN
  ELSE IF is_inf(x) \/ is_inf(y) THEN (IF neg THEN NegInf ELSE PosInf)
  ELSE Signed(neg, (Magnitude(x) * Magnitude(y)) \div 64)
DDiv(x, y) ==
  LET neg == signbit(x) # signbit(y) IN
  IF is_nan(x) \/ is_nan(y) \/ (is_inf(x) /\ is_inf(y)) \/ (is_zero(x) /\ is_zero(y)) THEN NaN
  ELSE IF is_inf(x) \/ is_zero(y) THEN (IF neg THEN NegInf ELSE PosInf)
  ELSE IF is_inf(y) THEN Signed(neg, 0)
  ELSE Signed(neg, (Magnitude(x) * 64) \div Magnitude(y))
fmod(x, y) ==
  IF is_nan(x) \/ is_nan(y) \/ is_inf(x) \/ is_zero(y) THEN NaN
  ELSE IF is_inf(y) THEN x
  ELSE Signed(signbit(x), Magnitude(x) % Magnitude(y))

\* Comparisons; NaN is unordered and the zeros are equal.
Rank(d) == IF d = PosInf THEN 2 ^ 30 ELSE IF d = NegInf THEN -(2 ^ 30) ELSE d.n
DEq(x, y) == ~is_nan(x) /\ ~is_nan(y) /\ Rank(x) = Rank(y)
DLt(x, y) == ~is_nan(x) /\ ~is_nan(y) /\ Rank(x) < Rank(y)

truthy(v) ==
  CASE v.t = "Nil"              -> FALSE
    [] v.t \in {"Int", "Bool"}  -> v.n # 0
    [] v.t = "Double"           -> ~DEq(v, Dbl(0))
    [] OTHER                    -> TRUE

numeric(v) == v.t \in {"Int", "Double"}

\* Numbers compare numerically, strings by content, other objects by identity.
values_equal(a, b) ==
  IF numeric(a) /\ numeric(b) /\ ~(a.t = "Int" /\ b.t = "Int")
  THEN DEq(as_double(a), as_double(b))
  ELSE a = b

-----------------------------------------------------------------------------
\* What an operator delivers: a value, or the error the interpreter raises.
Error(msg) == Val("Error", 0, msg)

IntArith(op, x, y) ==
  CASE op = "+" -> IntV(Wrap(x + y))
    [] op = "-" -> IntV(Wrap(x - y))
    [] op = "*" -> IntV(Wrap(x * y))
    [] op \in {"/", "%"} ->
         IF y = 0 \/ (x = MinInt /\ y = -1) THEN Error("arithmetic error")
         ELSE IntV(IF op = "/" THEN Trunc(x, y) ELSE x - y * Trunc(x, y))

DoubleArith(op, x, y) ==
  CASE op = "+" -> DAdd(x, y)
    [] op = "-" -> DAdd(x, DNeg(y))
    [] op = "*" -> DMul(x, y)
    [] op = "/" -> DDiv(x, y)
    [] op = "%" -> fmod(x, y)

\* Ints compare exactly; any double operand promotes both.
Less(a, b) == IF a.t = "Int" /\ b.t = "Int" THEN a.n < b.n ELSE DLt(as_double(a), as_double(b))
Compared(op, a, b) ==
  CASE op = "<" -> Less(a, b)
    [] op = ">" -> Less(b, a)
    [] op = "l" -> Less(a, b) \/ values_equal(a, b)
    [] op = "g" -> Less(b, a) \/ values_equal(a, b)

BitArith(op, x, y) ==
  CASE op = "&" -> IntV(Wrap(Unsigned(x) & Unsigned(y)))
    [] op = "|" -> IntV(Wrap(Unsigned(x) | Unsigned(y)))
    [] op = "^" -> IntV(Wrap(Unsigned(x) ^^ Unsigned(y)))
    [] op \in {"L", "R"} ->
         IF y < 0 \/ y >= IntBits THEN Error("arithmetic error")
         ELSE IntV(Wrap(IF op = "L" THEN Unsigned(x) * 2 ^ y ELSE Unsigned(x) \div 2 ^ y))

Arith(op, a, b) ==
  LET ints == a.t = "Int" /\ b.t = "Int" IN
  CASE op = "E" -> BoolV(values_equal(a, b))
    [] op = "N" -> BoolV(~values_equal(a, b))
    [] op \in {"<", ">", "l", "g"} /\ numeric(a) /\ numeric(b) -> BoolV(Compared(op, a, b))
    [] op \in {"+", "-", "*", "/", "%"} /\ numeric(a) /\ numeric(b) ->
         IF ints THEN IntArith(op, a.n, b.n) ELSE DoubleArith(op, as_double(a), as_double(b))
    [] op \in {"&", "|", "^", "L", "R"} /\ ints -> BitArith(op, a.n, b.n)
    [] OTHER -> Error("type error")

UnaryArith(op, a) ==
  CASE op = "!" -> BoolV(~truthy(a))
    [] op = "-" /\ a.t = "Int"    -> IntV(Wrap(-a.n))
    [] op = "-" /\ a.t = "Double" -> DNeg(a)
    [] op = "~" /\ a.t = "Int"    -> IntV(-a.n - 1)
    [] OTHER -> Error("type error")
=============================================================================
