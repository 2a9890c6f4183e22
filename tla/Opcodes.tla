------------------------------- MODULE Opcodes -------------------------------
(***************************************************************************)
(* The opcodes of the bytecode (src/src/module.h).                         *)
(***************************************************************************)
EXTENDS Integers

\* Opcodes that the verifier or the interpreter treats alike form a range.
OP_HALT          == 0
OP_LOAD_CONST    == 1
OP_LOAD_NIL      == 2
OP_MOVE          == 3
Arithmetic       == 16 .. 19
OP_DIV           == 19
OP_MOD           == 20
Equality         == 21 .. 22
Comparison       == 23 .. 26
Bitwise          == 27 .. 29
Shift            == 30 .. 31
OP_NEW_ARRAY     == 32
OP_ARRAY_GET     == 33
OP_ARRAY_SET     == 34
OP_NEW_OBJECT    == 35
OP_GET_PROP      == 36
OP_SET_PROP      == 37
OP_ARRAY_PUSH    == 38
OP_CALL          == 48
OP_RET           == 49
OP_CALL_NATIVE   == 50
OP_JUMP          == 64
OP_JUMP_IF_FALSE == 65
OP_PRINT         == 80
OP_NEG           == 96
OP_NOT           == 97
OP_BNOT          == 98
OP_CLOSURE       == 99
OP_GET_UPVAL     == 100
OP_CALL_VALUE    == 101

Binary == Arithmetic \cup {OP_MOD} \cup Equality \cup Comparison \cup Bitwise \cup Shift
Unary  == {OP_NEG, OP_NOT, OP_BNOT}
Calls  == {OP_CALL, OP_CALL_NATIVE, OP_CALL_VALUE}
=============================================================================
