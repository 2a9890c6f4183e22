------------------------------ MODULE Bytecode -------------------------------
(***************************************************************************)
(* The loaded module and its bytecode (src/src/module.h).  A function's    *)
(* code is a sequence of bytes: an operand byte may look like an opcode,   *)
(* which is what the verifier's boundary check is about.  Of a constant    *)
(* only its tag, its string (a name) and its truthiness are kept.          *)
(***************************************************************************)
EXTENDS Integers, Sequences, Opcodes

CONSTANTS
  Modules,   \* the modules under consideration, as the loader delivers them
  Names      \* the strings a Str constant may hold

Byte == 0 .. 255
CTags == {"Int", "Double", "Str", "Nil", "Bool"}
Constant == [tag : CTags, s : Names, truthy : BOOLEAN]
Function == [name_const : Nat, num_params : Byte, num_regs : Byte, code : Seq(Byte)]
Module   == [consts : Seq(Constant), funcs : Seq(Function), entry_func : Nat]

ASSUME ModulesAssumption == Modules \subseteq Module

VARIABLE mod   \* the module being verified and run; never changes

\* Indices into funcs, consts and code count from 0, as in the source.
FuncIdx    == 0 .. Len(mod.funcs) - 1
Fn(f)      == mod.funcs[f + 1]
CodeLen(f) == Len(Fn(f).code)
NumRegs(f) == Fn(f).num_regs
NumConsts  == Len(mod.consts)
Const(k)   == mod.consts[k + 1]

\* Reading operands: r = u8, k = little-endian u16, o = little-endian i16.
u8(f, at)  == Fn(f).code[at + 1]
u16(f, at) == u8(f, at) + 256 * u8(f, at + 1)
i16(f, at) == IF u16(f, at) >= 32768 THEN u16(f, at) - 65536 ELSE u16(f, at)
=============================================================================
