-------------------------------- MODULE MCVM ---------------------------------
(***************************************************************************)
(* Small sets of modules for the run of the commands.                      *)
(***************************************************************************)
EXTENDS Disasm

MCNames   == {"f", "g", "len"}
MCNatives == {"len"}
MCMinArgs == [n \in MCNatives |-> 1]
MCMaxArgs == [n \in MCNatives |-> 1]

StrK(s)  == [tag |-> "Str", s |-> s, truthy |-> TRUE]
IntK(b)  == [tag |-> "Int", s |-> "f", truthy |-> b]

\* Every byte string of length at most n over a small alphabet.
Codes(n, bytes) == UNION {[1 .. k -> bytes] : k \in 0 .. n}
OneFunction(params, regs, codes) ==
  [consts : {<<StrK("f"), IntK(TRUE)>>}, entry_func : {0},
   funcs : [{1} -> [name_const : {0}, num_params : params, num_regs : regs, code : codes]]]

\* The alphabet holds opcodes of every layout, small registers and the two bytes
\* of a negative offset; the longer strings make whole calls and closures.
Alphabet == {0, 1, 3, 37, 49, 64, 65, 101, 253, 255}
MCBytes ==
  OneFunction({0}, {2}, Codes(4, Alphabet))
    \cup OneFunction({2}, {1}, Codes(3, Alphabet))
    \cup OneFunction({1}, {2}, Codes(6, {0, 1, 48, 99}))

\* Programs glued from whole instructions, over two functions: recursion, calls
\* through closures (with an upvalue that is a closure), loops, early returns.
\* const 0 = "f", 1 = "g", 2 = 1, 3 = 0, 4 = "len"; function 0 is f, 1 is g.
Snippets ==
  { <<1, 1, 2, 0>>,          \* r1 = 1
    <<48, 0, 0, 0, 1>>,      \* r0 = f(r0)
    <<48, 0, 1, 0, 2>>,      \* r0 = g(r0, r1)
    <<99, 0, 1, 0, 1, 0>>,   \* r0 = closure of g capturing r0
    <<101, 0, 1>>,           \* r0 = r0(r1)
    <<65, 0, 3, 0>>,         \* if !r0 skip 3 bytes
    <<64, 247, 255>>,        \* jump back 9 bytes from the end of the instruction
    <<49, 0>> }              \* return r0
Callee == { <<>>, <<100, 1, 0, 49, 1>>, <<101, 0, 1>>, <<48, 0, 0, 0, 0, 49, 0>> }
Consts == <<StrK("f"), StrK("g"), IntK(TRUE), IntK(FALSE), StrK("len")>>
Func(name, params, regs, code) ==
  [name_const |-> name, num_params |-> params, num_regs |-> regs, code |-> code]
CallModules ==
  [consts : {Consts}, entry_func : {0},
   funcs : {<<Func(0, 1, 2, a \o b \o c \o d), Func(1, 1, 2, g)>> :
              a, b, c, d \in Snippets, g \in Callee}]

\* One of every other instruction, after instructions that give r0 and r1 a type.
Setup == { <<>>, <<1, 0, 0, 0>>, <<1, 0, 2, 0>>, <<32, 0, 0>>, <<35, 0>> }
Index == { <<>>, <<1, 1, 3, 0>> }
Ops == { <<0>>, <<16, 0, 0, 1>>, <<19, 0, 1, 1>>, <<20, 0, 0, 1>>, <<21, 0, 0, 1>>,
         <<23, 0, 0, 1>>, <<27, 0, 0, 1>>, <<30, 0, 0, 1>>, <<33, 0, 0, 1>>,
         <<34, 0, 1, 0>>, <<36, 0, 0, 0, 0>>, <<37, 0, 0, 0, 1>>, <<38, 0, 1>>,
         <<96, 0, 0>>, <<97, 0, 0>>, <<98, 0, 0>>, <<80, 0>>, <<2, 0>>, <<3, 0, 1>>,
         <<50, 0, 4, 0, 1>>, <<50, 0, 4, 0, 2>>, <<50, 0, 0, 0, 1>>, <<100, 0, 0>>, <<48, 0, 4, 0, 0>> }
OpModules ==
  [consts : {Consts}, entry_func : {0, 1},
   funcs : {<<Func(0, 0, 2, a \o i \o o \o p)>> :
              a \in Setup, i \in Index, o \in Ops, p \in {<<>>, <<101, 0, 1>>}}]

\* Every opcode, with operands 0 and behind it a return; shorter ones run on into zeros.
EveryOpcode == {<<op, 0, 0, 0>> \o tail : op \in 0 .. 110, tail \in {<<>>, <<0>>, <<49, 0>>, <<0, 49, 0>>, <<99, 0, 0, 0, 1, 1>>}}
\* Two functions: the second is disassembled whatever became of the first.
TwoFunctions ==
  [consts : {<<StrK("f"), IntK(TRUE)>>}, entry_func : {0},
   funcs : [1 .. 2 -> [name_const : {0}, num_params : {0}, num_regs : {2}, code : Codes(2, {0, 49, 200})]]]

MCPrograms == CallModules \cup OpModules
MCCbcs == MCBytes \cup MCPrograms \cup TwoFunctions \cup OneFunction({0}, {2}, EveryOpcode)
=============================================================================
