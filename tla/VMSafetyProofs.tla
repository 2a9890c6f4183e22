--------------------------- MODULE VMSafetyProofs ----------------------------
(***************************************************************************)
(* The verifier, for every module: an instruction it accepts is safe to    *)
(* run, its steps keep their invariant, and its verdict is exact.  Then    *)
(* the interpreter: the inductive invariant of module VMInv is preserved   *)
(* by every step and rules out every access out of range; calls nest; the  *)
(* theorems of the virtual machine.  Then the disassembler: it shows what  *)
(* the verifier found, from a layout table of its own.                     *)
(***************************************************************************)
EXTENDS VMInv, SequenceTheorems, TLAPS, Disasm

\* The opcodes are literal numbers in every proof below.
USE DEF OP_HALT, OP_LOAD_CONST, OP_LOAD_NIL, OP_MOVE, Binary, Unary, Calls,
  Arithmetic, OP_MOD, Equality, Comparison, Bitwise, Shift, OP_NEG, OP_NOT, OP_BNOT,
  OP_NEW_ARRAY, OP_ARRAY_GET, OP_ARRAY_SET, OP_NEW_OBJECT, OP_GET_PROP, OP_SET_PROP,
  OP_ARRAY_PUSH, OP_CALL, OP_RET, OP_CALL_NATIVE, OP_JUMP, OP_JUMP_IF_FALSE, OP_PRINT,
  OP_CLOSURE, OP_GET_UPVAL, OP_CALL_VALUE

\* The table of operands_of, opcode by opcode.
LEMMA Layouts ==
  ASSUME NEW op \in Byte
  PROVE  /\ op = 0 => operands_of(op) = << >>
         /\ op \in {2, 80, 49, 35} => operands_of(op) = <<"Reg">>
         /\ op \in {3, 38, 96, 97, 98} => operands_of(op) = <<"Reg", "Reg">>
         /\ op = 32 => operands_of(op) = <<"Reg", "Count">>
         /\ op = 1 => operands_of(op) = <<"Reg", "Const">>
         /\ op \in (16 .. 31) \cup {33, 34} => operands_of(op) = <<"Reg", "Reg", "Reg">>
         /\ op = 36 => operands_of(op) = <<"Reg", "Reg", "ConstStr">>
         /\ op = 37 => operands_of(op) = <<"Reg", "ConstStr", "Reg">>
         /\ op \in {48, 50} => operands_of(op) = <<"Reg", "ConstStr", "Count">>
         /\ op \in {100, 101} => operands_of(op) = <<"Reg", "Count">>
         /\ op = 64 => operands_of(op) = <<"Jump">>
         /\ op = 65 => operands_of(op) = <<"Reg", "Jump">>
         /\ Known(op) => op \in {0, 1, 2, 3, 48, 49, 50, 64, 65, 80, 96, 97, 98, 100, 101} \cup (16 .. 38)
<1>1. op = 0 => operands_of(op) = << >>
  BY DEF operands_of, Byte
<1>2. op \in {2, 80, 49, 35} => operands_of(op) = <<"Reg">>
  BY DEF operands_of, Byte
<1>3. op \in {3, 38, 96, 97, 98} => operands_of(op) = <<"Reg", "Reg">>
  BY DEF operands_of, Byte
<1>4. op = 32 => operands_of(op) = <<"Reg", "Count">>
  BY DEF operands_of, Byte
<1>5. op = 1 => operands_of(op) = <<"Reg", "Const">>
  BY DEF operands_of, Byte
<1>6. op \in (16 .. 31) \cup {33, 34} => operands_of(op) = <<"Reg", "Reg", "Reg">>
  BY DEF operands_of, Byte
<1>7. op = 36 => operands_of(op) = <<"Reg", "Reg", "ConstStr">>
  BY DEF operands_of, Byte
<1>8. op = 37 => operands_of(op) = <<"Reg", "ConstStr", "Reg">>
  BY DEF operands_of, Byte
<1>9. op \in {48, 50} => operands_of(op) = <<"Reg", "ConstStr", "Count">>
  BY DEF operands_of, Byte
<1>10. op \in {100, 101} => operands_of(op) = <<"Reg", "Count">>
  BY DEF operands_of, Byte
<1>11. op = 64 => operands_of(op) = <<"Jump">>
  BY DEF operands_of, Byte
<1>12. op = 65 => operands_of(op) = <<"Reg", "Jump">>
  BY DEF operands_of, Byte
<1>13. Known(op) => op \in {0, 1, 2, 3, 48, 49, 50, 64, 65, 80, 96, 97, 98, 100, 101} \cup (16 .. 38)
  BY DEF operands_of, Known, Byte
<1> QED BY <1>1, <1>2, <1>3, <1>4, <1>5, <1>6, <1>7, <1>8, <1>9, <1>10, <1>11, <1>12, <1>13

-----------------------------------------------------------------------------
LEMMA ModuleFacts ==
  ASSUME mod \in Modules
  PROVE  /\ Len(mod.funcs) \in Nat /\ NumConsts \in Nat
         /\ \A f \in FuncIdx : /\ CodeLen(f) \in Nat /\ NumRegs(f) \in Byte
                              /\ Fn(f).num_params \in Byte
                              /\ \A at \in 0 .. CodeLen(f) - 1 : u8(f, at) \in Byte
<1>1. mod \in Module
  BY ModulesAssumption
<1>2. mod.funcs \in Seq(Function) /\ mod.consts \in Seq(Constant)
  BY <1>1 DEF Module
<1>3. Len(mod.funcs) \in Nat /\ NumConsts \in Nat
  BY <1>2, LenProperties DEF NumConsts
<1>4. ASSUME NEW f \in FuncIdx
      PROVE  /\ CodeLen(f) \in Nat /\ NumRegs(f) \in Byte /\ Fn(f).num_params \in Byte
             /\ \A at \in 0 .. CodeLen(f) - 1 : u8(f, at) \in Byte
  <2>1. Fn(f) \in Function
    <3>1. f + 1 \in 1 .. Len(mod.funcs)
      BY <1>3 DEF FuncIdx
    <3> QED BY <1>2, <3>1, ElementOfSeq DEF Fn
  <2>2. Fn(f).code \in Seq(Byte)
    BY <2>1 DEF Function
  <2>3. CodeLen(f) \in Nat
    BY <2>2, LenProperties DEF CodeLen
  <2>4. ASSUME NEW at \in 0 .. CodeLen(f) - 1 PROVE u8(f, at) \in Byte
    <3>1. at + 1 \in 1 .. Len(Fn(f).code)
      BY <2>3 DEF CodeLen
    <3> QED BY <2>2, <3>1, ElementOfSeq DEF u8
  <2> QED BY <2>1, <2>3, <2>4 DEF Function, NumRegs
<1> QED BY <1>3, <1>4

\* What an accepted fixed-layout instruction guarantees, read off its layout.
LEMMA AcceptedOperands ==
  ASSUME mod \in Modules, NEW f \in FuncIdx, NEW pc \in Nat, pc < CodeLen(f),
         FixedOk(f, pc), NEW op, op = u8(f, pc)
  PROVE  LET len == Offset(operands_of(op), Len(operands_of(op)) + 1)
             reg(k) == u8(f, pc + k) < NumRegs(f)
             const(k) == u16(f, pc + k) < NumConsts
             str(k) == Const(u16(f, pc + k)).tag = "Str"
         IN  /\ pc + len <= CodeLen(f)
             /\ op = 0 => len = 1
             /\ op \in {2, 80, 49, 35} => len = 2 /\ reg(1)
             /\ op \in {3, 38, 96, 97, 98} => len = 3 /\ reg(1) /\ reg(2)
             /\ op = 32 => len = 3 /\ reg(1)
             /\ op = 1 => len = 4 /\ reg(1) /\ const(2)
             /\ op \in (16 .. 31) \cup {33, 34} => len = 4 /\ reg(1) /\ reg(2) /\ reg(3)
             /\ op = 36 => len = 5 /\ reg(1) /\ reg(2) /\ const(3) /\ str(3)
             /\ op = 37 => len = 5 /\ reg(1) /\ const(2) /\ str(2) /\ reg(4)
             /\ op \in {48, 50} => len = 5 /\ reg(1) /\ const(2) /\ str(2)
             /\ op \in {100, 101} => len = 3 /\ reg(1)
             /\ op = 64 => len = 3
             /\ op = 65 => len = 4 /\ reg(1)
<1> DEFINE ops == operands_of(op)
           len == Offset(ops, Len(ops) + 1)
           reg(k) == u8(f, pc + k) < NumRegs(f)
           const(k) == u16(f, pc + k) < NumConsts
           str(k) == Const(u16(f, pc + k)).tag = "Str"
<1>0. op \in Byte
  BY ModuleFacts
<1>a. /\ pc + len <= CodeLen(f)
      /\ \A i \in 1 .. Len(ops) : OperandOk(f, ops[i], pc + Offset(ops, i))
  BY DEF FixedOk
<1>1. ASSUME op = 0 PROVE len = 1
  <2>1. ops = << >>
    BY <1>0, <1>1, Layouts
  <2>2. Len(ops) = 0 /\ len = 1
    BY <2>1 DEF Offset, width
  <2> QED BY <2>2
<1>2. ASSUME op \in {2, 80, 49, 35} PROVE len = 2 /\ reg(1)
  <2>1. ops = <<"Reg">>
    BY <1>0, <1>2, Layouts
  <2>2. Len(ops) = 1 /\ len = 2
        /\ ops[1] = "Reg" /\ Offset(ops, 1) = 1
    BY <2>1 DEF Offset, width
  <2>3. /\ OperandOk(f, "Reg", pc + 1)
    BY <1>a, <2>2
  <2> QED BY <2>2, <2>3 DEF OperandOk
<1>3. ASSUME op \in {3, 38, 96, 97, 98} PROVE len = 3 /\ reg(1) /\ reg(2)
  <2>1. ops = <<"Reg", "Reg">>
    BY <1>0, <1>3, Layouts
  <2>2. Len(ops) = 2 /\ len = 3
        /\ ops[1] = "Reg" /\ Offset(ops, 1) = 1
        /\ ops[2] = "Reg" /\ Offset(ops, 2) = 2
    BY <2>1 DEF Offset, width
  <2>3. /\ OperandOk(f, "Reg", pc + 1)
        /\ OperandOk(f, "Reg", pc + 2)
    BY <1>a, <2>2
  <2> QED BY <2>2, <2>3 DEF OperandOk
<1>4. ASSUME op = 32 PROVE len = 3 /\ reg(1)
  <2>1. ops = <<"Reg", "Count">>
    BY <1>0, <1>4, Layouts
  <2>2. Len(ops) = 2 /\ len = 3
        /\ ops[1] = "Reg" /\ Offset(ops, 1) = 1
        /\ ops[2] = "Count" /\ Offset(ops, 2) = 2
    BY <2>1 DEF Offset, width
  <2>3. /\ OperandOk(f, "Reg", pc + 1)
        /\ OperandOk(f, "Count", pc + 2)
    BY <1>a, <2>2
  <2> QED BY <2>2, <2>3 DEF OperandOk
<1>5. ASSUME op = 1 PROVE len = 4 /\ reg(1) /\ const(2)
  <2>1. ops = <<"Reg", "Const">>
    BY <1>0, <1>5, Layouts
  <2>2. Len(ops) = 2 /\ len = 4
        /\ ops[1] = "Reg" /\ Offset(ops, 1) = 1
        /\ ops[2] = "Const" /\ Offset(ops, 2) = 2
    BY <2>1 DEF Offset, width
  <2>3. /\ OperandOk(f, "Reg", pc + 1)
        /\ OperandOk(f, "Const", pc + 2)
    BY <1>a, <2>2
  <2> QED BY <2>2, <2>3 DEF OperandOk
<1>6. ASSUME op \in (16 .. 31) \cup {33, 34} PROVE len = 4 /\ reg(1) /\ reg(2) /\ reg(3)
  <2>1. ops = <<"Reg", "Reg", "Reg">>
    BY <1>0, <1>6, Layouts
  <2>2. Len(ops) = 3 /\ len = 4
        /\ ops[1] = "Reg" /\ Offset(ops, 1) = 1
        /\ ops[2] = "Reg" /\ Offset(ops, 2) = 2
        /\ ops[3] = "Reg" /\ Offset(ops, 3) = 3
    BY <2>1 DEF Offset, width
  <2>3. /\ OperandOk(f, "Reg", pc + 1)
        /\ OperandOk(f, "Reg", pc + 2)
        /\ OperandOk(f, "Reg", pc + 3)
    BY <1>a, <2>2
  <2> QED BY <2>2, <2>3 DEF OperandOk
<1>7. ASSUME op = 36 PROVE len = 5 /\ reg(1) /\ reg(2) /\ const(3) /\ str(3)
  <2>1. ops = <<"Reg", "Reg", "ConstStr">>
    BY <1>0, <1>7, Layouts
  <2>2. Len(ops) = 3 /\ len = 5
        /\ ops[1] = "Reg" /\ Offset(ops, 1) = 1
        /\ ops[2] = "Reg" /\ Offset(ops, 2) = 2
        /\ ops[3] = "ConstStr" /\ Offset(ops, 3) = 3
    BY <2>1 DEF Offset, width
  <2>3. /\ OperandOk(f, "Reg", pc + 1)
        /\ OperandOk(f, "Reg", pc + 2)
        /\ OperandOk(f, "ConstStr", pc + 3)
    BY <1>a, <2>2
  <2> QED BY <2>2, <2>3 DEF OperandOk
<1>8. ASSUME op = 37 PROVE len = 5 /\ reg(1) /\ const(2) /\ str(2) /\ reg(4)
  <2>1. ops = <<"Reg", "ConstStr", "Reg">>
    BY <1>0, <1>8, Layouts
  <2>2. Len(ops) = 3 /\ len = 5
        /\ ops[1] = "Reg" /\ Offset(ops, 1) = 1
        /\ ops[2] = "ConstStr" /\ Offset(ops, 2) = 2
        /\ ops[3] = "Reg" /\ Offset(ops, 3) = 4
    BY <2>1 DEF Offset, width
  <2>3. /\ OperandOk(f, "Reg", pc + 1)
        /\ OperandOk(f, "ConstStr", pc + 2)
        /\ OperandOk(f, "Reg", pc + 4)
    BY <1>a, <2>2
  <2> QED BY <2>2, <2>3 DEF OperandOk
<1>9. ASSUME op \in {48, 50} PROVE len = 5 /\ reg(1) /\ const(2) /\ str(2)
  <2>1. ops = <<"Reg", "ConstStr", "Count">>
    BY <1>0, <1>9, Layouts
  <2>2. Len(ops) = 3 /\ len = 5
        /\ ops[1] = "Reg" /\ Offset(ops, 1) = 1
        /\ ops[2] = "ConstStr" /\ Offset(ops, 2) = 2
        /\ ops[3] = "Count" /\ Offset(ops, 3) = 4
    BY <2>1 DEF Offset, width
  <2>3. /\ OperandOk(f, "Reg", pc + 1)
        /\ OperandOk(f, "ConstStr", pc + 2)
        /\ OperandOk(f, "Count", pc + 4)
    BY <1>a, <2>2
  <2> QED BY <2>2, <2>3 DEF OperandOk
<1>10. ASSUME op \in {100, 101} PROVE len = 3 /\ reg(1)
  <2>1. ops = <<"Reg", "Count">>
    BY <1>0, <1>10, Layouts
  <2>2. Len(ops) = 2 /\ len = 3
        /\ ops[1] = "Reg" /\ Offset(ops, 1) = 1
        /\ ops[2] = "Count" /\ Offset(ops, 2) = 2
    BY <2>1 DEF Offset, width
  <2>3. /\ OperandOk(f, "Reg", pc + 1)
        /\ OperandOk(f, "Count", pc + 2)
    BY <1>a, <2>2
  <2> QED BY <2>2, <2>3 DEF OperandOk
<1>11. ASSUME op = 64 PROVE len = 3
  <2>1. ops = <<"Jump">>
    BY <1>0, <1>11, Layouts
  <2>2. Len(ops) = 1 /\ len = 3
        /\ ops[1] = "Jump" /\ Offset(ops, 1) = 1
    BY <2>1 DEF Offset, width
  <2> QED BY <2>2
<1>12. ASSUME op = 65 PROVE len = 4 /\ reg(1)
  <2>1. ops = <<"Reg", "Jump">>
    BY <1>0, <1>12, Layouts
  <2>2. Len(ops) = 2 /\ len = 4
        /\ ops[1] = "Reg" /\ Offset(ops, 1) = 1
        /\ ops[2] = "Jump" /\ Offset(ops, 2) = 2
    BY <2>1 DEF Offset, width
  <2>3. /\ OperandOk(f, "Reg", pc + 1)
        /\ OperandOk(f, "Jump", pc + 2)
    BY <1>a, <2>2
  <2> QED BY <2>2, <2>3 DEF OperandOk
<1> QED BY <1>a, <1>1, <1>2, <1>3, <1>4, <1>5, <1>6, <1>7, <1>8, <1>9, <1>10, <1>11, <1>12

\* The two readings of an instruction agree: what pass 1 accepts is what the
\* interpreter can run, and both advance by the same number of bytes.
LEMMA AcceptedFixed ==
  ASSUME mod \in Modules, NEW f \in FuncIdx, NEW pc \in Nat, pc < CodeLen(f),
         FixedOk(f, pc), u8(f, pc) # OP_CLOSURE
  PROVE  /\ SafeInstr(f, pc) /\ InstrLen(f, pc) = Size(f, pc)
         /\ InstrLen(f, pc) \in 1 .. 5 /\ pc + InstrLen(f, pc) <= CodeLen(f)
<1> DEFINE op == u8(f, pc)
<1>1. op \in Byte /\ CodeLen(f) \in Nat
  BY ModuleFacts
<1>2. op \in {0, 1, 2, 3, 48, 49, 50, 64, 65, 80, 96, 97, 98, 100, 101} \cup (16 .. 38)
  BY <1>1, Layouts DEF FixedOk
<1>3. InstrLen(f, pc) = Offset(operands_of(op), Len(operands_of(op)) + 1)
  BY DEF InstrLen
<1> DEFINE len == InstrLen(f, pc)
           Agrees == /\ len = Size(f, pc) /\ len \in 1 .. 5 /\ pc + len <= CodeLen(f)
                     /\ \A k \in RegisterOperands(op) : u8(f, pc + k) < NumRegs(f)
                     /\ \A k \in ConstOperand(op) : u16(f, pc + k) < NumConsts
                     /\ op \in {OP_GET_PROP, OP_SET_PROP, OP_CALL, OP_CALL_NATIVE} =>
                          \A k \in ConstOperand(op) : Const(u16(f, pc + k)).tag = "Str"
<1>4. Agrees
  <2>1. ASSUME op = 0 PROVE Agrees
    <3>1. /\ len = 1 /\ pc + len <= CodeLen(f)
      BY <2>1, <1>3, AcceptedOperands
    <3>2. /\ Size(f, pc) = 1 /\ RegisterOperands(op) = {} /\ ConstOperand(op) = {}
      BY <2>1 DEF Size, RegisterOperands, ConstOperand
    <3> QED BY <2>1, <3>1, <3>2
  <2>2. ASSUME op \in {2, 80, 49, 35} PROVE Agrees
    <3>1. /\ len = 2 /\ pc + len <= CodeLen(f)
          /\ u8(f, pc + 1) < NumRegs(f)
      BY <2>2, <1>3, AcceptedOperands
    <3>2. /\ Size(f, pc) = 2 /\ RegisterOperands(op) = {1} /\ ConstOperand(op) = {}
      BY <2>2 DEF Size, RegisterOperands, ConstOperand
    <3> QED BY <2>2, <3>1, <3>2
  <2>3. ASSUME op \in {3, 38, 96, 97, 98} PROVE Agrees
    <3>1. /\ len = 3 /\ pc + len <= CodeLen(f)
          /\ u8(f, pc + 1) < NumRegs(f)
          /\ u8(f, pc + 2) < NumRegs(f)
      BY <2>3, <1>3, AcceptedOperands
    <3>2. /\ Size(f, pc) = 3 /\ RegisterOperands(op) = {1, 2} /\ ConstOperand(op) = {}
      BY <2>3 DEF Size, RegisterOperands, ConstOperand
    <3> QED BY <2>3, <3>1, <3>2
  <2>4. ASSUME op = 32 PROVE Agrees
    <3>1. /\ len = 3 /\ pc + len <= CodeLen(f)
          /\ u8(f, pc + 1) < NumRegs(f)
      BY <2>4, <1>3, AcceptedOperands
    <3>2. /\ Size(f, pc) = 3 /\ RegisterOperands(op) = {1} /\ ConstOperand(op) = {}
      BY <2>4 DEF Size, RegisterOperands, ConstOperand
    <3> QED BY <2>4, <3>1, <3>2
  <2>5. ASSUME op = 1 PROVE Agrees
    <3>1. /\ len = 4 /\ pc + len <= CodeLen(f)
          /\ u8(f, pc + 1) < NumRegs(f)
          /\ u16(f, pc + 2) < NumConsts
      BY <2>5, <1>3, AcceptedOperands
    <3>2. /\ Size(f, pc) = 4 /\ RegisterOperands(op) = {1} /\ ConstOperand(op) = {2}
      BY <2>5 DEF Size, RegisterOperands, ConstOperand
    <3> QED BY <2>5, <3>1, <3>2
  <2>6. ASSUME op \in (16 .. 31) \cup {33, 34} PROVE Agrees
    <3>1. /\ len = 4 /\ pc + len <= CodeLen(f)
          /\ u8(f, pc + 1) < NumRegs(f)
          /\ u8(f, pc + 2) < NumRegs(f)
          /\ u8(f, pc + 3) < NumRegs(f)
      BY <2>6, <1>3, AcceptedOperands
    <3>2. /\ Size(f, pc) = 4 /\ RegisterOperands(op) = {1, 2, 3} /\ ConstOperand(op) = {}
      BY <2>6 DEF Size, RegisterOperands, ConstOperand
    <3> QED BY <2>6, <3>1, <3>2
  <2>7. ASSUME op = 36 PROVE Agrees
    <3>1. /\ len = 5 /\ pc + len <= CodeLen(f)
          /\ u8(f, pc + 1) < NumRegs(f)
          /\ u8(f, pc + 2) < NumRegs(f)
          /\ u16(f, pc + 3) < NumConsts
          /\ Const(u16(f, pc + 3)).tag = "Str"
      BY <2>7, <1>3, AcceptedOperands
    <3>2. /\ Size(f, pc) = 5 /\ RegisterOperands(op) = {1, 2} /\ ConstOperand(op) = {3}
      BY <2>7 DEF Size, RegisterOperands, ConstOperand
    <3> QED BY <2>7, <3>1, <3>2
  <2>8. ASSUME op = 37 PROVE Agrees
    <3>1. /\ len = 5 /\ pc + len <= CodeLen(f)
          /\ u8(f, pc + 1) < NumRegs(f)
          /\ u16(f, pc + 2) < NumConsts
          /\ Const(u16(f, pc + 2)).tag = "Str"
          /\ u8(f, pc + 4) < NumRegs(f)
      BY <2>8, <1>3, AcceptedOperands
    <3>2. /\ Size(f, pc) = 5 /\ RegisterOperands(op) = {1, 4} /\ ConstOperand(op) = {2}
      BY <2>8 DEF Size, RegisterOperands, ConstOperand
    <3> QED BY <2>8, <3>1, <3>2
  <2>9. ASSUME op \in {48, 50} PROVE Agrees
    <3>1. /\ len = 5 /\ pc + len <= CodeLen(f)
          /\ u8(f, pc + 1) < NumRegs(f)
          /\ u16(f, pc + 2) < NumConsts
          /\ Const(u16(f, pc + 2)).tag = "Str"
      BY <2>9, <1>3, AcceptedOperands
    <3>2. /\ Size(f, pc) = 5 /\ RegisterOperands(op) = {1} /\ ConstOperand(op) = {2}
      BY <2>9 DEF Size, RegisterOperands, ConstOperand
    <3> QED BY <2>9, <3>1, <3>2
  <2>10. ASSUME op \in {100, 101} PROVE Agrees
    <3>1. /\ len = 3 /\ pc + len <= CodeLen(f)
          /\ u8(f, pc + 1) < NumRegs(f)
      BY <2>10, <1>3, AcceptedOperands
    <3>2. /\ Size(f, pc) = 3 /\ RegisterOperands(op) = {1} /\ ConstOperand(op) = {}
      BY <2>10 DEF Size, RegisterOperands, ConstOperand
    <3> QED BY <2>10, <3>1, <3>2
  <2>11. ASSUME op = 64 PROVE Agrees
    <3>1. /\ len = 3 /\ pc + len <= CodeLen(f)
      BY <2>11, <1>3, AcceptedOperands
    <3>2. /\ Size(f, pc) = 3 /\ RegisterOperands(op) = {} /\ ConstOperand(op) = {}
      BY <2>11 DEF Size, RegisterOperands, ConstOperand
    <3> QED BY <2>11, <3>1, <3>2
  <2>12. ASSUME op = 65 PROVE Agrees
    <3>1. /\ len = 4 /\ pc + len <= CodeLen(f)
          /\ u8(f, pc + 1) < NumRegs(f)
      BY <2>12, <1>3, AcceptedOperands
    <3>2. /\ Size(f, pc) = 4 /\ RegisterOperands(op) = {1} /\ ConstOperand(op) = {}
      BY <2>12 DEF Size, RegisterOperands, ConstOperand
    <3> QED BY <2>12, <3>1, <3>2
  <2> QED BY <1>2, <2>1, <2>2, <2>3, <2>4, <2>5, <2>6, <2>7, <2>8, <2>9, <2>10, <2>11, <2>12
<1>5. op \in Opcodes /\ op # OP_CLOSURE
  BY <1>2 DEF Opcodes
<1>9. op \in Calls => WindowEnd(f, pc) <= NumRegs(f)
  <2>1. ASSUME op \in {48, 50} PROVE WindowEnd(f, pc) <= NumRegs(f)
    BY <2>1 DEF FixedOk, WindowOk, WindowEnd
  <2>2. ASSUME op = 101 PROVE WindowEnd(f, pc) <= NumRegs(f)
    <3>1. u8(f, pc + 1) \in Byte /\ u8(f, pc + 2) \in Byte
      <4>1. pc + 3 <= CodeLen(f)
        BY <2>2, <1>3, <1>4, AcceptedOperands
      <4>2. pc + 1 \in 0 .. CodeLen(f) - 1 /\ pc + 2 \in 0 .. CodeLen(f) - 1
        BY <1>1, <4>1
      <4> QED BY <4>2, ModuleFacts
    <3>2. u8(f, pc + 1) + u8(f, pc + 2) + 1 <= NumRegs(f)
      BY <2>2 DEF FixedOk, WindowOk
    <3>3. WindowEnd(f, pc) = u8(f, pc + 1) + 1 + u8(f, pc + 2)
      BY <2>2 DEF WindowEnd
    <3>4. u8(f, pc + 1) \in Nat /\ u8(f, pc + 2) \in Nat /\ NumRegs(f) \in Nat
      <4>1. NumRegs(f) \in Byte
        BY ModuleFacts
      <4> QED BY <3>1, <4>1 DEF Byte
    <3> QED BY <3>2, <3>3, <3>4
  <2> QED BY <2>1, <2>2
<1> HIDE DEF op
<1> QED BY <1>4, <1>5, <1>9 DEF SafeInstr, op

LEMMA AcceptedClosure ==
  ASSUME mod \in Modules, NEW f \in FuncIdx, NEW pc \in Nat, pc < CodeLen(f),
         ClosureOk(f, pc), u8(f, pc) = OP_CLOSURE
  PROVE  /\ SafeInstr(f, pc) /\ InstrLen(f, pc) = Size(f, pc)
         /\ InstrLen(f, pc) \in Nat \ {0} /\ pc + InstrLen(f, pc) <= CodeLen(f)
<1>1. CodeLen(f) \in Nat /\ pc + 5 <= CodeLen(f)
  BY ModuleFacts DEF ClosureOk
<1>2. u8(f, pc + 4) \in Byte
  <2>1. pc + 4 \in 0 .. CodeLen(f) - 1
    BY <1>1
  <2> QED BY <2>1, ModuleFacts
<1>3. InstrLen(f, pc) = 5 + u8(f, pc + 4) /\ Size(f, pc) = 5 + u8(f, pc + 4)
  BY DEF InstrLen, Size
<1>4. InstrLen(f, pc) \in Nat \ {0} /\ pc + InstrLen(f, pc) <= CodeLen(f)
  <2>1. u8(f, pc + 4) \in Nat
    BY <1>2 DEF Byte
  <2>2. pc + 5 + u8(f, pc + 4) <= CodeLen(f)
    BY DEF ClosureOk
  <2> QED BY <1>1, <1>3, <2>1, <2>2
<1>5. OP_CLOSURE \in Opcodes /\ RegisterOperands(OP_CLOSURE) = {1}
      /\ ConstOperand(OP_CLOSURE) = {} /\ OP_CLOSURE \notin Calls
  BY DEF Opcodes, RegisterOperands, ConstOperand
<1> QED BY <1>1, <1>3, <1>4, <1>5 DEF SafeInstr, ClosureOk

LEMMA Word == ASSUME NEW a \in Byte, NEW b \in Byte PROVE a + 256 * b \in Int
BY DEF Byte

LEMMA AcceptedInstr ==
  ASSUME mod \in Modules, NEW f \in FuncIdx, NEW pc \in Nat, pc < CodeLen(f),
         InstrOk(f, pc)
  PROVE  /\ SafeInstr(f, pc) /\ InstrLen(f, pc) = Size(f, pc)
         /\ InstrLen(f, pc) \in Nat \ {0} /\ pc + InstrLen(f, pc) <= CodeLen(f)
         /\ JumpsOf(f, pc) \subseteq Nat \X Int
<1>1. /\ SafeInstr(f, pc) /\ InstrLen(f, pc) = Size(f, pc)
      /\ InstrLen(f, pc) \in Nat \ {0} /\ pc + InstrLen(f, pc) <= CodeLen(f)
  BY AcceptedFixed, AcceptedClosure DEF InstrOk
<1>2. ASSUME u8(f, pc) = OP_JUMP PROVE i16(f, pc + 1) \in Int
  <2>1. CodeLen(f) \in Nat /\ Size(f, pc) = 3
    BY <1>2, ModuleFacts DEF Size
  <2>2. pc + 1 \in 0 .. CodeLen(f) - 1 /\ pc + 1 + 1 \in 0 .. CodeLen(f) - 1
    BY <1>1, <2>1
  <2>3. u8(f, pc + 1) \in Byte /\ u8(f, pc + 1 + 1) \in Byte
    BY <2>2, ModuleFacts
  <2>4. u16(f, pc + 1) \in Int
    BY <2>3, Word DEF u16
  <2> QED BY <2>4 DEF i16
<1>3. ASSUME u8(f, pc) = OP_JUMP_IF_FALSE PROVE i16(f, pc + 2) \in Int
  <2>1. CodeLen(f) \in Nat /\ Size(f, pc) = 4
    BY <1>3, ModuleFacts DEF Size
  <2>2. pc + 2 \in 0 .. CodeLen(f) - 1 /\ pc + 2 + 1 \in 0 .. CodeLen(f) - 1
    BY <1>1, <2>1
  <2>3. u8(f, pc + 2) \in Byte /\ u8(f, pc + 2 + 1) \in Byte
    BY <2>2, ModuleFacts
  <2>4. u16(f, pc + 2) \in Int
    BY <2>3, Word DEF u16
  <2> QED BY <2>4 DEF i16
<1> QED BY <1>1, <1>2, <1>3 DEF JumpsOf

-----------------------------------------------------------------------------
\* The module never changes, so what was found out about it stays true.
LEMMA SameModule ==
  ASSUME UNCHANGED mod
  PROVE  /\ FuncIdx' = FuncIdx
         /\ \A f \in FuncIdx : /\ CodeLen(f)' = CodeLen(f) /\ ParamsFit(f)' = ParamsFit(f)
                               /\ Registers(f)' = Registers(f)
                               /\ \A s : InstrOk(f, s)' = InstrOk(f, s)
                               /\ \A s : InstrLen(f, s)' = InstrLen(f, s)
                               /\ \A s : JumpsOf(f, s)' = JumpsOf(f, s)
                               /\ \A S, u : Swept(f, S, u)' = Swept(f, S, u)
<1>1. FuncIdx' = FuncIdx
  BY DEF FuncIdx
<1>2. ASSUME NEW f
      PROVE  /\ CodeLen(f)' = CodeLen(f) /\ ParamsFit(f)' = ParamsFit(f)
             /\ Registers(f)' = Registers(f)
             /\ \A s : InstrOk(f, s)' = InstrOk(f, s)
             /\ \A s : InstrLen(f, s)' = InstrLen(f, s)
             /\ \A s : JumpsOf(f, s)' = JumpsOf(f, s)
             /\ \A S, u : Swept(f, S, u)' = Swept(f, S, u)
  <2>1. CodeLen(f)' = CodeLen(f)
    BY DEF CodeLen, Fn
  <2>2. ParamsFit(f)' = ParamsFit(f)
    BY DEF ParamsFit, Fn, NumRegs
  <2>3. Registers(f)' = Registers(f)
    BY DEF Registers, NumRegs, Fn
  <2>4. ASSUME NEW s PROVE InstrOk(f, s)' = InstrOk(f, s)
    BY DEF InstrOk, ClosureOk, FixedOk, OperandOk, WindowOk, u8, u16, Fn, CodeLen, NumRegs,
           NumConsts, Const, Known
  <2>5. ASSUME NEW s PROVE InstrLen(f, s)' = InstrLen(f, s)
    BY DEF InstrLen, u8, Fn
  <2>6. ASSUME NEW s PROVE JumpsOf(f, s)' = JumpsOf(f, s)
    BY DEF JumpsOf, i16, u16, u8, Fn
  <2>7. ASSUME NEW S, NEW u PROVE Swept(f, S, u)' = Swept(f, S, u)
    BY <2>1, <2>4, <2>5 DEF Swept
  <2> QED BY <2>1, <2>2, <2>3, <2>4, <2>5, <2>6, <2>7
<1> QED BY <1>1, <1>2

-----------------------------------------------------------------------------
(***************************************************************************)
(* The verifier's steps.                                                   *)
(***************************************************************************)
LEMMA StillChecked ==
  ASSUME UNCHANGED mod, NEW f \in FuncIdx, Checked(f), is_start'[f] = is_start[f]
  PROVE  Checked(f)'
BY SameModule DEF Checked, Swept

LEMMA EnterFnStep ==
  ASSUME VerifierType, VerifierInv, EnterFn, UNCHANGED mod
  PROVE  VerifierType' /\ VerifierInv'
<1>1. CASE NumRegs(vfn) < Fn(vfn).num_params
  BY <1>1, SameModule DEF EnterFn, Reject, Pending, VerifierType, VerifierInv
<1>2. CASE ~(NumRegs(vfn) < Fn(vfn).num_params)
  <2>1. /\ verdict' = "pending" /\ vfn' = vfn /\ vfn \in FuncIdx /\ is_start' = is_start
        /\ pass' = "decode" /\ vpc' = 0 /\ jumps' = {} /\ pass = "enter"
        /\ verdict = "pending"
    <3>1. Len(mod.funcs) \in Nat
      BY ModuleFacts DEF VerifierType
    <3> QED BY <1>2, <3>1 DEF EnterFn, Pending, VerifierType, FuncIdx
  <2>2. VerifierType'
    BY <2>1, SameModule DEF VerifierType
  <2>3. ASSUME NEW f \in FuncIdx, f = vfn PROVE Decoding(f)'
    <3>1. is_start'[f] = {}
      BY <2>1, <2>3 DEF VerifierInv
    <3>2. ParamsFit(f) /\ CodeLen(f) \in Nat
      <4>1. NumRegs(f) \in Nat /\ Fn(f).num_params \in Nat /\ CodeLen(f) \in Nat
        <5>1. NumRegs(f) \in Byte /\ Fn(f).num_params \in Byte /\ CodeLen(f) \in Nat
          BY ModuleFacts DEF VerifierType
        <5> QED BY <5>1 DEF Byte
      <4> QED BY <1>2, <2>3, <4>1 DEF ParamsFit
    <3>3. Swept(f, {}, 0)'
      BY DEF Swept
    <3> QED BY <2>1, <3>1, <3>2, <3>3, SameModule DEF Decoding, Swept
  <2>4. ASSUME NEW f \in FuncIdx, f < vfn PROVE Checked(f)'
    BY <2>1, <2>4, StillChecked DEF VerifierInv
  <2>5. ASSUME NEW f \in FuncIdx, f > vfn PROVE is_start'[f] = {}
    BY <2>1, <2>5 DEF VerifierInv
  <2> QED BY <2>1, <2>2, <2>3, <2>4, <2>5, SameModule DEF VerifierInv
<1> QED BY <1>1, <1>2

LEMMA DecodeInstrStep ==
  ASSUME VerifierType, VerifierInv, DecodeInstr, UNCHANGED mod
  PROVE  VerifierType' /\ VerifierInv'
<1>1. CASE ~InstrOk(vfn, vpc)
  BY <1>1, SameModule DEF DecodeInstr, Reject, Pending, VerifierType, VerifierInv
<1>2. CASE InstrOk(vfn, vpc)
  <2>1. /\ verdict' = "pending" /\ verdict = "pending" /\ vfn' = vfn /\ vfn \in FuncIdx
        /\ pass = "decode" /\ pass' = "decode" /\ vpc \in Nat /\ vpc < CodeLen(vfn)
        /\ is_start' = [is_start EXCEPT ![vfn] = @ \cup {vpc}]
        /\ jumps' = jumps \cup JumpsOf(vfn, vpc)
        /\ vpc' = vpc + InstrLen(vfn, vpc)
    BY <1>2 DEF DecodeInstr, Pending, VerifierType
  <2>2. /\ InstrLen(vfn, vpc) \in Nat /\ vpc + InstrLen(vfn, vpc) <= CodeLen(vfn)
        /\ JumpsOf(vfn, vpc) \subseteq Nat \X Int
    BY <1>2, <2>1, AcceptedInstr DEF VerifierType
  <2>3. is_start \in [FuncIdx -> SUBSET Nat]
    BY DEF VerifierType
  <2>4. is_start' \in [FuncIdx -> SUBSET Nat]
    BY <2>1, <2>3
  <2>5. is_start'[vfn] = is_start[vfn] \cup {vpc}
    BY <2>1, <2>3
  <2>6. \A f \in FuncIdx : f # vfn => is_start'[f] = is_start[f]
    BY <2>1, <2>3
  <2>7. VerifierType'
    <3>1. vpc' \in Nat /\ jumps' \subseteq Nat \X Int
      BY <2>1, <2>2 DEF VerifierType
    <3> QED BY <2>1, <2>4, <3>1, SameModule DEF VerifierType
  <2>8. ASSUME NEW f \in FuncIdx, f = vfn PROVE Decoding(f)'
    <3>0. Decoding(f)
      BY <2>1, <2>8 DEF VerifierInv
    <3>1. ParamsFit(f)' /\ vpc' <= CodeLen(f)'
      BY <2>1, <2>2, <2>8, <3>0, SameModule DEF Decoding
    <3>2. Swept(f, is_start[f], vpc)
      BY <3>0 DEF Decoding
    <3>3. Swept(f, is_start[f] \cup {vpc}, vpc + InstrLen(f, vpc))
      BY <1>2, <2>1, <2>8, <3>2 DEF Swept
    <3>4. Swept(f, is_start[f], vpc)'
      BY <2>1, <2>5, <2>8, <3>3, SameModule DEF Swept
    <3>5. \A s \in is_start'[f] : JumpsOf(f, s) \subseteq jumps'
      BY <2>1, <2>5, <2>8, <3>0 DEF Decoding
    <3> QED BY <3>1, <3>4, <3>5, SameModule DEF Decoding
  <2>9. ASSUME NEW f \in FuncIdx, f < vfn PROVE Checked(f)'
    <3>1. vfn \in Nat /\ f \in Nat
      <4>1. Len(mod.funcs) \in Nat
        BY ModuleFacts DEF VerifierType
      <4> QED BY <2>1, <4>1 DEF FuncIdx
    <3>2. f # vfn
      BY <2>9, <3>1
    <3> QED BY <2>1, <2>6, <2>9, <3>2, StillChecked DEF VerifierInv
  <2>10. ASSUME NEW f \in FuncIdx, f > vfn PROVE is_start'[f] = {}
    <3>1. vfn \in Nat /\ f \in Nat
      <4>1. Len(mod.funcs) \in Nat
        BY ModuleFacts DEF VerifierType
      <4> QED BY <2>1, <4>1 DEF FuncIdx
    <3>2. f # vfn
      BY <2>10, <3>1
    <3> QED BY <2>1, <2>6, <2>10, <3>2 DEF VerifierInv
  <2> QED BY <2>1, <2>7, <2>8, <2>9, <2>10, SameModule DEF VerifierInv
<1> QED BY <1>1, <1>2

LEMMA DecodeDoneStep ==
  ASSUME VerifierType, VerifierInv, DecodeDone, UNCHANGED mod
  PROVE  VerifierType' /\ VerifierInv'
<1>1. /\ verdict' = "pending" /\ verdict = "pending" /\ vfn' = vfn /\ vfn \in FuncIdx
      /\ pass = "decode" /\ pass' = "jumps" /\ vpc' = vpc /\ vpc >= CodeLen(vfn)
      /\ is_start' = is_start /\ jumps' = jumps
  BY DEF DecodeDone, Pending, VerifierType
<1>2. VerifierType'
  BY <1>1, SameModule DEF VerifierType
<1>3. ASSUME NEW f \in FuncIdx, f = vfn PROVE Resolving(f)'
  <2>0. Decoding(f)
    BY <1>1, <1>3 DEF VerifierInv
  <2>1. vpc = CodeLen(f)
    <3>1. CodeLen(f) \in Nat /\ vpc \in Nat
      BY ModuleFacts DEF VerifierType
    <3> QED BY <1>1, <1>3, <2>0, <3>1 DEF Decoding
  <2>2. Swept(f, is_start[f], CodeLen(f))
    BY <2>0, <2>1 DEF Decoding
  <2>3. Swept(f, is_start[f], CodeLen(f))'
    BY <1>1, <2>2, SameModule DEF Swept
  <2> QED BY <1>1, <2>0, <2>3, SameModule DEF Decoding, Resolving
<1>4. ASSUME NEW f \in FuncIdx, f < vfn PROVE Checked(f)'
  BY <1>1, <1>4, StillChecked DEF VerifierInv
<1> QED BY <1>1, <1>2, <1>3, <1>4, SameModule DEF VerifierInv

LEMMA ResolveJumpStep ==
  ASSUME VerifierType, VerifierInv, ResolveJump, UNCHANGED mod
  PROVE  VerifierType' /\ VerifierInv'
<1>1. PICK j \in jumps :
         IF ~TargetOk(vfn, j[1] + j[2]) THEN Reject
         ELSE jumps' = jumps \ {j} /\ UNCHANGED <<verdict, vfn, pass, vpc, is_start>>
  BY DEF ResolveJump
<1>2. CASE ~TargetOk(vfn, j[1] + j[2])
  BY <1>1, <1>2, SameModule DEF ResolveJump, Reject, Pending, VerifierType, VerifierInv
<1>3. CASE TargetOk(vfn, j[1] + j[2])
  <2>1. /\ verdict' = "pending" /\ verdict = "pending" /\ vfn' = vfn /\ vfn \in FuncIdx
        /\ pass = "jumps" /\ pass' = "jumps" /\ vpc' = vpc /\ is_start' = is_start
        /\ jumps' = jumps \ {j} /\ j[1] + j[2] \in is_start[vfn]
    BY <1>1, <1>3 DEF ResolveJump, Pending, VerifierType, TargetOk
  <2>2. VerifierType'
    BY <2>1, SameModule DEF VerifierType
  <2>3. ASSUME NEW f \in FuncIdx, f = vfn PROVE Resolving(f)'
    <3>1. Resolving(f)
      BY <2>1, <2>3 DEF VerifierInv
    <3>2. Swept(f, is_start[f], CodeLen(f))'
      BY <2>1, <3>1, SameModule DEF Resolving, Swept
    <3>3. \A s \in is_start'[f] : \A i \in JumpsOf(f, s) :
            i \in jumps' \/ i[1] + i[2] \in is_start'[f]
      BY <2>1, <2>3, <3>1 DEF Resolving
    <3> QED BY <2>1, <3>1, <3>2, <3>3, SameModule DEF Resolving
  <2>4. ASSUME NEW f \in FuncIdx, f < vfn PROVE Checked(f)'
    BY <2>1, <2>4, StillChecked DEF VerifierInv
  <2> QED BY <2>1, <2>2, <2>3, <2>4, SameModule DEF VerifierInv
<1> QED BY <1>2, <1>3

LEMMA FnDoneStep ==
  ASSUME VerifierType, VerifierInv, FnDone, UNCHANGED mod
  PROVE  VerifierType' /\ VerifierInv'
<1>1. /\ verdict' = "pending" /\ verdict = "pending" /\ vfn' = vfn + 1 /\ vfn \in FuncIdx
      /\ pass = "jumps" /\ pass' = "enter" /\ vpc' = vpc /\ is_start' = is_start
      /\ jumps' = jumps /\ jumps = {}
  BY DEF FnDone, Pending, VerifierType
<1>2. Len(mod.funcs) \in Nat /\ vfn \in Nat /\ vfn + 1 \in 0 .. Len(mod.funcs)
      /\ \A f \in FuncIdx : f \in Nat
  <2>1. Len(mod.funcs) \in Nat
    BY ModuleFacts DEF VerifierType
  <2> QED BY <1>1, <2>1 DEF FuncIdx
<1>3. VerifierType'
  BY <1>1, <1>2, SameModule DEF VerifierType
<1>4. ASSUME NEW f \in FuncIdx, f < vfn' PROVE Checked(f)'
  <2>1. CASE f = vfn
    <3>1. Resolving(f)
      BY <1>1, <2>1 DEF VerifierInv
    <3>2. Checked(f)
      BY <1>1, <3>1 DEF Resolving, Checked
    <3> QED BY <1>1, <3>2, StillChecked
  <2>2. CASE f # vfn
    <3>1. f < vfn
      BY <1>1, <1>2, <1>4, <2>2
    <3>2. Checked(f)
      BY <1>1, <3>1 DEF VerifierInv
    <3> QED BY <1>1, <3>2, StillChecked
  <2> QED BY <2>1, <2>2
<1>5. ASSUME NEW f \in FuncIdx, f > vfn' \/ f = vfn' PROVE is_start'[f] = {}
  <2>1. f > vfn
    BY <1>1, <1>2, <1>5
  <2> QED BY <1>1, <2>1 DEF VerifierInv
<1> QED BY <1>1, <1>3, <1>4, <1>5, SameModule DEF VerifierInv

LEMMA AcceptStep ==
  ASSUME VerifierType, VerifierInv, Accept, UNCHANGED mod
  PROVE  VerifierType' /\ VerifierInv'
<1>1. /\ verdict = "pending" /\ verdict' = "ok" /\ pass = "enter" /\ vfn = Len(mod.funcs)
      /\ UNCHANGED <<vfn, pass, vpc, is_start, jumps>>
  BY DEF Accept, Pending
<1>2. VerifierType'
  BY <1>1, SameModule DEF VerifierType
<1>3. ASSUME NEW f \in FuncIdx PROVE Checked(f)'
  <2>1. f < vfn
    <3>1. Len(mod.funcs) \in Nat
      BY ModuleFacts DEF VerifierType
    <3> QED BY <1>1, <3>1 DEF FuncIdx
  <2>2. Checked(f)
    BY <1>1, <2>1 DEF VerifierInv
  <2> QED BY <1>1, <2>2, StillChecked
<1> QED BY <1>1, <1>2, <1>3, SameModule DEF VerifierInv

LEMMA VerifierStep ==
  ASSUME VerifierType, VerifierInv, VNext
  PROVE  VerifierType' /\ VerifierInv'
BY EnterFnStep, DecodeInstrStep, DecodeDoneStep, ResolveJumpStep, FnDoneStep, AcceptStep
   DEF VNext

\* A step that leaves the verifier alone.
LEMMA VerifierRests ==
  ASSUME VerifierType, VerifierInv, UNCHANGED <<mod, vvars>>
  PROVE  VerifierType' /\ VerifierInv'
<1>1. UNCHANGED mod /\ UNCHANGED <<verdict, vfn, pass, vpc, is_start, jumps>>
  BY DEF vvars
<1>2. VerifierType'
  BY <1>1, SameModule DEF VerifierType
<1>3. \A f \in FuncIdx : Checked(f) => Checked(f)'
  BY <1>1, StillChecked
<1>4. \A f \in FuncIdx : Decoding(f) => Decoding(f)'
  BY <1>1, SameModule DEF Decoding, Swept
<1>5. \A f \in FuncIdx : Resolving(f) => Resolving(f)'
  BY <1>1, SameModule DEF Resolving, Swept
<1> QED BY <1>1, <1>2, <1>3, <1>4, <1>5, SameModule DEF VerifierInv

-----------------------------------------------------------------------------
(***************************************************************************)
(* The verdict is exact.  A set that tiles the code is compared with the   *)
(* starts found so far: the sweep can find no others.                      *)
(***************************************************************************)
Covers(f, s, at) == s <= at /\ at < s + InstrLen(f, s)

\* S tiles the code up to offset upto.
TiledTo(f, S, upto) ==
  /\ \A s \in S : InstrOk(f, s) /\ s + InstrLen(f, s) <= upto
  /\ \A at \in 0 .. upto - 1 :
       \E s \in S : Covers(f, s, at) /\ \A t \in S : Covers(f, t, at) => t = s

Tilings(f) == {S \in SUBSET (0 .. CodeLen(f) - 1) : Tiled(f, S)}

\* Pass 1 has found the first tiles of every tiling and goes on at the next.
Follows(f) ==
  \A S \in Tilings(f) :
    vpc \in S \cup {CodeLen(f)} /\ \A t \in S : t < vpc => t \in is_start[f]

\* Only jumps of swept instructions are to be resolved.
Recorded(f) == \A j \in jumps : \E s \in is_start[f] : j \in JumpsOf(f, s)

SweepInv ==
  /\ verdict = "ok" => \A f \in FuncIdx : TiledTo(f, is_start[f], CodeLen(f))
  /\ verdict = "pending" =>
       \A f \in FuncIdx :
         /\ f < vfn => TiledTo(f, is_start[f], CodeLen(f))
         /\ f = vfn /\ pass = "decode" =>
              TiledTo(f, is_start[f], vpc) /\ Follows(f) /\ Recorded(f)
         /\ f = vfn /\ pass = "jumps" =>
              /\ TiledTo(f, is_start[f], CodeLen(f)) /\ Recorded(f)
              /\ \A S \in Tilings(f) : S \subseteq is_start[f]
  /\ verdict = "err" => \E f \in FuncIdx : ~WellFormed(f)

\* The first byte starts a tile, and behind a tile comes another or the end.
LEMMA NextTile ==
  ASSUME mod \in Modules, NEW f \in FuncIdx, NEW S \in Tilings(f)
  PROVE  /\ CodeLen(f) \in Nat /\ S \subseteq Nat /\ 0 \in S \cup {CodeLen(f)}
         /\ \A s \in S : /\ s < CodeLen(f) /\ InstrOk(f, s) /\ InstrLen(f, s) \in Nat \ {0}
                         /\ s + InstrLen(f, s) \in S \cup {CodeLen(f)}
<1>1. CodeLen(f) \in Nat
  BY ModuleFacts
<1>2. /\ S \subseteq 0 .. CodeLen(f) - 1
      /\ \A s \in S : InstrOk(f, s)
      /\ \A at \in 0 .. CodeLen(f) - 1 :
           \E s \in S : Covers(f, s, at) /\ \A t \in S : Covers(f, t, at) => t = s
  BY DEF Tilings, Tiled, Covers
<1>3. \A s \in S : /\ s \in Nat /\ s < CodeLen(f) /\ InstrOk(f, s)
                   /\ InstrLen(f, s) \in Nat \ {0} /\ s + InstrLen(f, s) <= CodeLen(f)
  <2>1. ASSUME NEW s \in S
        PROVE  /\ s \in Nat /\ s < CodeLen(f) /\ InstrOk(f, s)
               /\ InstrLen(f, s) \in Nat \ {0} /\ s + InstrLen(f, s) <= CodeLen(f)
    <3>1. s \in Nat /\ s < CodeLen(f) /\ InstrOk(f, s)
      BY <1>1, <1>2
    <3> QED BY <3>1, AcceptedInstr
  <2> QED BY <2>1
<1>4. 0 \in S \cup {CodeLen(f)}
  <2> SUFFICES ASSUME 0 # CodeLen(f) PROVE 0 \in S
    OBVIOUS
  <2>1. 0 \in 0 .. CodeLen(f) - 1
    BY <1>1
  <2>2. PICK s \in S : Covers(f, s, 0)
    BY <1>2, <2>1
  <2>3. s = 0
    BY <1>3, <2>2 DEF Covers
  <2> QED BY <2>3
<1>5. ASSUME NEW s \in S PROVE s + InstrLen(f, s) \in S \cup {CodeLen(f)}
  <2> DEFINE len == InstrLen(f, s)
             end == s + len
  <2>1. s \in Nat /\ len \in Nat \ {0} /\ end <= CodeLen(f)
    BY <1>3
  <2> SUFFICES ASSUME end # CodeLen(f) PROVE end \in S
    OBVIOUS
  <2>2. end \in 0 .. CodeLen(f) - 1 /\ end - 1 \in 0 .. CodeLen(f) - 1
    BY <1>1, <2>1
  <2>3. PICK t \in S : Covers(f, t, end)
    BY <1>2, <2>2
  <2>4. t \in Nat /\ InstrLen(f, t) \in Nat
    BY <1>3
  <2>5. CASE t = end
    BY <2>5
  <2>6. CASE t # end
    <3>1. Covers(f, t, end - 1) /\ Covers(f, s, end - 1)
      BY <2>1, <2>3, <2>4, <2>6 DEF Covers
    <3>2. t = s
      BY <1>2, <2>2, <3>1
    <3> QED BY <2>1, <2>3, <3>2 DEF Covers
  <2> QED BY <2>5, <2>6
<1> QED BY <1>1, <1>3, <1>4, <1>5

\* Tiles of one tiling do not overlap.
LEMMA TilesApart ==
  ASSUME mod \in Modules, NEW f \in FuncIdx, NEW S \in Tilings(f), NEW s \in S, NEW t \in S,
         s <= t, t < s + InstrLen(f, s)
  PROVE  t = s
<1>1. /\ s \in Nat /\ t \in Nat /\ t < CodeLen(f) /\ InstrLen(f, t) \in Nat \ {0}
      /\ CodeLen(f) \in Nat
  BY NextTile
<1>2. Covers(f, t, t) /\ Covers(f, s, t)
  BY <1>1 DEF Covers
<1>3. t \in 0 .. CodeLen(f) - 1
  BY <1>1
<1>4. \E u \in S : \A v \in S : Covers(f, v, t) => v = u
  BY <1>3 DEF Tilings, Tiled, Covers
<1> QED BY <1>2, <1>4

\* One more instruction behind the tiles found.
LEMMA OneMoreTile ==
  ASSUME NEW f, NEW S, S \subseteq Nat, NEW upto \in Nat, NEW len \in Nat \ {0},
         \A s \in S : InstrLen(f, s) \in Nat,
         TiledTo(f, S, upto), InstrOk(f, upto), InstrLen(f, upto) = len
  PROVE  TiledTo(f, S \cup {upto}, upto + len)
<1>1. \A s \in S : s \in Nat /\ s + InstrLen(f, s) <= upto /\ InstrOk(f, s)
  BY DEF TiledTo
<1>2. \A s \in S \cup {upto} : InstrOk(f, s) /\ s + InstrLen(f, s) <= upto + len
  BY <1>1
<1>3. ASSUME NEW at \in 0 .. upto + len - 1
      PROVE  \E s \in S \cup {upto} :
               Covers(f, s, at) /\ \A t \in S \cup {upto} : Covers(f, t, at) => t = s
  <2>1. CASE at < upto
    <3>1. at \in 0 .. upto - 1
      BY <2>1
    <3>2. PICK s \in S : Covers(f, s, at) /\ \A t \in S : Covers(f, t, at) => t = s
      BY <3>1 DEF TiledTo
    <3>3. ~Covers(f, upto, at)
      BY <2>1 DEF Covers
    <3> QED BY <3>2, <3>3
  <2>2. CASE ~(at < upto)
    <3>1. Covers(f, upto, at)
      BY <2>2 DEF Covers
    <3>2. \A t \in S : ~Covers(f, t, at)
      BY <1>1, <2>2 DEF Covers
    <3> QED BY <3>1, <3>2
  <2> QED BY <2>1, <2>2
<1> QED BY <1>2, <1>3 DEF TiledTo

\* The module does not change, so neither does what tiles it.
LEMMA SameTiles ==
  ASSUME UNCHANGED mod
  PROVE  \A f \in FuncIdx : /\ Tilings(f)' = Tilings(f)
                            /\ WellFormed(f)' = WellFormed(f)
                            /\ \A S, u : TiledTo(f, S, u)' = TiledTo(f, S, u)
<1> SUFFICES ASSUME NEW f \in FuncIdx
             PROVE  /\ Tilings(f)' = Tilings(f)
                    /\ WellFormed(f)' = WellFormed(f)
                    /\ \A S, u : TiledTo(f, S, u)' = TiledTo(f, S, u)
  OBVIOUS
<1>1. /\ CodeLen(f)' = CodeLen(f) /\ \A s : InstrOk(f, s)' = InstrOk(f, s)
      /\ \A s : InstrLen(f, s)' = InstrLen(f, s)
      /\ \A s : JumpsOf(f, s)' = JumpsOf(f, s)
      /\ NumRegs(f)' = NumRegs(f) /\ Fn(f)' = Fn(f)
  BY SameModule DEF NumRegs, Fn
<1>2. \A S : Tiled(f, S)' = Tiled(f, S)
  BY <1>1 DEF Tiled
<1>3. Tilings(f)' = Tilings(f)
  BY <1>1, <1>2 DEF Tilings
<1>4. WellFormed(f)' = WellFormed(f)
  BY <1>1, <1>2 DEF WellFormed
<1>5. \A S, u : TiledTo(f, S, u)' = TiledTo(f, S, u)
  BY <1>1 DEF TiledTo, Covers
<1> QED BY <1>3, <1>4, <1>5

\* The starts found in a function that is not at hand stay what they are.
LEMMA StillTiled ==
  ASSUME UNCHANGED mod, NEW f \in FuncIdx, TiledTo(f, is_start[f], CodeLen(f)),
         is_start'[f] = is_start[f]
  PROVE  TiledTo(f, is_start[f], CodeLen(f))'
BY SameModule, SameTiles

\* A rejection stays justified.
LEMMA StillIllFormed ==
  ASSUME UNCHANGED mod, NEW f \in FuncIdx, ~WellFormed(f), verdict' = "err"
  PROVE  SweepInv'
<1>1. FuncIdx' = FuncIdx
  BY SameModule
<1>2. ~(WellFormed(f)')
  BY SameTiles
<1> QED BY <1>1, <1>2 DEF SweepInv

\* What is well formed has a tiling, and its jumps go from tile to tile.
LEMMA WellFormedIs ==
  ASSUME NEW f, WellFormed(f)
  PROVE  /\ Fn(f).num_params <= NumRegs(f)
         /\ \E S \in Tilings(f) : \A s \in S : \A j \in JumpsOf(f, s) : j[1] + j[2] \in S
BY DEF WellFormed, Tilings

LEMMA SweepEnter ==
  ASSUME VerifierType, VerifierInv, SweepInv, EnterFn, UNCHANGED mod PROVE SweepInv'
<1>1. /\ verdict = "pending" /\ pass = "enter" /\ vfn < Len(mod.funcs)
      /\ mod \in Modules /\ vfn \in 0 .. Len(mod.funcs) /\ is_start' = is_start
  BY DEF EnterFn, Pending, VerifierType, Reject
<1>2. Len(mod.funcs) \in Nat /\ vfn \in FuncIdx /\ FuncIdx' = FuncIdx
  BY <1>1, ModuleFacts, SameModule DEF FuncIdx
<1>3. CASE NumRegs(vfn) < Fn(vfn).num_params
  <2>1. ~WellFormed(vfn)
    <3>1. NumRegs(vfn) \in Byte /\ Fn(vfn).num_params \in Byte
      BY <1>1, <1>2, ModuleFacts
    <3>2. ~(Fn(vfn).num_params <= NumRegs(vfn))
      <4>1. \A r, p \in Byte : r < p => ~(p <= r)
        BY DEF Byte
      <4> QED BY <1>3, <3>1, <4>1
    <3> QED BY <3>2, WellFormedIs
  <2>2. verdict' = "err"
    BY <1>3 DEF EnterFn, Reject
  <2> QED BY <1>1, <1>2, <2>1, <2>2, StillIllFormed
<1>4. CASE ~(NumRegs(vfn) < Fn(vfn).num_params)
  <2>1. vfn' = vfn /\ verdict' = "pending" /\ pass' = "decode" /\ vpc' = 0 /\ jumps' = {}
    BY <1>1, <1>4 DEF EnterFn
  <2>2. is_start[vfn] = {}
    BY <1>1, <1>2 DEF VerifierInv
  <2>3. TiledTo(vfn, {}, 0) /\ TiledTo(vfn, {}, 0)'
    BY DEF TiledTo
  <2>4. Follows(vfn)'
    <3>1. \A S \in Tilings(vfn) : 0 \in S \cup {CodeLen(vfn)} /\ \A t \in S : ~(t < 0)
      BY <1>1, <1>2, NextTile
    <3> QED BY <1>2, <2>1, <3>1, SameTiles, SameModule DEF Follows
  <2>5. Recorded(vfn)'
    BY <2>1 DEF Recorded
  <2>6. \A f \in FuncIdx : f < vfn => TiledTo(f, is_start[f], CodeLen(f))'
    BY <1>1, StillTiled DEF SweepInv
  <2>7. TiledTo(vfn, is_start[vfn], vpc)'
    BY <1>1, <1>2, <2>1, <2>2, <2>3, SameTiles
  <2> QED BY <1>2, <2>1, <2>4, <2>5, <2>6, <2>7 DEF SweepInv
<1> QED BY <1>3, <1>4

LEMMA SweepDecode ==
  ASSUME VerifierType, VerifierInv, SweepInv, DecodeInstr, UNCHANGED mod PROVE SweepInv'
<1>1. /\ verdict = "pending" /\ pass = "decode" /\ mod \in Modules /\ vfn \in FuncIdx
      /\ vpc \in Nat /\ vpc < CodeLen(vfn) /\ is_start \in [FuncIdx -> SUBSET Nat]
  BY DEF DecodeInstr, Pending, VerifierType
<1>2. FuncIdx' = FuncIdx /\ CodeLen(vfn) \in Nat
  BY <1>1, ModuleFacts, SameModule
<1>3. TiledTo(vfn, is_start[vfn], vpc) /\ Follows(vfn) /\ Recorded(vfn)
  BY <1>1 DEF SweepInv
<1>4. CASE ~InstrOk(vfn, vpc)
  <2>1. ~WellFormed(vfn)
    <3>1. ASSUME NEW S \in Tilings(vfn) PROVE FALSE
      <4>1. vpc \in S
        BY <1>1, <1>2, <1>3 DEF Follows
      <4> QED BY <1>1, <1>4, <4>1, NextTile
    <3> QED BY <3>1, WellFormedIs
  <2>2. verdict' = "err"
    BY <1>4 DEF DecodeInstr, Reject
  <2> QED BY <1>1, <1>2, <2>1, <2>2, StillIllFormed
<1>5. CASE InstrOk(vfn, vpc)
  <2>1. /\ vfn' = vfn /\ verdict' = "pending" /\ pass' = "decode"
        /\ vpc' = vpc + InstrLen(vfn, vpc) /\ jumps' = jumps \cup JumpsOf(vfn, vpc)
        /\ is_start' = [is_start EXCEPT ![vfn] = @ \cup {vpc}]
    BY <1>1, <1>5 DEF DecodeInstr
  <2>2. is_start'[vfn] = is_start[vfn] \cup {vpc}
    BY <1>1, <2>1
  <2>3. InstrLen(vfn, vpc) \in Nat \ {0}
    BY <1>1, <1>5, AcceptedInstr
  <2>4. \A s \in is_start[vfn] : s \in Nat /\ InstrLen(vfn, s) \in Nat
    <3>1. \A s \in is_start[vfn] : s \in Nat /\ s < CodeLen(vfn) /\ InstrOk(vfn, s)
      BY <1>1 DEF VerifierInv, Decoding, Swept
    <3> QED BY <1>1, <3>1, AcceptedInstr
  <2>5. TiledTo(vfn, is_start[vfn] \cup {vpc}, vpc + InstrLen(vfn, vpc))
    BY <1>1, <1>3, <1>5, <2>3, <2>4, OneMoreTile
  <2>6. TiledTo(vfn, is_start[vfn], vpc)'
    BY <1>1, <2>1, <2>2, <2>5, SameTiles
  <2>7. Follows(vfn)'
    <3>1. ASSUME NEW S \in Tilings(vfn)
          PROVE  /\ vpc' \in S \cup {CodeLen(vfn)}
                 /\ \A t \in S : t < vpc' => t \in is_start'[vfn]
      <4>1. vpc \in S /\ \A t \in S : t < vpc => t \in is_start[vfn]
        BY <1>1, <1>2, <1>3 DEF Follows
      <4>2. vpc' \in S \cup {CodeLen(vfn)} /\ S \subseteq Nat
        BY <1>1, <2>1, <4>1, NextTile
      <4>3. ASSUME NEW t \in S, t < vpc' PROVE t \in is_start'[vfn]
        <5>1. CASE t < vpc
          BY <2>2, <4>1, <5>1
        <5>2. CASE ~(t < vpc)
          <6>1. vpc <= t /\ t < vpc + InstrLen(vfn, vpc)
            BY <1>1, <2>1, <4>2, <4>3, <5>2
          <6>2. t = vpc
            BY <1>1, <4>1, <6>1, TilesApart
          <6> QED BY <2>2, <6>2
        <5> QED BY <5>1, <5>2
      <4> QED BY <4>2, <4>3
    <3> QED BY <1>1, <2>1, <3>1, SameTiles, SameModule DEF Follows
  <2>8. Recorded(vfn)'
    <3>1. \A s : JumpsOf(vfn, s)' = JumpsOf(vfn, s)
      BY <1>1, <2>1, SameModule
    <3> QED BY <1>3, <2>1, <2>2, <3>1 DEF Recorded
  <2>9. ASSUME NEW f \in FuncIdx, f < vfn PROVE TiledTo(f, is_start[f], CodeLen(f))'
    <3>1. f # vfn
      BY <1>1, <2>9, ModuleFacts DEF FuncIdx
    <3>2. is_start'[f] = is_start[f]
      BY <1>1, <2>1, <3>1
    <3> QED BY <1>1, <2>9, <3>2, StillTiled DEF SweepInv
  <2> QED BY <1>2, <2>1, <2>6, <2>7, <2>8, <2>9 DEF SweepInv
<1> QED BY <1>4, <1>5

LEMMA SweepDecoded ==
  ASSUME VerifierType, VerifierInv, SweepInv, DecodeDone, UNCHANGED mod PROVE SweepInv'
<1>1. /\ verdict = "pending" /\ pass = "decode" /\ mod \in Modules /\ vfn \in FuncIdx
      /\ vpc \in Nat /\ vpc >= CodeLen(vfn) /\ pass' = "jumps"
      /\ UNCHANGED <<verdict, vfn, vpc, is_start, jumps>>
  BY DEF DecodeDone, Pending, VerifierType
<1>2. FuncIdx' = FuncIdx /\ CodeLen(vfn) \in Nat /\ vpc <= CodeLen(vfn)
  BY <1>1, ModuleFacts, SameModule DEF VerifierInv, Decoding
<1>3. vpc = CodeLen(vfn)
  BY <1>1, <1>2
<1>4. TiledTo(vfn, is_start[vfn], CodeLen(vfn)) /\ Follows(vfn) /\ Recorded(vfn)
  BY <1>1, <1>3 DEF SweepInv
<1>5. \A f \in FuncIdx : f < vfn \/ f = vfn => TiledTo(f, is_start[f], CodeLen(f))'
  BY <1>1, <1>4, StillTiled DEF SweepInv
<1>6. \A S \in Tilings(vfn) : S \subseteq is_start[vfn]
  BY <1>1, <1>3, <1>4, NextTile DEF Follows
<1>7. (\A S \in Tilings(vfn) : S \subseteq is_start[vfn])' /\ Recorded(vfn)'
  BY <1>1, <1>4, <1>6, SameTiles, SameModule DEF Recorded
<1> QED BY <1>1, <1>2, <1>5, <1>7 DEF SweepInv

LEMMA SweepResolve ==
  ASSUME VerifierType, VerifierInv, SweepInv, ResolveJump, UNCHANGED mod PROVE SweepInv'
<1>1. verdict = "pending" /\ pass = "jumps" /\ mod \in Modules /\ vfn \in FuncIdx
  BY DEF ResolveJump, Pending, VerifierType
<1>2. FuncIdx' = FuncIdx /\ CodeLen(vfn) \in Nat
  BY <1>1, ModuleFacts, SameModule
<1>3. /\ TiledTo(vfn, is_start[vfn], CodeLen(vfn)) /\ Recorded(vfn)
      /\ \A S \in Tilings(vfn) : S \subseteq is_start[vfn]
  BY <1>1 DEF SweepInv
<1>4. PICK j \in jumps :
        IF ~TargetOk(vfn, j[1] + j[2]) THEN Reject
        ELSE jumps' = jumps \ {j} /\ UNCHANGED <<verdict, vfn, pass, vpc, is_start>>
  BY DEF ResolveJump
<1>5. CASE ~TargetOk(vfn, j[1] + j[2])
  <2>1. ~WellFormed(vfn)
    <3> SUFFICES ASSUME WellFormed(vfn) PROVE FALSE
      OBVIOUS
    <3>1. PICK S \in Tilings(vfn) : \A s \in S : \A k \in JumpsOf(vfn, s) : k[1] + k[2] \in S
      BY WellFormedIs
    <3>2. S \subseteq is_start[vfn]
      BY <1>3
    <3>3. PICK s \in is_start[vfn] : j \in JumpsOf(vfn, s)
      BY <1>3 DEF Recorded
    <3>4. /\ s \in Nat /\ s < CodeLen(vfn) /\ InstrOk(vfn, s)
          /\ \A t \in is_start[vfn] : t \in Nat /\ t < CodeLen(vfn) /\ InstrOk(vfn, t)
      BY <1>1, <3>3 DEF VerifierType, VerifierInv, Resolving, Swept
    <3>5. s \in S
      <4>1. s \in 0 .. CodeLen(vfn) - 1
        BY <1>2, <3>4
      <4>2. PICK t \in S : Covers(vfn, t, s)
        BY <4>1 DEF Tilings, Tiled, Covers
      <4>3. t \in is_start[vfn]
        BY <3>2, <4>2
      <4>4. Covers(vfn, s, s)
        <5>1. InstrLen(vfn, s) \in Nat \ {0}
          BY <1>1, <3>4, AcceptedInstr
        <5> QED BY <3>4, <5>1 DEF Covers
      <4>5. s = t
        BY <1>3, <3>3, <4>1, <4>2, <4>3, <4>4 DEF TiledTo
      <4> QED BY <4>5
    <3>6. j[1] + j[2] \in S
      BY <3>1, <3>3, <3>5
    <3>7. TargetOk(vfn, j[1] + j[2])
      BY <3>2, <3>4, <3>6 DEF TargetOk
    <3> QED BY <1>5, <3>7
  <2>2. verdict' = "err"
    BY <1>4, <1>5 DEF Reject
  <2> QED BY <1>1, <1>2, <2>1, <2>2, StillIllFormed
<1>6. CASE TargetOk(vfn, j[1] + j[2])
  <2>1. jumps' = jumps \ {j} /\ UNCHANGED <<verdict, vfn, pass, vpc, is_start>>
    BY <1>4, <1>6
  <2>2. \A f \in FuncIdx : f < vfn \/ f = vfn => TiledTo(f, is_start[f], CodeLen(f))'
    BY <1>1, <1>3, <2>1, StillTiled DEF SweepInv
  <2>3. (\A S \in Tilings(vfn) : S \subseteq is_start[vfn])' /\ Recorded(vfn)'
    BY <1>1, <1>3, <2>1, SameTiles, SameModule DEF Recorded
  <2> QED BY <1>1, <1>2, <2>1, <2>2, <2>3 DEF SweepInv
<1> QED BY <1>5, <1>6

LEMMA SweepDone ==
  ASSUME VerifierType, VerifierInv, SweepInv, FnDone \/ Accept, UNCHANGED mod PROVE SweepInv'
<1>1. mod \in Modules /\ FuncIdx' = FuncIdx /\ Len(mod.funcs) \in Nat /\ is_start' = is_start
      /\ verdict = "pending" /\ vfn \in 0 .. Len(mod.funcs)
  BY SameModule, ModuleFacts DEF VerifierType, FnDone, Accept, Pending
<1>2. CASE FnDone
  <2>1. pass = "jumps" /\ pass' = "enter" /\ vfn' = vfn + 1 /\ verdict' = "pending"
    BY <1>1, <1>2 DEF FnDone
  <2>2. \A f \in FuncIdx : f < vfn' => f < vfn \/ f = vfn
    BY <1>1, <2>1 DEF FuncIdx
  <2>3. \A f \in FuncIdx : f < vfn' => TiledTo(f, is_start[f], CodeLen(f))'
    BY <1>1, <2>1, <2>2, StillTiled DEF SweepInv
  <2> QED BY <1>1, <2>1, <2>3 DEF SweepInv
<1>3. CASE Accept
  <2>1. vfn = Len(mod.funcs) /\ verdict' = "ok"
    BY <1>3 DEF Accept
  <2>2. \A f \in FuncIdx : f < vfn
    BY <1>1, <2>1 DEF FuncIdx
  <2>3. \A f \in FuncIdx : TiledTo(f, is_start[f], CodeLen(f))'
    BY <1>1, <2>2, StillTiled DEF SweepInv
  <2> QED BY <1>1, <2>1, <2>3 DEF SweepInv
<1> QED BY <1>2, <1>3

LEMMA SweepRests ==
  ASSUME SweepInv, UNCHANGED <<mod, vvars>> PROVE SweepInv'
<1>1. UNCHANGED mod /\ UNCHANGED <<verdict, vfn, pass, vpc, is_start, jumps>>
  BY DEF vvars
<1>2. FuncIdx' = FuncIdx
  BY <1>1, SameModule
<1>3. \A f \in FuncIdx :
        /\ TiledTo(f, is_start[f], CodeLen(f))' = TiledTo(f, is_start[f], CodeLen(f))
        /\ TiledTo(f, is_start[f], vpc)' = TiledTo(f, is_start[f], vpc)
        /\ Follows(f)' = Follows(f) /\ Recorded(f)' = Recorded(f)
        /\ Tilings(f)' = Tilings(f) /\ WellFormed(f)' = WellFormed(f)
  BY <1>1, SameTiles, SameModule DEF Follows, Recorded
<1> QED BY <1>1, <1>2, <1>3 DEF SweepInv

LEMMA SweepStep == IInv /\ SweepInv /\ [Next]_vars => SweepInv'
<1> SUFFICES ASSUME IInv, SweepInv, [Next]_vars PROVE SweepInv'
  OBVIOUS
<1>1. VerifierType /\ VerifierInv
  BY DEF IInv, TypeOK
<1>2. CASE Verify
  <2>1. UNCHANGED mod /\ (EnterFn \/ DecodeInstr \/ DecodeDone \/ ResolveJump \/ FnDone \/ Accept)
    BY <1>2 DEF Verify, VNext
  <2> QED BY <1>1, <2>1, SweepEnter, SweepDecode, SweepDecoded, SweepResolve, SweepDone
<1>3. CASE Run \/ UNCHANGED vars
  <2>1. UNCHANGED <<mod, vvars>>
    BY <1>3 DEF Run, INext, vars
  <2> QED BY <2>1, SweepRests
<1> QED BY <1>2, <1>3 DEF Next, Rest

LEMMA SweepExact == IInv /\ SweepInv => VerdictExact
<1> SUFFICES ASSUME IInv, SweepInv, verdict = "ok", NEW f \in FuncIdx PROVE WellFormed(f)
  BY DEF VerdictExact, SweepInv
<1>1. Checked(f) /\ TiledTo(f, is_start[f], CodeLen(f)) /\ mod \in Modules
  BY DEF IInv, TypeOK, VerifierType, VerifierInv, SweepInv
<1>2. is_start[f] \subseteq 0 .. CodeLen(f) - 1
  <2>1. CodeLen(f) \in Nat /\ is_start[f] \subseteq Nat
    BY <1>1, ModuleFacts DEF IInv, TypeOK, VerifierType
  <2>2. \A s \in is_start[f] : s < CodeLen(f)
    BY <1>1 DEF Checked, Swept
  <2> QED BY <2>1, <2>2
<1>3. Tiled(f, is_start[f])
  BY <1>1 DEF TiledTo, Tiled, Covers
<1> QED BY <1>1, <1>2, <1>3 DEF WellFormed, Checked, ParamsFit

HIDE DEF OP_HALT, OP_LOAD_CONST, OP_LOAD_NIL, OP_MOVE, Binary, Unary, Calls,
  Arithmetic, OP_MOD, Equality, Comparison, Bitwise, Shift, OP_NEG, OP_NOT, OP_BNOT,
  OP_NEW_ARRAY, OP_ARRAY_GET, OP_ARRAY_SET, OP_NEW_OBJECT, OP_GET_PROP, OP_SET_PROP,
  OP_ARRAY_PUSH, OP_CALL, OP_RET, OP_CALL_NATIVE, OP_JUMP, OP_JUMP_IF_FALSE, OP_PRINT,
  OP_CLOSURE, OP_GET_UPVAL, OP_CALL_VALUE

-----------------------------------------------------------------------------
(***************************************************************************)
(* The call stack, with the number n of closures made explicit: it is the  *)
(* only part of the state, beside the module and the verifier's result,    *)
(* that a frame's typing depends on.                                       *)
(***************************************************************************)
Boundary(f) == is_start[f] \cup {CodeLen(f)}

ValueN(n) == Plain \cup [tag : {"Closure"}, truthy : {TRUE}, ref : 1 .. n]

ClosureN(n) == [func_index : FuncIdx, upvalues : Seq(ValueN(n))]

FrameN(n) == [fn : FuncIdx, pc : Nat, result_reg : Byte, closure : 0 .. n,
              regs : UNION {[Registers(f) -> ValueN(n)] : f \in FuncIdx}]

GoodFrame(fr, n) ==
  /\ fr \in FrameN(n)
  /\ fr.regs \in [Registers(fr.fn) -> ValueN(n)]
  /\ fr.pc \in Boundary(fr.fn)

Stack(fs, n) ==
  /\ fs \in Seq(FrameN(n))
  /\ \A i \in 1 .. Len(fs) : GoodFrame(fs[i], n)
  /\ \A i \in 1 .. Len(fs) - 1 : fs[i + 1].result_reg \in Registers(fs[i].fn)

\* What every step of a running interpreter may assume.
Sane == VerifierType /\ InterpType /\ VerifierInv /\ FramesInv /\ verdict = "ok"

LEMMA SaneStack ==
  ASSUME Sane
  PROVE  /\ Len(closures) \in Nat /\ closures \in Seq(ClosureN(Len(closures)))
         /\ Stack(frames, Len(closures))
<1> DEFINE n == Len(closures)
<1>0. Frame = FrameN(n) /\ Value = ValueN(n)
  BY DEF Frame, FrameN, Value, ValueN
<1>1. closures \in Seq(ClosureN(n)) /\ frames \in Seq(FrameN(n))
  BY <1>0 DEF Sane, InterpType, ClosureN
<1>2. n \in Nat
  BY <1>1, LenProperties
<1>3. ASSUME NEW i \in 1 .. Len(frames) PROVE GoodFrame(frames[i], n)
  <2>1. frames[i] \in FrameN(n)
    BY <1>1, <1>3, ElementOfSeq
  <2>2. DOMAIN frames[i].regs = Registers(frames[i].fn)
    BY <1>3 DEF Sane, InterpType
  <2>3. frames[i].regs \in [Registers(frames[i].fn) -> ValueN(n)]
    <3>1. PICK f \in FuncIdx : frames[i].regs \in [Registers(f) -> ValueN(n)]
      BY <2>1 DEF FrameN
    <3> QED BY <2>2, <3>1
  <2>4. frames[i].pc \in Boundary(frames[i].fn)
    BY <1>3 DEF Sane, FramesInv, Boundary
  <2> QED BY <2>1, <2>3, <2>4 DEF GoodFrame
<1>4. \A i \in 1 .. Len(frames) - 1 : frames[i + 1].result_reg \in Registers(frames[i].fn)
  BY DEF Sane, FramesInv
<1> QED BY <1>1, <1>2, <1>3, <1>4 DEF Stack

\* A sequence whose elements lie in T is a sequence over T.
LEMMA Resequence ==
  ASSUME NEW S, NEW T, NEW s \in Seq(S), \A i \in 1 .. Len(s) : s[i] \in T
  PROVE  s \in Seq(T)
<1> DEFINE t == SubSeq(s, 1, Len(s))
<1>1. Len(s) \in Nat
  BY LenProperties
<1>2. t \in Seq(T) /\ Len(t) = (IF 1 <= Len(s) THEN Len(s) - 1 + 1 ELSE 0)
      /\ \A i \in 1 .. Len(s) - 1 + 1 : t[i] = s[1 + i - 1]
  BY <1>1, SubSeqProperties
<1>3. Len(t) = Len(s) /\ \A i \in 1 .. Len(s) : t[i] = s[i]
  BY <1>1, <1>2
<1>4. \A i \in 1 .. Len(s) : s[i] \in S
  BY ElementOfSeq
<1>5. s \in Seq(S \cup T) /\ t \in Seq(S \cup T)
  BY <1>2
<1>6. s = t
  BY <1>3, <1>5, SeqEqual
<1> QED BY <1>2, <1>6

\* More closures only make more values.
LEMMA StackGrows ==
  ASSUME NEW fs, NEW n \in Nat, NEW m \in Nat, n <= m, Stack(fs, n)
  PROVE  Stack(fs, m)
<1>1. ValueN(n) \subseteq ValueN(m)
  <2>1. 1 .. n \subseteq 1 .. m
    OBVIOUS
  <2>2. [tag : {"Closure"}, truthy : {TRUE}, ref : 1 .. n]
           \subseteq [tag : {"Closure"}, truthy : {TRUE}, ref : 1 .. m]
    BY <2>1
  <2> QED BY <2>2 DEF ValueN
<1>2. ASSUME NEW fr, fr \in FrameN(n) PROVE fr \in FrameN(m)
  <2>1. PICK f \in FuncIdx : fr.regs \in [Registers(f) -> ValueN(n)]
    BY <1>2 DEF FrameN
  <2>2. fr.regs \in [Registers(f) -> ValueN(m)]
    BY <1>1, <2>1
  <2>3. fr.closure \in 0 .. m
    BY <1>2 DEF FrameN
  <2> QED BY <1>2, <2>2, <2>3 DEF FrameN
<1>3. fs \in Seq(FrameN(m))
  <2>1. /\ fs \in Seq(FrameN(n)) /\ fs = [i \in 1 .. Len(fs) |-> fs[i]] /\ Len(fs) \in Nat
    BY LenProperties DEF Stack
  <2>2. \A i \in 1 .. Len(fs) : fs[i] \in FrameN(m)
    BY <1>2, <2>1, ElementOfSeq
  <2> QED BY <2>1, <2>2, Resequence
<1>4. ASSUME NEW i \in 1 .. Len(fs) PROVE GoodFrame(fs[i], m)
  BY <1>1, <1>2, <1>4 DEF Stack, GoodFrame
<1> QED BY <1>3, <1>4 DEF Stack

\* The top frame changes its pc or its registers.
LEMMA StackTop ==
  ASSUME NEW n \in Nat, NEW fs, Stack(fs, n), fs # <<>>, NEW fr, GoodFrame(fr, n),
         fr.fn = fs[Len(fs)].fn, fr.result_reg = fs[Len(fs)].result_reg
  PROVE  Stack([fs EXCEPT ![Len(fs)] = fr], n)
<1> DEFINE gs == [fs EXCEPT ![Len(fs)] = fr]
<1>1. fs \in Seq(FrameN(n)) /\ fr \in FrameN(n)
  BY DEF Stack, GoodFrame
<1>2. Len(fs) \in Nat \ {0}
  BY <1>1, EmptySeq, LenProperties
<1>3. gs \in Seq(FrameN(n)) /\ Len(gs) = Len(fs)
      /\ \A i \in 1 .. Len(fs) : gs[i] = IF i = Len(fs) THEN fr ELSE fs[i]
  BY <1>1, <1>2, ExceptSeq
<1>4. ASSUME NEW i \in 1 .. Len(fs) PROVE GoodFrame(gs[i], n)
  BY <1>3, <1>4 DEF Stack
<1>5. ASSUME NEW i \in 1 .. Len(fs) - 1
      PROVE gs[i + 1].result_reg \in Registers(gs[i].fn)
  <2>1. i \in 1 .. Len(fs) /\ i + 1 \in 1 .. Len(fs) /\ i # Len(fs)
    BY <1>2
  <2>2. gs[i + 1].result_reg = fs[i + 1].result_reg /\ gs[i] = fs[i]
    BY <1>3, <2>1
  <2> QED BY <1>5, <2>2 DEF Stack
<1> QED BY <1>3, <1>4, <1>5 DEF Stack

LEMMA StackPush ==
  ASSUME NEW n \in Nat, NEW fs, Stack(fs, n), fs # <<>>, NEW fr, GoodFrame(fr, n),
         fr.result_reg \in Registers(fs[Len(fs)].fn)
  PROVE  Stack(Append(fs, fr), n)
<1> DEFINE gs == Append(fs, fr)
<1>1. fs \in Seq(FrameN(n)) /\ fr \in FrameN(n)
  BY DEF Stack, GoodFrame
<1>2. Len(fs) \in Nat \ {0}
  BY <1>1, EmptySeq, LenProperties
<1>3. gs \in Seq(FrameN(n)) /\ Len(gs) = Len(fs) + 1
      /\ (\A i \in 1 .. Len(fs) : gs[i] = fs[i]) /\ gs[Len(fs) + 1] = fr
  BY <1>1, AppendProperties
<1>4. ASSUME NEW i \in 1 .. Len(gs) PROVE GoodFrame(gs[i], n)
  <2>1. i \in 1 .. Len(fs) \/ i = Len(fs) + 1
    BY <1>2, <1>3
  <2> QED BY <1>3, <2>1 DEF Stack
<1>5. ASSUME NEW i \in 1 .. Len(gs) - 1
      PROVE gs[i + 1].result_reg \in Registers(gs[i].fn)
  <2>1. i \in 1 .. Len(fs)
    BY <1>2, <1>3
  <2>2. CASE i = Len(fs)
    BY <1>3, <2>1, <2>2
  <2>3. CASE i # Len(fs)
    <3>1. i \in 1 .. Len(fs) - 1 /\ i + 1 \in 1 .. Len(fs)
      BY <1>2, <2>1, <2>3
    <3> QED BY <1>3, <2>1, <3>1 DEF Stack
  <2> QED BY <2>2, <2>3
<1> QED BY <1>3, <1>4, <1>5 DEF Stack

LEMMA StackPop ==
  ASSUME NEW n \in Nat, NEW fs, Stack(fs, n), fs # <<>>
  PROVE  LET gs == SubSeq(fs, 1, Len(fs) - 1) IN
         /\ Stack(gs, n) /\ Len(gs) = Len(fs) - 1
         /\ \A i \in 1 .. Len(fs) - 1 : gs[i] = fs[i]
<1> DEFINE gs == SubSeq(fs, 1, Len(fs) - 1)
<1>1. fs \in Seq(FrameN(n))
  BY DEF Stack
<1>2. Len(fs) \in Nat \ {0}
  BY <1>1, EmptySeq, LenProperties
<1>3. \A i \in 1 .. Len(fs) - 1 : fs[i] \in FrameN(n)
  BY <1>1, <1>2, ElementOfSeq
<1>4. gs \in Seq(FrameN(n)) /\ Len(gs) = Len(fs) - 1
      /\ \A i \in 1 .. Len(fs) - 1 : gs[i] = fs[i]
  <2>1. /\ gs \in Seq(FrameN(n))
        /\ Len(gs) = IF 1 <= Len(fs) - 1 THEN Len(fs) - 1 - 1 + 1 ELSE 0
        /\ \A i \in 1 .. Len(fs) - 1 - 1 + 1 : gs[i] = fs[1 + i - 1]
    BY <1>2, <1>3, SubSeqProperties
  <2>2. Len(fs) - 1 - 1 + 1 = Len(fs) - 1
    BY <1>2
  <2> HIDE DEF gs
  <2>3. Len(gs) = Len(fs) - 1
    <3>1. \A k \in Nat \ {0} : (IF 1 <= k - 1 THEN k - 1 - 1 + 1 ELSE 0) = k - 1
      OBVIOUS
    <3> QED BY <1>2, <2>1, <3>1
  <2>4. ASSUME NEW i \in 1 .. Len(fs) - 1 PROVE gs[i] = fs[i]
    <3>1. i \in 1 .. Len(fs) - 1 - 1 + 1 /\ 1 + i - 1 = i
      BY <1>2
    <3> QED BY <2>1, <3>1
  <2> QED BY <2>1, <2>3, <2>4
<1>5. ASSUME NEW i \in 1 .. Len(gs) PROVE GoodFrame(gs[i], n)
  <2>1. i \in 1 .. Len(fs) /\ gs[i] = fs[i]
    BY <1>2, <1>4, <1>5
  <2> QED BY <2>1 DEF Stack
<1>6. ASSUME NEW i \in 1 .. Len(gs) - 1
      PROVE gs[i + 1].result_reg \in Registers(gs[i].fn)
  <2>1. i \in 1 .. Len(fs) - 1 /\ i + 1 \in 1 .. Len(fs) - 1
    BY <1>2, <1>4, <1>6
  <2> QED BY <1>4, <2>1 DEF Stack
<1> QED BY <1>4, <1>5, <1>6 DEF Stack

\* What a step of a running interpreter must establish.
StillSane == InterpType' /\ FramesInv'

LEMMA NextStack ==
  ASSUME Sane, UNCHANGED <<mod, vvars>>, NEW fs, NEW n \in Nat, Stack(fs, n),
         frames' = fs, n = Len(closures'), closures' \in Seq(ClosureN(n)),
         status' \in {"running", "done"}, error' \in Errors, insns' \in Nat
  PROVE  StillSane
<1>1. UNCHANGED mod /\ is_start' = is_start /\ verdict' = "ok"
  BY DEF vvars, Sane
<1>2. FuncIdx' = FuncIdx /\ \A f \in FuncIdx : Registers(f)' = Registers(f) /\ CodeLen(f)' = CodeLen(f)
  BY <1>1, SameModule
<1>3. Value' = ValueN(n)
  BY DEF Value, ValueN
<1>4. Frame' = FrameN(n)
  BY <1>2, <1>3 DEF Frame, FrameN
<1>5. ASSUME NEW i \in 1 .. Len(fs)
      PROVE  /\ DOMAIN fs[i].regs = Registers(fs[i].fn)
             /\ fs[i].fn \in FuncIdx
             /\ fs[i].pc \in is_start'[fs[i].fn] \cup {CodeLen(fs[i].fn)}
  BY <1>1, <1>5 DEF Stack, GoodFrame, FrameN, Boundary
<1>6. InterpType'
  <2>1. frames' \in Seq(Frame')
    BY <1>4 DEF Stack
  <2>2. closures' \in Seq([func_index : FuncIdx', upvalues : Seq(Value')])
    BY <1>2, <1>3 DEF ClosureN
  <2>3. (\A i \in 1 .. Len(frames) : DOMAIN frames[i].regs = Registers(frames[i].fn))'
    BY <1>1, <1>5 DEF Registers, NumRegs, Fn
  <2> QED BY <2>1, <2>2, <2>3 DEF InterpType
<1>7. FramesInv'
  <2>1. (\A i \in 1 .. Len(frames) :
           frames[i].pc \in is_start[frames[i].fn] \cup {CodeLen(frames[i].fn)})'
    BY <1>1, <1>5 DEF CodeLen, Fn
  <2>2. (\A i \in 1 .. Len(frames) - 1 :
           frames[i + 1].result_reg \in Registers(frames[i].fn))'
    BY <1>1 DEF Stack, Registers, NumRegs, Fn
  <2> QED BY <1>1, <2>1, <2>2 DEF FramesInv
<1> QED BY <1>6, <1>7 DEF StillSane

\* The instruction at the top frame's pc, as the verifier has checked it.
LEMMA Fetched ==
  ASSUME Sane, Looping
  PROVE  /\ Len(frames) \in Nat \ {0} /\ GoodFrame(Top, Len(closures))
         /\ Top.fn \in FuncIdx /\ Top.pc \in Nat
         /\ Top.pc < CodeLen(Top.fn) =>
              /\ SafeInstr(Top.fn, Top.pc) /\ Op \in Byte
              /\ \A k \in 1 .. Size(Top.fn, Top.pc) - 1 : At(k) \in Byte
              /\ Size(Top.fn, Top.pc) \in Nat \ {0}
              /\ Top.pc + Size(Top.fn, Top.pc) \in Boundary(Top.fn)
              /\ JumpsOf(Top.fn, Top.pc) \subseteq Nat \X Int
              /\ \A j \in JumpsOf(Top.fn, Top.pc) : j[1] + j[2] \in is_start[Top.fn]
<1>1. Stack(frames, Len(closures)) /\ frames # <<>>
  BY SaneStack DEF Looping
<1>2. Len(frames) \in Nat \ {0}
  BY <1>1, EmptySeq DEF Stack
<1>3. GoodFrame(Top, Len(closures))
  BY <1>1, <1>2 DEF Stack, Top
<1>4. Top.fn \in FuncIdx /\ Top.pc \in Nat /\ Top.pc \in Boundary(Top.fn)
  BY <1>3 DEF GoodFrame, FrameN
<1>5. mod \in Modules
  BY DEF Sane, VerifierType
<1>6. ASSUME Top.pc < CodeLen(Top.fn)
      PROVE  /\ SafeInstr(Top.fn, Top.pc) /\ Op \in Byte
             /\ \A k \in 1 .. Size(Top.fn, Top.pc) - 1 : At(k) \in Byte
             /\ Size(Top.fn, Top.pc) \in Nat \ {0}
             /\ Top.pc + Size(Top.fn, Top.pc) \in Boundary(Top.fn)
             /\ JumpsOf(Top.fn, Top.pc) \subseteq Nat \X Int
             /\ \A j \in JumpsOf(Top.fn, Top.pc) : j[1] + j[2] \in is_start[Top.fn]
  <2>1. Checked(Top.fn)
    BY <1>4 DEF Sane, VerifierInv
  <2>2. CodeLen(Top.fn) \in Nat
    BY <1>4, <1>5, ModuleFacts
  <2>3. Top.pc \in is_start[Top.fn]
    BY <1>4, <1>6, <2>2 DEF Boundary
  <2>4. /\ InstrOk(Top.fn, Top.pc)
        /\ Top.pc + InstrLen(Top.fn, Top.pc) \in Boundary(Top.fn)
    BY <2>1, <2>3 DEF Checked, Swept, Boundary
  <2>5. /\ SafeInstr(Top.fn, Top.pc) /\ InstrLen(Top.fn, Top.pc) = Size(Top.fn, Top.pc)
        /\ InstrLen(Top.fn, Top.pc) \in Nat \ {0}
        /\ Top.pc + InstrLen(Top.fn, Top.pc) <= CodeLen(Top.fn)
        /\ JumpsOf(Top.fn, Top.pc) \subseteq Nat \X Int
    BY <1>4, <1>5, <1>6, <2>4, AcceptedInstr
  <2>6. Op \in Byte
    <3>1. Top.pc \in 0 .. CodeLen(Top.fn) - 1
      BY <1>4, <1>6, <2>2
    <3> QED BY <1>4, <1>5, <3>1, ModuleFacts DEF Op
  <2>7. ASSUME NEW k \in 1 .. Size(Top.fn, Top.pc) - 1 PROVE At(k) \in Byte
    <3>1. Top.pc + k \in 0 .. CodeLen(Top.fn) - 1
      BY <1>4, <2>2, <2>5
    <3> QED BY <1>4, <1>5, <3>1, ModuleFacts DEF At
  <2>8. \A j \in JumpsOf(Top.fn, Top.pc) : j[1] + j[2] \in is_start[Top.fn]
    BY <2>1, <2>3 DEF Checked
  <2> QED BY <2>4, <2>5, <2>6, <2>7, <2>8
<1> QED BY <1>2, <1>3, <1>4, <1>6

\* What the two ways of updating a frame give.
LEMMA Updated ==
  ASSUME NEW n, NEW fr, GoodFrame(fr, n)
  PROVE  /\ \A size, pc : pc = fr.pc + size /\ pc \in Nat /\ pc \in Boundary(fr.fn) =>
              /\ GoodFrame(Advance(fr, size), n)
              /\ Advance(fr, size).fn = fr.fn
              /\ Advance(fr, size).result_reg = fr.result_reg
         /\ \A r, v : r \in Registers(fr.fn) /\ v \in ValueN(n) =>
              /\ GoodFrame(SetReg(fr, r, v), n)
              /\ SetReg(fr, r, v).fn = fr.fn /\ SetReg(fr, r, v).pc = fr.pc
              /\ SetReg(fr, r, v).result_reg = fr.result_reg
<1>0. /\ fr \in FrameN(n) /\ fr.regs \in [Registers(fr.fn) -> ValueN(n)]
      /\ fr.pc \in Boundary(fr.fn) /\ fr.fn \in FuncIdx
  BY DEF GoodFrame, FrameN
<1>1. ASSUME NEW size, NEW pc \in Nat, pc = fr.pc + size, pc \in Boundary(fr.fn)
      PROVE  /\ GoodFrame(Advance(fr, size), n)
             /\ Advance(fr, size).fn = fr.fn
             /\ Advance(fr, size).result_reg = fr.result_reg
  <2>1. Advance(fr, size) = [fr EXCEPT !.pc = pc]
    BY <1>0, <1>1 DEF Advance
  <2>2. /\ [fr EXCEPT !.pc = pc] \in FrameN(n) /\ [fr EXCEPT !.pc = pc].fn = fr.fn
        /\ [fr EXCEPT !.pc = pc].pc = pc /\ [fr EXCEPT !.pc = pc].regs = fr.regs
        /\ [fr EXCEPT !.pc = pc].result_reg = fr.result_reg
    BY <1>0 DEF FrameN
  <2> QED BY <1>0, <1>1, <2>1, <2>2 DEF GoodFrame
<1>2. ASSUME NEW r \in Registers(fr.fn), NEW v \in ValueN(n)
      PROVE  /\ GoodFrame(SetReg(fr, r, v), n)
             /\ SetReg(fr, r, v).fn = fr.fn /\ SetReg(fr, r, v).pc = fr.pc
             /\ SetReg(fr, r, v).result_reg = fr.result_reg
  <2> DEFINE regs == [fr.regs EXCEPT ![r] = v]
  <2>1. SetReg(fr, r, v) = [fr EXCEPT !.regs = regs]
    BY <1>0 DEF SetReg
  <2>2. regs \in [Registers(fr.fn) -> ValueN(n)]
    BY <1>0
  <2>3. regs \in UNION {[Registers(f) -> ValueN(n)] : f \in FuncIdx}
    BY <1>0, <2>2
  <2> HIDE DEF regs
  <2>4. /\ [fr EXCEPT !.regs = regs] \in FrameN(n) /\ [fr EXCEPT !.regs = regs].fn = fr.fn
        /\ [fr EXCEPT !.regs = regs].pc = fr.pc /\ [fr EXCEPT !.regs = regs].regs = regs
        /\ [fr EXCEPT !.regs = regs].result_reg = fr.result_reg
    BY <1>0, <2>3 DEF FrameN
  <2> QED BY <1>0, <2>1, <2>2, <2>4 DEF GoodFrame
<1> QED BY <1>1, <1>2

\* A boundary is an offset into the code.
LEMMA BoundaryNat ==
  ASSUME VerifierType, NEW f \in FuncIdx PROVE Boundary(f) \subseteq Nat
<1>1. is_start[f] \subseteq Nat /\ CodeLen(f) \in Nat
  BY ModuleFacts DEF VerifierType
<1> QED BY <1>1 DEF Boundary

-----------------------------------------------------------------------------
(***************************************************************************)
(* The interpreter's ways of changing the stack.                           *)
(***************************************************************************)
LEMMA KeepStep ==
  ASSUME Sane, UNCHANGED <<mod, vvars>>, UNCHANGED <<frames, closures>>,
         status' \in {"running", "done"}, error' \in Errors, insns' \in Nat
  PROVE  StillSane
BY SaneStack, NextStack

LEMMA PutStep ==
  ASSUME Sane, UNCHANGED <<mod, vvars>>, Looping, insns' \in Nat,
         NEW r \in Registers(Top.fn), NEW m \in Nat, NEW v \in ValueN(m), NEW size,
         Top.pc + size \in Boundary(Top.fn), Put(r, v, size),
         m = Len(closures'), Len(closures) <= m, closures' \in Seq(ClosureN(m))
  PROVE  StillSane
<1> DEFINE fr == Advance(SetReg(Top, r, v), size)
<1>1. /\ Stack(frames, Len(closures)) /\ Len(closures) \in Nat /\ frames # <<>>
      /\ Len(frames) \in Nat \ {0} /\ GoodFrame(Top, Len(closures)) /\ Top.fn \in FuncIdx
  BY SaneStack, Fetched DEF Looping
<1>2. Stack(frames, m) /\ GoodFrame(Top, m)
  <2>1. Stack(frames, m)
    BY <1>1, StackGrows
  <2> QED BY <1>1, <2>1 DEF Stack, Top
<1>6. GoodFrame(fr, m) /\ fr.fn = Top.fn /\ fr.result_reg = Top.result_reg
  <2>1. Top.pc + size \in Nat
    BY <1>1, BoundaryNat DEF Sane
  <2>2. /\ GoodFrame(SetReg(Top, r, v), m) /\ SetReg(Top, r, v).fn = Top.fn
        /\ SetReg(Top, r, v).pc = Top.pc /\ SetReg(Top, r, v).result_reg = Top.result_reg
    BY <1>2, Updated
  <2> QED BY <2>1, <2>2, Updated
<1>7. Stack([frames EXCEPT ![Len(frames)] = fr], m)
  BY <1>1, <1>2, <1>6, StackTop DEF Top
<1>8. frames' = [frames EXCEPT ![Len(frames)] = fr] /\ UNCHANGED <<status, error>>
  BY DEF Put, Top
<1>9. status' \in {"running", "done"} /\ error' \in Errors
  BY <1>8 DEF Looping, Sane, InterpType
<1> HIDE DEF fr
<1> QED BY <1>7, <1>8, <1>9, NextStack

LEMMA SkipStep ==
  ASSUME Sane, UNCHANGED <<mod, vvars>>, Looping, insns' \in Nat, NEW delta,
         Top.pc + delta \in Boundary(Top.fn), Skip(delta)
  PROVE  StillSane
<1> DEFINE fr == Advance(Top, delta)
           m == Len(closures)
<1>1. /\ Stack(frames, m) /\ m \in Nat /\ frames # <<>> /\ closures \in Seq(ClosureN(m))
      /\ Len(frames) \in Nat \ {0} /\ GoodFrame(Top, m) /\ Top.fn \in FuncIdx
  BY SaneStack, Fetched DEF Looping
<1>6. GoodFrame(fr, m) /\ fr.fn = Top.fn /\ fr.result_reg = Top.result_reg
  <2>1. Top.pc + delta \in Nat
    BY <1>1, BoundaryNat DEF Sane
  <2> QED BY <1>1, <2>1, Updated
<1>7. Stack([frames EXCEPT ![Len(frames)] = fr], m)
  BY <1>1, <1>6, StackTop DEF Top
<1>8. frames' = [frames EXCEPT ![Len(frames)] = fr] /\ UNCHANGED <<status, error, closures>>
  BY DEF Skip, Top
<1>9. status' \in {"running", "done"} /\ error' \in Errors
  BY <1>8 DEF Looping, Sane, InterpType
<1> HIDE DEF fr
<1> QED BY <1>1, <1>7, <1>8, <1>9, NextStack

LEMMA EmptyStep ==
  ASSUME Sane, UNCHANGED <<mod, vvars>>, frames' = <<>>, closures' = closures,
         status' \in {"running", "done"}, error' \in Errors, insns' \in Nat
  PROVE  StillSane
<1>1. Len(closures) \in Nat /\ closures \in Seq(ClosureN(Len(closures)))
  BY SaneStack
<1>2. Stack(<<>>, Len(closures))
  BY EmptySeq DEF Stack
<1> QED BY <1>1, <1>2, NextStack

LEMMA ReturnStep ==
  ASSUME Sane, UNCHANGED <<mod, vvars>>, Looping, insns' \in Nat,
         NEW v \in ValueN(Len(closures)), DoReturn(v)
  PROVE  StillSane
<1> DEFINE m == Len(closures)
           n == Len(frames) - 1
           gs == SubSeq(frames, 1, n)
           fr == SetReg(frames[n], Top.result_reg, v)
<1>1. /\ Stack(frames, m) /\ m \in Nat /\ frames # <<>> /\ closures \in Seq(ClosureN(m))
      /\ Len(frames) \in Nat \ {0}
  BY SaneStack, Fetched DEF Looping
<1>2. UNCHANGED <<status, error, closures>> /\ status' \in {"running", "done"} /\ error' \in Errors
  BY DEF DoReturn, Looping, Sane, InterpType
<1>3. CASE n = 0
  <2>1. frames' = <<>>
    BY <1>3 DEF DoReturn
  <2> QED BY <1>2, <2>1, EmptyStep
<1>4. CASE n # 0
  <2>1. frames' = [gs EXCEPT ![n] = fr]
    BY <1>4 DEF DoReturn
  <2>2. Stack(gs, m) /\ Len(gs) = n /\ \A i \in 1 .. n : gs[i] = frames[i]
    BY <1>1, StackPop
  <2>3. n \in 1 .. n /\ n \in 1 .. Len(frames) - 1 /\ n + 1 = Len(frames)
    <3>1. \A k \in Nat \ {0} : k - 1 # 0 => k - 1 \in 1 .. k - 1 /\ k - 1 + 1 = k
      OBVIOUS
    <3> QED BY <1>1, <1>4, <3>1
  <2>4. GoodFrame(gs[n], m) /\ gs[n] = frames[n]
    BY <2>2, <2>3 DEF Stack
  <2>5. Top.result_reg \in Registers(gs[n].fn)
    BY <1>1, <2>3, <2>4 DEF Stack, Top
  <2> HIDE DEF gs
  <2>8. GoodFrame(fr, m) /\ fr.fn = gs[n].fn /\ fr.result_reg = gs[n].result_reg
    BY <2>4, <2>5, Updated
  <2>9. gs # <<>>
    BY <1>4, <2>2, EmptySeq
  <2>10. Stack([gs EXCEPT ![Len(gs)] = fr], m)
    BY <1>1, <2>2, <2>8, <2>9, StackTop
  <2>11. frames' = [gs EXCEPT ![Len(gs)] = fr]
    BY <2>1, <2>2
  <2> HIDE DEF fr
  <2> QED BY <1>1, <1>2, <2>10, <2>11, NextStack
<1> QED BY <1>3, <1>4

LEMMA EnterStep ==
  ASSUME Sane, UNCHANGED <<mod, vvars>>, Looping, insns' \in Nat,
         NEW callee \in FuncIdx, NEW base, NEW args, NEW n, NEW closure, NEW size,
         base \in Registers(Top.fn), closure \in 0 .. Len(closures),
         \A r \in Registers(callee) : r < n => args + r \in Registers(Top.fn),
         Top.pc + size \in Boundary(Top.fn),
         Enter(callee, base, args, n, closure, size), UNCHANGED closures
  PROVE  StillSane
<1> DEFINE m == Len(closures)
           caller == Advance(Top, size)
           gs == [frames EXCEPT ![Len(frames)] = caller]
           regs == [r \in Registers(callee) |->
                      IF r < Fn(callee).num_params /\ r < n THEN Top.regs[args + r] ELSE Nil]
           fr == NewFrame(callee, base, closure, regs)
<1>1. /\ Stack(frames, m) /\ m \in Nat /\ frames # <<>> /\ closures \in Seq(ClosureN(m))
      /\ Len(frames) \in Nat \ {0} /\ GoodFrame(Top, m) /\ Top.fn \in FuncIdx
  BY SaneStack, Fetched DEF Looping
<1>4. GoodFrame(caller, m) /\ caller.fn = Top.fn /\ caller.result_reg = Top.result_reg
  <2>1. Top.pc + size \in Nat
    BY <1>1, BoundaryNat DEF Sane
  <2> QED BY <1>1, <2>1, Updated
<1>5. Stack(gs, m)
  BY <1>1, <1>4, StackTop DEF Top
<1>6. Len(gs) = Len(frames) /\ gs[Len(gs)] = caller /\ gs # <<>>
  <2>1. frames \in Seq(FrameN(m)) /\ caller \in FrameN(m) /\ Len(frames) \in 1 .. Len(frames)
    BY <1>1, <1>4 DEF Stack, GoodFrame
  <2>2. Len(gs) = Len(frames) /\ gs[Len(frames)] = caller
    BY <2>1, ExceptSeq
  <2> QED BY <1>1, <2>2, EmptySeq
<1>7. regs \in [Registers(callee) -> ValueN(m)]
  <2>1. Nil \in ValueN(m)
    BY DEF Nil, ValueN, Plain
  <2>2. \A q \in Registers(Top.fn) : Top.regs[q] \in ValueN(m)
    BY <1>1 DEF GoodFrame
  <2> QED BY <2>1, <2>2
<1>8. GoodFrame(fr, m)
  <2>1. /\ fr.fn = callee /\ fr.pc = 0 /\ fr.result_reg = base /\ fr.closure = closure
        /\ fr.regs = regs
    BY DEF NewFrame
  <2>2. base \in Byte
    <3>1. NumRegs(Top.fn) \in Byte
      BY <1>1, ModuleFacts DEF Sane, VerifierType
    <3>2. \A k \in Byte : 0 .. k - 1 \subseteq Byte
      BY DEF Byte
    <3> QED BY <3>1, <3>2 DEF Registers
  <2>3. fr \in FrameN(m)
    BY <1>7, <2>2 DEF NewFrame, FrameN
  <2>4. 0 \in Boundary(callee)
    BY DEF Sane, VerifierInv, Checked, Swept, Boundary
  <2> HIDE DEF fr, regs
  <2> QED BY <1>7, <2>1, <2>3, <2>4 DEF GoodFrame
<1>9. Stack(Append(gs, fr), m)
  <2>1. fr.result_reg = base
    BY DEF NewFrame
  <2> HIDE DEF fr, gs, caller
  <2> QED BY <1>1, <1>4, <1>5, <1>6, <1>8, <2>1, StackPush
<1>10. frames' = Append(gs, fr) /\ UNCHANGED <<status, error>>
  BY DEF Enter, Top
<1>11. status' \in {"running", "done"} /\ error' \in Errors
  BY <1>10 DEF Looping, Sane, InterpType
<1> HIDE DEF fr, gs
<1> QED BY <1>1, <1>9, <1>10, <1>11, NextStack

-----------------------------------------------------------------------------
(***************************************************************************)
(* The operands of the instruction being executed.                         *)
(***************************************************************************)
\* The opcodes are literal numbers from here on.
USE DEF OP_HALT, OP_LOAD_CONST, OP_LOAD_NIL, OP_MOVE, Binary, Unary, Calls,
  Arithmetic, OP_MOD, Equality, Comparison, Bitwise, Shift, OP_NEG, OP_NOT, OP_BNOT,
  OP_NEW_ARRAY, OP_ARRAY_GET, OP_ARRAY_SET, OP_NEW_OBJECT, OP_GET_PROP, OP_SET_PROP,
  OP_ARRAY_PUSH, OP_CALL, OP_RET, OP_CALL_NATIVE, OP_JUMP, OP_JUMP_IF_FALSE, OP_PRINT,
  OP_CLOSURE, OP_GET_UPVAL, OP_CALL_VALUE

LEMMA Table ==
  ASSUME NEW f, NEW s, NEW op, op = u8(f, s)
  PROVE  LET is(size, regs, consts) == Size(f, s) = size /\ RegisterOperands(op) = regs
                                         /\ ConstOperand(op) = consts
         IN
         /\ op \in {0} => is(1, {}, {})
         /\ op \in {2, 80, 49, 35} => is(2, {1}, {})
         /\ op \in {3, 38, 96, 97, 98} => is(3, {1, 2}, {})
         /\ op \in {32} => is(3, {1}, {})
         /\ op \in {1} => is(4, {1}, {2})
         /\ op \in (16 .. 31) \cup {33, 34} => is(4, {1, 2, 3}, {})
         /\ op \in {36} => is(5, {1, 2}, {3})
         /\ op \in {37} => is(5, {1, 4}, {2})
         /\ op \in {48, 50} => is(5, {1}, {2})
         /\ op \in {100, 101} => is(3, {1}, {})
         /\ op \in {64} => is(3, {}, {})
         /\ op \in {65} => is(4, {1}, {})
         /\ op \in {99} => is(5 + u8(f, s + 4), {1}, {})
<1>1. ASSUME op \in {0}
      PROVE  Size(f, s) = 1 /\ RegisterOperands(op) = {} /\ ConstOperand(op) = {}
  BY <1>1 DEF Size, RegisterOperands, ConstOperand
<1>2. ASSUME op \in {2, 80, 49, 35}
      PROVE  Size(f, s) = 2 /\ RegisterOperands(op) = {1} /\ ConstOperand(op) = {}
  BY <1>2 DEF Size, RegisterOperands, ConstOperand
<1>3. ASSUME op \in {3, 38, 96, 97, 98}
      PROVE  Size(f, s) = 3 /\ RegisterOperands(op) = {1, 2} /\ ConstOperand(op) = {}
  BY <1>3 DEF Size, RegisterOperands, ConstOperand
<1>4. ASSUME op \in {32}
      PROVE  Size(f, s) = 3 /\ RegisterOperands(op) = {1} /\ ConstOperand(op) = {}
  BY <1>4 DEF Size, RegisterOperands, ConstOperand
<1>5. ASSUME op \in {1}
      PROVE  Size(f, s) = 4 /\ RegisterOperands(op) = {1} /\ ConstOperand(op) = {2}
  BY <1>5 DEF Size, RegisterOperands, ConstOperand
<1>6. ASSUME op \in (16 .. 31) \cup {33, 34}
      PROVE  Size(f, s) = 4 /\ RegisterOperands(op) = {1, 2, 3} /\ ConstOperand(op) = {}
  BY <1>6 DEF Size, RegisterOperands, ConstOperand
<1>7. ASSUME op \in {36}
      PROVE  Size(f, s) = 5 /\ RegisterOperands(op) = {1, 2} /\ ConstOperand(op) = {3}
  BY <1>7 DEF Size, RegisterOperands, ConstOperand
<1>8. ASSUME op \in {37}
      PROVE  Size(f, s) = 5 /\ RegisterOperands(op) = {1, 4} /\ ConstOperand(op) = {2}
  BY <1>8 DEF Size, RegisterOperands, ConstOperand
<1>9. ASSUME op \in {48, 50}
      PROVE  Size(f, s) = 5 /\ RegisterOperands(op) = {1} /\ ConstOperand(op) = {2}
  BY <1>9 DEF Size, RegisterOperands, ConstOperand
<1>10. ASSUME op \in {100, 101}
      PROVE  Size(f, s) = 3 /\ RegisterOperands(op) = {1} /\ ConstOperand(op) = {}
  BY <1>10 DEF Size, RegisterOperands, ConstOperand
<1>11. ASSUME op \in {64}
      PROVE  Size(f, s) = 3 /\ RegisterOperands(op) = {} /\ ConstOperand(op) = {}
  BY <1>11 DEF Size, RegisterOperands, ConstOperand
<1>12. ASSUME op \in {65}
      PROVE  Size(f, s) = 4 /\ RegisterOperands(op) = {1} /\ ConstOperand(op) = {}
  BY <1>12 DEF Size, RegisterOperands, ConstOperand
<1>13. ASSUME op \in {99}
      PROVE  Size(f, s) = 5 + u8(f, s + 4) /\ RegisterOperands(op) = {1} /\ ConstOperand(op) = {}
  BY <1>13 DEF Size, RegisterOperands, ConstOperand
<1> QED BY <1>1, <1>2, <1>3, <1>4, <1>5, <1>6, <1>7, <1>8, <1>9, <1>10, <1>11, <1>12, <1>13

LEMMA Dispatched ==
  ASSUME Sane, NEW ops, Dispatch(ops)
  PROVE  /\ Looping /\ Top.pc < CodeLen(Top.fn) /\ Op \in ops /\ insns' \in Nat
         /\ Op \in Opcodes /\ Op = u8(Top.fn, Top.pc)
<1>1. Looping /\ Top.pc < CodeLen(Top.fn) /\ Op \in ops /\ insns' = insns + 1
  BY DEF Dispatch, Counts
<1>2. insns \in Nat
  BY DEF Sane, InterpType
<1>3. SafeInstr(Top.fn, Top.pc)
  BY <1>1, Fetched
<1> QED BY <1>1, <1>2, <1>3 DEF SafeInstr, Op

\* Its operands lie within it.
LEMMA Fits ==
  ASSUME NEW f, NEW s, NEW op, op = u8(f, s), op \in Opcodes,
         op = OP_CLOSURE => u8(f, s + 4) \in Nat
  PROVE  /\ \A k \in RegisterOperands(op) : k \in 1 .. Size(f, s) - 1
         /\ \A k \in ConstOperand(op) : k \in 1 .. Size(f, s) - 1 /\ k + 1 \in 1 .. Size(f, s) - 1
<1> DEFINE In == /\ \A k \in RegisterOperands(op) : k \in 1 .. Size(f, s) - 1
                 /\ \A k \in ConstOperand(op) : /\ k \in 1 .. Size(f, s) - 1
                                               /\ k + 1 \in 1 .. Size(f, s) - 1
<1>1. ASSUME op \in {0} PROVE In
  <2>1. Size(f, s) = 1 /\ RegisterOperands(op) = {} /\ ConstOperand(op) = {}
    BY <1>1, Table
  <2> QED BY <1>1, <2>1
<1>2. ASSUME op \in {2, 80, 49, 35} PROVE In
  <2>1. Size(f, s) = 2 /\ RegisterOperands(op) = {1} /\ ConstOperand(op) = {}
    BY <1>2, Table
  <2> QED BY <1>2, <2>1
<1>3. ASSUME op \in {3, 38, 96, 97, 98} PROVE In
  <2>1. Size(f, s) = 3 /\ RegisterOperands(op) = {1, 2} /\ ConstOperand(op) = {}
    BY <1>3, Table
  <2> QED BY <1>3, <2>1
<1>4. ASSUME op \in {32} PROVE In
  <2>1. Size(f, s) = 3 /\ RegisterOperands(op) = {1} /\ ConstOperand(op) = {}
    BY <1>4, Table
  <2> QED BY <1>4, <2>1
<1>5. ASSUME op \in {1} PROVE In
  <2>1. Size(f, s) = 4 /\ RegisterOperands(op) = {1} /\ ConstOperand(op) = {2}
    BY <1>5, Table
  <2> QED BY <1>5, <2>1
<1>6. ASSUME op \in (16 .. 31) \cup {33, 34} PROVE In
  <2>1. Size(f, s) = 4 /\ RegisterOperands(op) = {1, 2, 3} /\ ConstOperand(op) = {}
    BY <1>6, Table
  <2> QED BY <1>6, <2>1
<1>7. ASSUME op \in {36} PROVE In
  <2>1. Size(f, s) = 5 /\ RegisterOperands(op) = {1, 2} /\ ConstOperand(op) = {3}
    BY <1>7, Table
  <2> QED BY <1>7, <2>1
<1>8. ASSUME op \in {37} PROVE In
  <2>1. Size(f, s) = 5 /\ RegisterOperands(op) = {1, 4} /\ ConstOperand(op) = {2}
    BY <1>8, Table
  <2> QED BY <1>8, <2>1
<1>9. ASSUME op \in {48, 50} PROVE In
  <2>1. Size(f, s) = 5 /\ RegisterOperands(op) = {1} /\ ConstOperand(op) = {2}
    BY <1>9, Table
  <2> QED BY <1>9, <2>1
<1>10. ASSUME op \in {100, 101} PROVE In
  <2>1. Size(f, s) = 3 /\ RegisterOperands(op) = {1} /\ ConstOperand(op) = {}
    BY <1>10, Table
  <2> QED BY <1>10, <2>1
<1>11. ASSUME op \in {64} PROVE In
  <2>1. Size(f, s) = 3 /\ RegisterOperands(op) = {} /\ ConstOperand(op) = {}
    BY <1>11, Table
  <2> QED BY <1>11, <2>1
<1>12. ASSUME op \in {65} PROVE In
  <2>1. Size(f, s) = 4 /\ RegisterOperands(op) = {1} /\ ConstOperand(op) = {}
    BY <1>12, Table
  <2> QED BY <1>12, <2>1
<1>13. ASSUME op \in {99} PROVE In
  <2>1. Size(f, s) = 5 + u8(f, s + 4) /\ RegisterOperands(op) = {1} /\ ConstOperand(op) = {}
    BY <1>13, Table
  <2> QED BY <1>13, <2>1
<1>16. op \in {0, 1, 2, 3, 32, 35, 36, 37, 38, 48, 49, 50, 64, 65, 80, 96, 97, 98, 99, 100, 101}
               \cup (16 .. 31) \cup {33, 34}
  BY DEF Opcodes
<1> QED BY <1>16, <1>1, <1>2, <1>3, <1>4, <1>5, <1>6, <1>7, <1>8, <1>9, <1>10, <1>11, <1>12, <1>13

LEMMA Within ==
  ASSUME Sane, Looping, Top.pc < CodeLen(Top.fn)
  PROVE  /\ \A k \in RegisterOperands(Op) : k \in 1 .. Size(Top.fn, Top.pc) - 1
         /\ \A k \in ConstOperand(Op) : /\ k \in 1 .. Size(Top.fn, Top.pc) - 1
                                       /\ k + 1 \in 1 .. Size(Top.fn, Top.pc) - 1
<1>1. /\ SafeInstr(Top.fn, Top.pc) /\ Top.fn \in FuncIdx /\ Top.pc \in Nat
      /\ Op = u8(Top.fn, Top.pc) /\ Op \in Opcodes
  BY Fetched DEF SafeInstr, Op
<1>2. ASSUME Op = OP_CLOSURE PROVE u8(Top.fn, Top.pc + 4) \in Nat
  <2>1. CodeLen(Top.fn) \in Nat /\ Top.pc + 4 < CodeLen(Top.fn)
    BY <1>1, <1>2, ModuleFacts DEF SafeInstr, Sane, VerifierType
  <2>2. Top.pc + 4 \in 0 .. CodeLen(Top.fn) - 1
    BY <1>1, <2>1
  <2>3. u8(Top.fn, Top.pc + 4) \in Byte
    BY <1>1, <2>2, ModuleFacts DEF Sane, VerifierType
  <2> QED BY <2>3 DEF Byte
<1> QED BY <1>1, <1>2, Fits

LEMMA Register ==
  ASSUME Sane, Looping, Top.pc < CodeLen(Top.fn), NEW k \in RegisterOperands(Op)
  PROVE  At(k) \in Registers(Top.fn) /\ Reg(k) \in ValueN(Len(closures))
<1>1. /\ SafeInstr(Top.fn, Top.pc) /\ Top.fn \in FuncIdx
      /\ GoodFrame(Top, Len(closures)) /\ At(k) \in Byte
  BY Fetched, Within
<1>2. At(k) < NumRegs(Top.fn)
  BY <1>1 DEF SafeInstr, At, Op
<1>3. NumRegs(Top.fn) \in Byte
  BY <1>1, ModuleFacts DEF Sane, VerifierType
<1>4. At(k) \in Registers(Top.fn)
  <2>1. \A n \in Byte : \A a \in Byte : a < n => a \in 0 .. n - 1
    BY DEF Byte
  <2> QED BY <1>1, <1>2, <1>3, <2>1 DEF Registers
<1> QED BY <1>1, <1>4 DEF GoodFrame, Reg

LEMMA ConstantAt ==
  ASSUME Sane, Looping, Top.pc < CodeLen(Top.fn), NEW k \in ConstOperand(Op)
  PROVE  Const(At16(k)) \in Constant
<1>1. /\ SafeInstr(Top.fn, Top.pc) /\ At(k) \in Byte /\ At(k + 1) \in Byte /\ k \in Nat
      /\ Top.pc \in Nat
  <2>1. k \in 1 .. Size(Top.fn, Top.pc) - 1 /\ k + 1 \in 1 .. Size(Top.fn, Top.pc) - 1
    BY Within
  <2> QED BY <2>1, Fetched
<1>2. At16(k) = At(k) + 256 * At(k + 1)
  <2>1. Top.pc + (k + 1) = Top.pc + k + 1
    BY <1>1
  <2> QED BY <2>1 DEF At16, u16, At
<1>3. At16(k) \in Nat
  <2>1. \A a, b \in Byte : a + 256 * b \in Nat
    BY DEF Byte
  <2> QED BY <1>1, <1>2, <2>1
<1>4. At16(k) < NumConsts
  BY <1>1 DEF SafeInstr, At16, Op
<1>5. mod.consts \in Seq(Constant) /\ NumConsts \in Nat
  <2>1. mod \in Module
    BY ModulesAssumption DEF Sane, VerifierType
  <2> QED BY <2>1, ModuleFacts DEF Module, Sane, VerifierType
<1>6. At16(k) + 1 \in 1 .. Len(mod.consts)
  BY <1>3, <1>4, <1>5 DEF NumConsts
<1> QED BY <1>5, <1>6, ElementOfSeq DEF Const

-----------------------------------------------------------------------------
(***************************************************************************)
(* One lemma per action of the interpreter.                                *)
(***************************************************************************)
\* Some error is raised.
Raised == status' = "done" /\ error' \in Errors /\ UNCHANGED <<frames, closures>>

LEMMA RaiseStep ==
  ASSUME Sane, UNCHANGED <<mod, vvars>>, NEW ops, Dispatch(ops), Raised
  PROVE  StillSane
BY KeepStep, Dispatched DEF Raised

\* Register operand 1 is written and the pc moves to the next instruction.
LEMMA WriteStep ==
  ASSUME Sane, UNCHANGED <<mod, vvars>>, NEW ops, Dispatch(ops), 1 \in RegisterOperands(Op),
         NEW v \in ValueN(Len(closures)), NEW size, size = Size(Top.fn, Top.pc),
         Put(At(1), v, size), UNCHANGED closures
  PROVE  StillSane
<1>1. Looping /\ Top.pc < CodeLen(Top.fn) /\ insns' \in Nat
  BY Dispatched
<1>2. At(1) \in Registers(Top.fn) /\ Top.pc + size \in Boundary(Top.fn)
  BY <1>1, Register, Fetched
<1>3. /\ Len(closures) \in Nat /\ Len(closures) <= Len(closures)
      /\ Len(closures) = Len(closures') /\ closures' \in Seq(ClosureN(Len(closures)))
  BY SaneStack
<1> QED BY <1>1, <1>2, <1>3, PutStep

LEMMA AdvanceStep ==
  ASSUME Sane, UNCHANGED <<mod, vvars>>, NEW ops, Dispatch(ops),
         NEW size, size = Size(Top.fn, Top.pc), Skip(size)
  PROVE  StillSane
BY Dispatched, Fetched, SkipStep

LEMMA PlainValues ==
  ASSUME NEW n PROVE Plain \subseteq ValueN(n) /\ Nil \in ValueN(n)
BY DEF ValueN, Plain, Nil

LEMMA LoadConstStep ==
  ASSUME Sane, UNCHANGED <<mod, vvars>>, LoadConst PROVE StillSane
<1> DEFINE c == Const(At16(2))
<1>1. Dispatch({OP_LOAD_CONST}) /\ UNCHANGED closures
      /\ (Put(At(1), ConstValue(c), 4) \/ Raised)
  BY DEF LoadConst, Raise, Raised, Errors
<1>2. /\ Size(Top.fn, Top.pc) = 4 /\ 1 \in RegisterOperands(Op) /\ 2 \in ConstOperand(Op)
      /\ Looping /\ Top.pc < CodeLen(Top.fn)
  <2>1. Op \in {1} /\ Op = u8(Top.fn, Top.pc) /\ Looping /\ Top.pc < CodeLen(Top.fn)
    BY <1>1, Dispatched
  <2> QED BY <2>1, Table
<1>3. ConstValue(c) \in Plain
  <2>1. c \in Constant
    BY <1>2, ConstantAt
  <2> QED BY <2>1 DEF ConstValue, Constant, CTags, Plain, Nil, Obj
<1>4. ConstValue(c) \in ValueN(Len(closures))
  BY <1>3, PlainValues
<1> HIDE DEF c
<1> QED BY <1>1, <1>2, <1>4, WriteStep, RaiseStep

LEMMA LoadNilStep ==
  ASSUME Sane, UNCHANGED <<mod, vvars>>, LoadNil PROVE StillSane
<1>1. Dispatch({OP_LOAD_NIL}) /\ UNCHANGED closures /\ Put(At(1), Nil, 2)
  BY DEF LoadNil
<1>2. Size(Top.fn, Top.pc) = 2 /\ 1 \in RegisterOperands(Op)
  <2>1. Op \in {2, 80, 49, 35} /\ Op = u8(Top.fn, Top.pc)
    BY <1>1, Dispatched
  <2> QED BY <2>1, Table
<1> QED BY <1>1, <1>2, PlainValues, WriteStep

LEMMA MoveStep ==
  ASSUME Sane, UNCHANGED <<mod, vvars>>, Move PROVE StillSane
<1>1. Dispatch({OP_MOVE}) /\ UNCHANGED closures /\ Put(At(1), Reg(2), 3)
  BY DEF Move
<1>2. /\ Size(Top.fn, Top.pc) = 3 /\ 1 \in RegisterOperands(Op) /\ 2 \in RegisterOperands(Op)
      /\ Looping /\ Top.pc < CodeLen(Top.fn)
  <2>1. /\ Op \in {3, 38, 96, 97, 98} /\ Op = u8(Top.fn, Top.pc)
        /\ Looping /\ Top.pc < CodeLen(Top.fn)
    BY <1>1, Dispatched
  <2> QED BY <2>1, Table
<1>3. Reg(2) \in ValueN(Len(closures))
  BY <1>2, Register
<1> QED BY <1>1, <1>2, <1>3, WriteStep

LEMMA BinaryOpStep ==
  ASSUME Sane, UNCHANGED <<mod, vvars>>, BinaryOp PROVE StillSane
<1>1. /\ Dispatch(Binary) /\ UNCHANGED closures
      /\ \/ \E v \in Plain : Put(At(1), v, 4)
         \/ Raised
  BY DEF BinaryOp, OfTag, Raise, Raised, Errors
<1>2. Size(Top.fn, Top.pc) = 4 /\ 1 \in RegisterOperands(Op)
  <2>1. Op \in (16 .. 31) \cup {33, 34} /\ Op = u8(Top.fn, Top.pc)
    <3>1. Op \in Binary /\ Op = u8(Top.fn, Top.pc)
      BY <1>1, Dispatched
    <3> QED BY <3>1
  <2> QED BY <2>1, Table
<1> QED BY <1>1, <1>2, PlainValues, WriteStep, RaiseStep

LEMMA UnaryOpStep ==
  ASSUME Sane, UNCHANGED <<mod, vvars>>, UnaryOp PROVE StillSane
<1>1. /\ Dispatch(Unary) /\ UNCHANGED closures
      /\ \/ \E v \in Plain : Put(At(1), v, 3)
         \/ Put(At(1), Reg(2), 3)
         \/ Raised
  BY DEF UnaryOp, OfTag, Raise, Raised, Errors
<1>2. /\ Size(Top.fn, Top.pc) = 3 /\ 1 \in RegisterOperands(Op) /\ 2 \in RegisterOperands(Op)
      /\ Looping /\ Top.pc < CodeLen(Top.fn)
  <2>1. /\ Op \in {3, 38, 96, 97, 98} /\ Op = u8(Top.fn, Top.pc)
        /\ Looping /\ Top.pc < CodeLen(Top.fn)
    BY <1>1, Dispatched
  <2> QED BY <2>1, Table
<1>3. Reg(2) \in ValueN(Len(closures))
  BY <1>2, Register
<1> QED BY <1>1, <1>2, <1>3, PlainValues, WriteStep, RaiseStep

LEMMA NewContainerStep ==
  ASSUME Sane, UNCHANGED <<mod, vvars>>, NewContainer PROVE StillSane
<1>1. /\ Dispatch({OP_NEW_ARRAY, OP_NEW_OBJECT}) /\ UNCHANGED closures
      /\ \/ Op = 32 /\ Put(At(1), Obj("Array"), 3)
         \/ Op = 35 /\ Put(At(1), Obj("Map"), 2)
         \/ Raised
  BY DEF NewContainer, Raise, Raised, Errors
<1>2. Obj("Array") \in ValueN(Len(closures)) /\ Obj("Map") \in ValueN(Len(closures))
  BY PlainValues DEF Obj, Plain
<1>3. Op = u8(Top.fn, Top.pc)
  BY <1>1, Dispatched
<1>4. ASSUME Op = 32, Put(At(1), Obj("Array"), 3) PROVE StillSane
  <2>1. Op \in {32}
    BY <1>4
  <2>2. Size(Top.fn, Top.pc) = 3 /\ 1 \in RegisterOperands(Op)
    BY <1>3, <2>1, Table
  <2> QED BY <1>1, <1>2, <1>4, <2>2, WriteStep
<1>5. ASSUME Op = 35, Put(At(1), Obj("Map"), 2) PROVE StillSane
  <2>1. Op \in {2, 80, 49, 35}
    BY <1>5
  <2>2. Size(Top.fn, Top.pc) = 2 /\ 1 \in RegisterOperands(Op)
    BY <1>3, <2>1, Table
  <2> QED BY <1>1, <1>2, <1>5, <2>2, WriteStep
<1> QED BY <1>1, <1>4, <1>5, RaiseStep

LEMMA ContainerStep ==
  ASSUME Sane, UNCHANGED <<mod, vvars>>, ArrayGet \/ ArraySet \/ ArrayPush \/ GetProp \/ SetProp
  PROVE  StillSane
<1>0. Value = ValueN(Len(closures))
  BY DEF Value, ValueN
<1>1. CASE ArrayGet
  <2>1. /\ Dispatch({OP_ARRAY_GET}) /\ UNCHANGED closures
        /\ \/ Raised
           \/ \E v \in Value : Put(At(1), v, 4)
    BY <1>1 DEF ArrayGet, Raise, Raised, Errors
  <2>2. Size(Top.fn, Top.pc) = 4 /\ 1 \in RegisterOperands(Op)
    <3>1. Op \in (16 .. 31) \cup {33, 34} /\ Op = u8(Top.fn, Top.pc)
      BY <2>1, Dispatched
    <3> QED BY <3>1, Table
  <2> QED BY <1>0, <2>1, <2>2, WriteStep, RaiseStep
<1>2. CASE ArraySet
  <2>1. /\ Dispatch({OP_ARRAY_SET})
        /\ Raised \/ Skip(4)
    BY <1>2 DEF ArraySet, Raise, Raised, Errors
  <2>2. Size(Top.fn, Top.pc) = 4
    <3>1. Op \in (16 .. 31) \cup {33, 34} /\ Op = u8(Top.fn, Top.pc)
      BY <2>1, Dispatched
    <3> QED BY <3>1, Table
  <2> QED BY <2>1, <2>2, AdvanceStep, RaiseStep
<1>3. CASE ArrayPush
  <2>1. /\ Dispatch({OP_ARRAY_PUSH})
        /\ Raised \/ Skip(3)
    BY <1>3 DEF ArrayPush, Raise, Raised, Errors
  <2>2. Size(Top.fn, Top.pc) = 3
    <3>1. Op \in {3, 38, 96, 97, 98} /\ Op = u8(Top.fn, Top.pc)
      BY <2>1, Dispatched
    <3> QED BY <3>1, Table
  <2> QED BY <2>1, <2>2, AdvanceStep, RaiseStep
<1>4. CASE GetProp
  <2>1. /\ Dispatch({OP_GET_PROP}) /\ UNCHANGED closures
        /\ Raised \/ \E v \in Value : Put(At(1), v, 5)
    BY <1>4 DEF GetProp, Raise, Raised, Errors
  <2>2. Size(Top.fn, Top.pc) = 5 /\ 1 \in RegisterOperands(Op)
    <3>1. Op \in {36} /\ Op = u8(Top.fn, Top.pc)
      BY <2>1, Dispatched
    <3> QED BY <3>1, Table
  <2> QED BY <1>0, <2>1, <2>2, WriteStep, RaiseStep
<1>5. CASE SetProp
  <2>1. /\ Dispatch({OP_SET_PROP})
        /\ Raised \/ Skip(5)
    BY <1>5 DEF SetProp, Raise, Raised, Errors
  <2>2. Size(Top.fn, Top.pc) = 5
    <3>1. Op \in {37} /\ Op = u8(Top.fn, Top.pc)
      BY <2>1, Dispatched
    <3> QED BY <3>1, Table
  <2> QED BY <2>1, <2>2, AdvanceStep, RaiseStep
<1> QED BY <1>1, <1>2, <1>3, <1>4, <1>5

LEMMA PrintStep ==
  ASSUME Sane, UNCHANGED <<mod, vvars>>, PrintValue PROVE StillSane
<1>1. Dispatch({OP_PRINT}) /\ Skip(2)
  BY DEF PrintValue
<1>2. Size(Top.fn, Top.pc) = 2
  <2>1. Op \in {2, 80, 49, 35} /\ Op = u8(Top.fn, Top.pc)
    BY <1>1, Dispatched
  <2> QED BY <2>1, Table
<1> QED BY <1>1, <1>2, AdvanceStep

\* A jump lands where pass 2 of the verifier resolved it to.
LEMMA JumpSteps ==
  ASSUME Sane, UNCHANGED <<mod, vvars>>, Jump \/ JumpIfFalse PROVE StillSane
<1>1. CASE Jump
  <2>1. Dispatch({OP_JUMP}) /\ Skip(3 + i16(Top.fn, Top.pc + 1))
    BY <1>1 DEF Jump
  <2>2. /\ Op = 64 /\ Op = u8(Top.fn, Top.pc) /\ Looping /\ Top.pc < CodeLen(Top.fn)
        /\ insns' \in Nat
    BY <2>1, Dispatched
  <2>3. <<Top.pc + 3, i16(Top.fn, Top.pc + 1)>> \in JumpsOf(Top.fn, Top.pc)
    BY <2>2 DEF JumpsOf
  <2>4. /\ Top.pc + 3 + i16(Top.fn, Top.pc + 1) \in is_start[Top.fn]
        /\ i16(Top.fn, Top.pc + 1) \in Int /\ Top.pc \in Nat
    BY <2>2, <2>3, Fetched
  <2>5. Top.pc + (3 + i16(Top.fn, Top.pc + 1)) \in Boundary(Top.fn)
    <3>1. Top.pc + (3 + i16(Top.fn, Top.pc + 1)) = Top.pc + 3 + i16(Top.fn, Top.pc + 1)
      BY <2>4
    <3> QED BY <2>4, <3>1 DEF Boundary
  <2> QED BY <2>1, <2>2, <2>5, SkipStep
<1>2. CASE JumpIfFalse
  <2>1. /\ Dispatch({OP_JUMP_IF_FALSE})
        /\ Skip(4) \/ Skip(4 + i16(Top.fn, Top.pc + 2))
    BY <1>2 DEF JumpIfFalse
  <2>2. /\ Op = 65 /\ Op = u8(Top.fn, Top.pc) /\ Looping /\ Top.pc < CodeLen(Top.fn)
        /\ insns' \in Nat
    BY <2>1, Dispatched
  <2>3. <<Top.pc + 4, i16(Top.fn, Top.pc + 2)>> \in JumpsOf(Top.fn, Top.pc)
    BY <2>2 DEF JumpsOf
  <2>4. /\ Top.pc + 4 + i16(Top.fn, Top.pc + 2) \in is_start[Top.fn]
        /\ i16(Top.fn, Top.pc + 2) \in Int /\ Top.pc \in Nat
    BY <2>2, <2>3, Fetched
  <2>5. Top.pc + (4 + i16(Top.fn, Top.pc + 2)) \in Boundary(Top.fn)
    <3>1. Top.pc + (4 + i16(Top.fn, Top.pc + 2)) = Top.pc + 4 + i16(Top.fn, Top.pc + 2)
      BY <2>4
    <3> QED BY <2>4, <3>1 DEF Boundary
  <2>6. Size(Top.fn, Top.pc) = 4
    <3>1. Op \in {65}
      BY <2>2
    <3> QED BY <2>2, <3>1, Table
  <2> QED BY <2>1, <2>2, <2>5, <2>6, SkipStep, AdvanceStep
<1> QED BY <1>1, <1>2

LEMMA CallStep ==
  ASSUME Sane, UNCHANGED <<mod, vvars>>, Call PROVE StillSane
<1>1. /\ Dispatch({OP_CALL}) /\ UNCHANGED closures
      /\ \/ Raised
         \/ \E callee \in FuncIdx : Enter(callee, At(1), At(1), At(4), 0, 5)
  BY DEF Call, Named, Raise, Raised, Errors
<1>2. /\ Size(Top.fn, Top.pc) = 5 /\ 1 \in RegisterOperands(Op) /\ Op \in Calls
      /\ Looping /\ Top.pc < CodeLen(Top.fn) /\ insns' \in Nat /\ Op = 48
  <2>1. /\ Op \in {48, 50} /\ Op = u8(Top.fn, Top.pc) /\ Op \in {OP_CALL}
        /\ Looping /\ Top.pc < CodeLen(Top.fn) /\ insns' \in Nat
    BY <1>1, Dispatched
  <2> QED BY <2>1, Table
<1>3. ASSUME NEW callee \in FuncIdx, Enter(callee, At(1), At(1), At(4), 0, 5)
      PROVE  StillSane
  <2>1. Top.pc + 5 \in Boundary(Top.fn) /\ At(1) \in Registers(Top.fn) /\ At(4) \in Byte
    BY <1>2, Register, Fetched
  <2>2. At(1) + At(4) <= NumRegs(Top.fn)
    <3>1. SafeInstr(Top.fn, Top.pc)
      BY <1>2, Fetched
    <3> QED BY <1>2, <3>1 DEF SafeInstr, WindowEnd, At, Op
  <2>3. ASSUME NEW r \in Registers(callee), r < At(4) PROVE At(1) + r \in Registers(Top.fn)
    <3>1. NumRegs(Top.fn) \in Byte /\ At(1) \in Byte /\ NumRegs(callee) \in Byte
      BY <1>2, Fetched, ModuleFacts DEF Sane, VerifierType
    <3>2. \A a, n, k, c \in Byte : \A q \in 0 .. c - 1 :
             a + n <= k /\ q < n => a + q \in 0 .. k - 1
      BY DEF Byte
    <3> QED BY <2>1, <2>2, <2>3, <3>1, <3>2 DEF Registers
  <2>4. 0 \in 0 .. Len(closures)
    BY SaneStack
  <2> QED BY <1>1, <1>2, <1>3, <2>1, <2>3, <2>4, EnterStep
<1> QED BY <1>1, <1>3, RaiseStep

LEMMA CallNativeStep ==
  ASSUME Sane, UNCHANGED <<mod, vvars>>, CallNative PROVE StillSane
<1>1. /\ Dispatch({OP_CALL_NATIVE}) /\ UNCHANGED closures
      /\ Raised \/ \E v \in Value : Put(At(1), v, 5)
  BY DEF CallNative, Raise, Raised, Errors
<1>2. Size(Top.fn, Top.pc) = 5 /\ 1 \in RegisterOperands(Op)
  <2>1. Op \in {48, 50} /\ Op = u8(Top.fn, Top.pc)
    BY <1>1, Dispatched
  <2> QED BY <2>1, Table
<1>3. Value = ValueN(Len(closures))
  BY DEF Value, ValueN
<1> QED BY <1>1, <1>2, <1>3, WriteStep, RaiseStep

LEMMA GetUpvalStep ==
  ASSUME Sane, UNCHANGED <<mod, vvars>>, GetUpval PROVE StillSane
<1> DEFINE ups == closures[Top.closure].upvalues
<1>1. /\ Dispatch({OP_GET_UPVAL}) /\ UNCHANGED closures
      /\ \/ Raised
         \/ Top.closure # 0 /\ ~(At(2) >= Len(ups)) /\ Put(At(1), ups[At(2) + 1], 3)
  BY DEF GetUpval, Raise, Raised, Errors
<1>2. /\ Size(Top.fn, Top.pc) = 3 /\ 1 \in RegisterOperands(Op)
      /\ Looping /\ Top.pc < CodeLen(Top.fn)
  <2>1. /\ Op \in {100, 101} /\ Op = u8(Top.fn, Top.pc)
        /\ Looping /\ Top.pc < CodeLen(Top.fn)
    BY <1>1, Dispatched
  <2> QED BY <2>1, Table
<1>3. ASSUME Top.closure # 0, ~(At(2) >= Len(ups)) PROVE ups[At(2) + 1] \in ValueN(Len(closures))
  <2>1. GoodFrame(Top, Len(closures)) /\ At(2) \in Byte
    BY <1>2, Fetched
  <2>2. Len(closures) \in Nat /\ closures \in Seq(ClosureN(Len(closures)))
    BY SaneStack
  <2>3. Top.closure \in 1 .. Len(closures)
    BY <1>3, <2>1, <2>2 DEF GoodFrame, FrameN
  <2>4. ups \in Seq(ValueN(Len(closures)))
    <3>1. closures[Top.closure] \in ClosureN(Len(closures))
      BY <2>2, <2>3, ElementOfSeq
    <3> QED BY <3>1 DEF ClosureN
  <2> HIDE DEF ups
  <2>5. At(2) + 1 \in 1 .. Len(ups)
    <3>1. Len(ups) \in Nat
      BY <2>4, LenProperties
    <3>2. \A a \in Byte : \A n \in Nat : ~(a >= n) => a + 1 \in 1 .. n
      BY DEF Byte
    <3> QED BY <1>3, <2>1, <3>1, <3>2
  <2> QED BY <2>4, <2>5, ElementOfSeq
<1> HIDE DEF ups
<1> QED BY <1>1, <1>2, <1>3, WriteStep, RaiseStep

LEMMA ClosureRef ==
  ASSUME NEW n, NEW v \in ValueN(n), v.tag = "Closure" PROVE v.ref \in 1 .. n
<1>1. ASSUME NEW p \in Plain PROVE p.tag # "Closure"
  <2>1. CASE p = [tag |-> "Nil", truthy |-> FALSE, ref |-> 0]
    BY <2>1
  <2>2. CASE p \in [tag : {"Int", "Double", "Bool"}, truthy : BOOLEAN, ref : {0}]
    BY <2>2
  <2>3. CASE p \in [tag : {"String", "Array", "Map", "Iter"}, truthy : {TRUE}, ref : {0}]
    BY <2>3
  <2> QED BY <2>1, <2>2, <2>3 DEF Plain
<1>2. v \notin Plain
  BY <1>1
<1>3. v \in [tag : {"Closure"}, truthy : {TRUE}, ref : 1 .. n]
  BY <1>2 DEF ValueN
<1> QED BY <1>3

LEMMA CallValueStep ==
  ASSUME Sane, UNCHANGED <<mod, vvars>>, CallValue PROVE StillSane
<1> DEFINE cl == Reg(1).ref
           callee == closures[cl].func_index
<1>1. /\ Dispatch({OP_CALL_VALUE}) /\ UNCHANGED closures
      /\ \/ Raised
         \/ Reg(1).tag = "Closure" /\ Enter(callee, At(1), At(1) + 1, At(2), cl, 3)
  BY DEF CallValue, Raise, Raised, Errors
<1>2. /\ Size(Top.fn, Top.pc) = 3 /\ 1 \in RegisterOperands(Op) /\ Op \in Calls
      /\ Looping /\ Top.pc < CodeLen(Top.fn) /\ insns' \in Nat /\ Op = 101
  <2>1. /\ Op \in {100, 101} /\ Op = u8(Top.fn, Top.pc) /\ Op \in {OP_CALL_VALUE}
        /\ Looping /\ Top.pc < CodeLen(Top.fn) /\ insns' \in Nat
    BY <1>1, Dispatched
  <2> QED BY <2>1, Table
<1>3. ASSUME Reg(1).tag = "Closure", Enter(callee, At(1), At(1) + 1, At(2), cl, 3)
      PROVE  StillSane
  <2>1. /\ Top.pc + 3 \in Boundary(Top.fn) /\ At(1) \in Registers(Top.fn) /\ At(2) \in Byte
        /\ Reg(1) \in ValueN(Len(closures))
    BY <1>2, Register, Fetched
  <2>2. cl \in 1 .. Len(closures)
    BY <1>3, <2>1, ClosureRef
  <2>3. Len(closures) \in Nat /\ closures \in Seq(ClosureN(Len(closures)))
    BY SaneStack
  <2>4. callee \in FuncIdx /\ cl \in 0 .. Len(closures)
    <3>1. closures[cl] \in ClosureN(Len(closures))
      BY <2>2, <2>3, ElementOfSeq
    <3> QED BY <2>2, <2>3, <3>1 DEF ClosureN
  <2>5. At(1) + 1 + At(2) <= NumRegs(Top.fn)
    <3>1. SafeInstr(Top.fn, Top.pc)
      BY <1>2, Fetched
    <3> QED BY <1>2, <3>1 DEF SafeInstr, WindowEnd, At, Op
  <2> HIDE DEF callee, cl
  <2>6. ASSUME NEW r \in Registers(callee), r < At(2)
        PROVE  At(1) + 1 + r \in Registers(Top.fn)
    <3>1. NumRegs(Top.fn) \in Byte /\ At(1) \in Byte /\ NumRegs(callee) \in Byte
      BY <1>2, <2>4, Fetched, ModuleFacts DEF Sane, VerifierType
    <3>2. \A a, n, k, c \in Byte : \A q \in 0 .. c - 1 :
             a + 1 + n <= k /\ q < n => a + 1 + q \in 0 .. k - 1
      BY DEF Byte
    <3> QED BY <2>1, <2>5, <2>6, <3>1, <3>2 DEF Registers
  <2> QED BY <1>1, <1>2, <1>3, <2>1, <2>4, <2>6, EnterStep
<1> HIDE DEF callee, cl
<1> QED BY <1>1, <1>3, RaiseStep

LEMMA MakeClosureStep ==
  ASSUME Sane, UNCHANGED <<mod, vvars>>, MakeClosure PROVE StillSane
<1> DEFINE m == Len(closures)
           upvalues == [i \in 1 .. At(4) |-> Reg(4 + i)]
           record == [func_index |-> At16(2), upvalues |-> upvalues]
           new == [tag |-> "Closure", truthy |-> TRUE, ref |-> m + 1]
<1>1. /\ Dispatch({OP_CLOSURE})
      /\ \/ Raised
         \/ closures' = Append(closures, record) /\ Put(At(1), new, 5 + At(4))
  BY DEF MakeClosure, Raise, Raised, Errors
<1>2. /\ Size(Top.fn, Top.pc) = 5 + At(4) /\ 1 \in RegisterOperands(Op)
      /\ Looping /\ Top.pc < CodeLen(Top.fn) /\ insns' \in Nat /\ Op = OP_CLOSURE
  <2>1. /\ Op \in {99} /\ Op = u8(Top.fn, Top.pc)
        /\ Looping /\ Top.pc < CodeLen(Top.fn) /\ insns' \in Nat
    BY <1>1, Dispatched
  <2> QED BY <2>1, Table DEF At
<1>3. /\ m \in Nat /\ closures \in Seq(ClosureN(m)) /\ GoodFrame(Top, m)
      /\ Top.fn \in FuncIdx /\ Top.pc \in Nat /\ SafeInstr(Top.fn, Top.pc)
      /\ \A k \in 1 .. Size(Top.fn, Top.pc) - 1 : At(k) \in Byte
      /\ Size(Top.fn, Top.pc) \in Nat
  BY <1>2, SaneStack, Fetched
<1>4. At(4) \in Nat
  <2>1. CodeLen(Top.fn) \in Nat /\ Top.pc + 4 < CodeLen(Top.fn)
    BY <1>2, <1>3, ModuleFacts DEF SafeInstr, Op, Sane, VerifierType
  <2>2. Top.pc + 4 \in 0 .. CodeLen(Top.fn) - 1
    BY <1>3, <2>1
  <2>3. At(4) \in Byte
    BY <1>3, <2>2, ModuleFacts DEF Sane, VerifierType, At
  <2> QED BY <2>3 DEF Byte
<1>5. At16(2) \in FuncIdx
  <2>1. At(2) \in Byte /\ At(3) \in Byte
    <3>1. 2 \in 1 .. Size(Top.fn, Top.pc) - 1 /\ 3 \in 1 .. Size(Top.fn, Top.pc) - 1
      BY <1>2, <1>4
    <3> QED BY <1>3, <3>1
  <2>2. At16(2) = At(2) + 256 * At(3)
    <3>1. Top.pc + 3 = Top.pc + 2 + 1
      BY <1>3
    <3> QED BY <3>1 DEF At16, u16, At
  <2>3. At16(2) \in Nat
    <3>1. \A a, b \in Byte : a + 256 * b \in Nat
      BY DEF Byte
    <3> QED BY <2>1, <2>2, <3>1
  <2>4. At16(2) < Len(mod.funcs)
    BY <1>2, <1>3 DEF SafeInstr, Op, At16
  <2>5. Len(mod.funcs) \in Nat
    BY ModuleFacts DEF Sane, VerifierType
  <2> QED BY <2>3, <2>4, <2>5 DEF FuncIdx
<1>6. ASSUME NEW i \in 1 .. At(4) PROVE Reg(4 + i) \in ValueN(m)
  <2>1. 4 + i \in 1 .. Size(Top.fn, Top.pc) - 1
    BY <1>2, <1>4
  <2>2. At(4 + i) \in Byte
    BY <1>3, <2>1
  <2>3. At(4 + i) < NumRegs(Top.fn)
    <3>1. u8(Top.fn, Top.pc + 4 + i) < NumRegs(Top.fn)
      BY <1>2, <1>3 DEF SafeInstr, Op, At
    <3>2. Top.pc + (4 + i) = Top.pc + 4 + i
      BY <1>3
    <3> QED BY <3>1, <3>2 DEF At
  <2>4. NumRegs(Top.fn) \in Byte
    BY <1>3, ModuleFacts DEF Sane, VerifierType
  <2>5. At(4 + i) \in Registers(Top.fn)
    <3>1. \A n \in Byte : \A a \in Byte : a < n => a \in 0 .. n - 1
      BY DEF Byte
    <3> QED BY <2>2, <2>3, <2>4, <3>1 DEF Registers
  <2> QED BY <1>3, <2>5 DEF GoodFrame, Reg
<1>7. upvalues \in Seq(ValueN(m + 1))
  <2>1. ValueN(m) \subseteq ValueN(m + 1)
    <3>1. 1 .. m \subseteq 1 .. m + 1
      BY <1>3
    <3>2. [tag : {"Closure"}, truthy : {TRUE}, ref : 1 .. m]
             \subseteq [tag : {"Closure"}, truthy : {TRUE}, ref : 1 .. m + 1]
      BY <3>1
    <3> QED BY <3>2 DEF ValueN
  <2>2. \A i \in 1 .. At(4) : Reg(4 + i) \in ValueN(m + 1)
    BY <1>6, <2>1
  <2> QED BY <1>4, <2>2, IsASeq
<1>8. record \in ClosureN(m + 1)
  <2> HIDE DEF upvalues
  <2> QED BY <1>5, <1>7 DEF ClosureN
<1>9. closures \in Seq(ClosureN(m + 1))
  <2>1. \A i \in 1 .. Len(closures) : closures[i] \in ClosureN(m + 1)
    <3> SUFFICES ASSUME NEW i \in 1 .. Len(closures) PROVE closures[i] \in ClosureN(m + 1)
      OBVIOUS
    <3>1. closures[i] \in ClosureN(m)
      BY <1>3, ElementOfSeq
    <3>2. closures[i].upvalues \in Seq(ValueN(m))
      BY <3>1 DEF ClosureN
    <3>3. closures[i].upvalues \in Seq(ValueN(m + 1))
      <4>1. ValueN(m) \subseteq ValueN(m + 1)
        <5>1. 1 .. m \subseteq 1 .. m + 1
          BY <1>3
        <5>2. [tag : {"Closure"}, truthy : {TRUE}, ref : 1 .. m]
                 \subseteq [tag : {"Closure"}, truthy : {TRUE}, ref : 1 .. m + 1]
          BY <5>1
        <5> QED BY <5>2 DEF ValueN
      <4>2. \A j \in 1 .. Len(closures[i].upvalues) : closures[i].upvalues[j] \in ValueN(m + 1)
        BY <3>2, <4>1, ElementOfSeq
      <4> QED BY <3>2, <4>2, Resequence
    <3> QED BY <3>1, <3>3 DEF ClosureN
  <2> QED BY <1>3, <2>1, Resequence
<1> HIDE DEF record
<1>10. ASSUME closures' = Append(closures, record), Put(At(1), new, 5 + At(4))
       PROVE  StillSane
  <2>1. closures' \in Seq(ClosureN(m + 1)) /\ Len(closures') = m + 1
    BY <1>8, <1>9, <1>10, AppendProperties
  <2>2. m + 1 \in Nat /\ Len(closures) <= m + 1 /\ new \in ValueN(m + 1)
    <3>1. m + 1 \in Nat /\ m <= m + 1 /\ m + 1 \in 1 .. m + 1
      BY <1>3
    <3> QED BY <3>1 DEF ValueN
  <2>3. At(1) \in Registers(Top.fn) /\ Top.pc + (5 + At(4)) \in Boundary(Top.fn)
    BY <1>2, Register, Fetched
  <2> HIDE DEF new
  <2> QED BY <1>2, <1>10, <2>1, <2>2, <2>3, PutStep
<1> HIDE DEF new
<1> QED BY <1>1, <1>10, RaiseStep

\* Leaving the loop, and returning.
LEMMA LeaveSteps ==
  ASSUME Sane, UNCHANGED <<mod, vvars>>, OutOfBudget \/ LoopEnds \/ RunOff \/ Ret \/ Halt
  PROVE  StillSane
<1>0. insns \in Nat /\ insns + 1 \in Nat /\ error \in Errors
  BY DEF Sane, InterpType
<1>1. CASE OutOfBudget
  <2>1. UNCHANGED <<frames, closures>> /\ status' \in {"running", "done"}
        /\ error' \in Errors /\ insns' \in Nat
    BY <1>0, <1>1 DEF OutOfBudget, Errors
  <2> QED BY <2>1, KeepStep
<1>2. CASE LoopEnds
  <2>1. UNCHANGED <<frames, closures>> /\ status' \in {"running", "done"}
        /\ error' \in Errors /\ insns' \in Nat
    BY <1>0, <1>2 DEF LoopEnds
  <2> QED BY <2>1, KeepStep
<1>3. CASE RunOff
  <2>1. Looping /\ insns' \in Nat /\ DoReturn(Nil)
    BY <1>0, <1>3 DEF RunOff, Counts
  <2> QED BY <2>1, PlainValues, ReturnStep
<1>4. CASE Ret
  <2>1. Dispatch({OP_RET}) /\ DoReturn(Reg(1))
    BY <1>4 DEF Ret
  <2>2. /\ Looping /\ Top.pc < CodeLen(Top.fn) /\ insns' \in Nat /\ 1 \in RegisterOperands(Op)
    <3>1. /\ Op \in {2, 80, 49, 35} /\ Op = u8(Top.fn, Top.pc)
          /\ Looping /\ Top.pc < CodeLen(Top.fn) /\ insns' \in Nat
      BY <2>1, Dispatched
    <3> QED BY <3>1, Table
  <2>3. Reg(1) \in ValueN(Len(closures))
    BY <2>2, Register
  <2> QED BY <2>1, <2>2, <2>3, ReturnStep
<1>5. CASE Halt
  <2>1. /\ Looping /\ Top.pc < CodeLen(Top.fn) /\ insns' \in Nat
        /\ \/ Raised
           \/ frames' = <<>> /\ UNCHANGED <<status, error, closures>>
    BY <1>0, <1>5 DEF Halt, Counts, Raise, Raised, Errors
  <2>2. ASSUME Raised PROVE StillSane
    BY <2>1, <2>2, KeepStep DEF Raised
  <2>3. ASSUME frames' = <<>>, UNCHANGED <<status, error, closures>> PROVE StillSane
    <3>1. status' \in {"running", "done"} /\ error' \in Errors
      BY <1>0, <2>1, <2>3 DEF Looping
    <3> QED BY <2>1, <2>3, <3>1, EmptyStep
  <2> QED BY <2>1, <2>2, <2>3
<1> QED BY <1>1, <1>2, <1>3, <1>4, <1>5

LEMMA StartStep ==
  ASSUME Sane, UNCHANGED <<mod, vvars>>, Start PROVE StillSane
<1>1. /\ UNCHANGED <<closures, insns>> /\ frames = <<>>
      /\ insns \in Nat /\ error \in Errors
  BY DEF Start, Sane, InterpType, FramesInv
<1>2. CASE mod.entry_func >= Len(mod.funcs)
  <2>1. /\ status' = "done" /\ error' \in Errors /\ UNCHANGED frames
    BY <1>2 DEF Start, Errors
  <2> QED BY <1>1, <2>1, KeepStep
<1>3. CASE ~(mod.entry_func >= Len(mod.funcs))
  <2> DEFINE f == mod.entry_func
             fr == NewFrame(f, 0, 0, [r \in Registers(f) |-> Nil])
             m == Len(closures)
  <2>1. status' = "running" /\ UNCHANGED error /\ frames' = <<fr>>
    BY <1>3 DEF Start
  <2>2. f \in FuncIdx
    <3>1. f \in Nat /\ Len(mod.funcs) \in Nat
      <4>1. mod \in Module
        BY ModulesAssumption DEF Sane, VerifierType
      <4> QED BY <4>1, ModuleFacts DEF Module, Sane, VerifierType
    <3> QED BY <1>3, <3>1 DEF FuncIdx
  <2> HIDE DEF f
  <2>3. m \in Nat /\ closures \in Seq(ClosureN(m))
    BY SaneStack
  <2>4. GoodFrame(fr, m)
    <3>1. /\ fr.fn = f /\ fr.pc = 0 /\ fr.result_reg = 0 /\ fr.closure = 0
          /\ fr.regs = [r \in Registers(f) |-> Nil]
      BY DEF NewFrame
    <3>2. fr.regs \in [Registers(f) -> ValueN(m)]
      BY <3>1, PlainValues
    <3>3. 0 \in Boundary(f)
      BY <2>2 DEF Sane, VerifierInv, Checked, Swept, Boundary
    <3>4. 0 \in Byte /\ 0 \in 0 .. m
      BY <2>3 DEF Byte
    <3>5. fr \in FrameN(m)
      BY <2>2, <3>1, <3>2, <3>4 DEF NewFrame, FrameN
    <3> HIDE DEF fr
    <3> QED BY <3>1, <3>2, <3>3, <3>5 DEF GoodFrame
  <2> HIDE DEF fr
  <2>5. Stack(<<fr>>, m)
    <3>1. <<fr>> \in Seq(FrameN(m)) /\ Len(<<fr>>) = 1 /\ <<fr>>[1] = fr
      BY <2>4 DEF GoodFrame
    <3> QED BY <2>4, <3>1 DEF Stack
  <2> QED BY <1>1, <2>1, <2>3, <2>5, NextStack
<1> QED BY <1>2, <1>3

LEMMA InterpreterStep ==
  ASSUME Sane, UNCHANGED <<mod, vvars>>, INext PROVE StillSane
BY StartStep, LeaveSteps, LoadConstStep, LoadNilStep, MoveStep, BinaryOpStep, UnaryOpStep,
   NewContainerStep, ContainerStep, PrintStep, JumpSteps, CallStep, CallNativeStep,
   MakeClosureStep, GetUpvalStep, CallValueStep
   DEF INext

-----------------------------------------------------------------------------
(***************************************************************************)
(* The invariant is inductive, and keeps accesses in range.                *)
(***************************************************************************)
LEMMA InitInv == Init => IInv
<1> SUFFICES ASSUME Init PROVE IInv
  OBVIOUS
<1>1. /\ mod \in Modules /\ verdict = "pending" /\ vfn = 0 /\ pass = "enter" /\ vpc = 0
      /\ is_start = [f \in FuncIdx |-> {}] /\ jumps = {}
      /\ status = "idle" /\ error = "" /\ frames = <<>> /\ closures = <<>> /\ insns = 0
  BY DEF Init, VInit, IInit
<1>2. Len(mod.funcs) \in Nat /\ \A f \in FuncIdx : f \in Nat
  <2>1. Len(mod.funcs) \in Nat
    BY <1>1, ModuleFacts
  <2> QED BY <2>1 DEF FuncIdx
<1>3. VerifierType
  <2>1. vfn \in 0 .. Len(mod.funcs) /\ vpc \in Nat
    <3>1. \A n \in Nat : 0 \in 0 .. n
      OBVIOUS
    <3> QED BY <1>1, <1>2, <3>1
  <2>2. is_start \in [FuncIdx -> SUBSET Nat]
    BY <1>1
  <2> QED BY <1>1, <2>1, <2>2 DEF VerifierType
<1>4. frames \in Seq(Frame) /\ Len(frames) = 0
      /\ closures \in Seq([func_index : FuncIdx, upvalues : Seq(Value)])
  BY <1>1, EmptySeq
<1>a. 1 .. Len(frames) = {} /\ 1 .. Len(frames) - 1 = {}
  <2>1. 1 .. 0 = {} /\ 1 .. 0 - 1 = {}
    OBVIOUS
  <2> QED BY <1>4, <2>1
<1>5. InterpType
  <2>1. error \in Errors /\ insns \in Nat /\ status \in {"idle", "running", "done"}
    BY <1>1 DEF Errors
  <2> QED BY <1>4, <1>a, <2>1 DEF InterpType
<1>6. VerifierInv
  <2>1. \A f \in FuncIdx : ~(f < vfn)
    <3>1. \A n \in Nat : ~(n < 0)
      OBVIOUS
    <3> QED BY <1>1, <1>2, <3>1
  <2>2. \A f \in FuncIdx : is_start[f] = {}
    BY <1>1
  <2> QED BY <1>1, <2>1, <2>2 DEF VerifierInv
<1>7. FramesInv
  BY <1>1, <1>a DEF FramesInv
<1> QED BY <1>3, <1>5, <1>6, <1>7 DEF IInv, TypeOK

\* While the module is being verified the interpreter is idle.
LEMMA VerifyKeepsFrames ==
  ASSUME IInv, VNext, UNCHANGED ivars
  PROVE  StillSane
<1>1. /\ verdict = "pending" /\ UNCHANGED mod
      /\ UNCHANGED <<status, error, frames, closures, insns>>
  BY DEF VNext, EnterFn, DecodeInstr, DecodeDone, ResolveJump, FnDone, Accept, Pending, ivars
<1>2. status = "idle" /\ frames = <<>>
  BY <1>1 DEF IInv, FramesInv
<1>3. Len(frames) = 0
  BY <1>2, EmptySeq
<1>4. FuncIdx' = FuncIdx /\ Value' = Value
  BY <1>1 DEF FuncIdx, Value
<1>5. InterpType'
  <2>1. frames' \in Seq(Frame')
    BY <1>1, <1>2, EmptySeq
  <2>2. closures' \in Seq([func_index : FuncIdx', upvalues : Seq(Value')])
    BY <1>1, <1>4 DEF IInv, TypeOK, InterpType
  <2> QED BY <1>1, <1>2, <1>3, <2>1, <2>2 DEF IInv, TypeOK, InterpType
<1>6. FramesInv'
  BY <1>1, <1>2, <1>3 DEF FramesInv
<1> QED BY <1>5, <1>6 DEF StillSane

LEMMA NextInv == IInv /\ [Next]_vars => IInv'
<1> SUFFICES ASSUME IInv, [Next]_vars PROVE IInv'
  OBVIOUS
<1>1. CASE Verify
  <2>1. VerifierType' /\ VerifierInv'
    BY <1>1, VerifierStep DEF Verify, IInv, TypeOK
  <2>2. StillSane
    BY <1>1, VerifyKeepsFrames DEF Verify
  <2> QED BY <2>1, <2>2 DEF IInv, TypeOK, StillSane
<1>2. CASE Run
  <2>1. Sane /\ UNCHANGED <<mod, vvars>> /\ INext
    BY <1>2 DEF Run, INext, Sane, IInv, TypeOK
  <2>2. VerifierType' /\ VerifierInv'
    BY <2>1, VerifierRests DEF Sane
  <2>3. StillSane
    BY <2>1, InterpreterStep
  <2> QED BY <2>2, <2>3 DEF IInv, TypeOK, StillSane
<1>3. CASE UNCHANGED vars
  <2>1. UNCHANGED <<mod, vvars>> /\ UNCHANGED <<status, error, frames, closures, insns>>
    BY <1>3 DEF vars, ivars
  <2>2. VerifierType' /\ VerifierInv'
    BY <2>1, VerifierRests DEF IInv, TypeOK
  <2>3. InterpType' /\ FramesInv'
    <3>1. UNCHANGED <<mod, is_start, verdict>>
      BY <2>1 DEF vvars
    <3> QED BY <2>1, <3>1 DEF IInv, TypeOK, InterpType, FramesInv, Frame, Value, FuncIdx,
                            Registers, NumRegs, CodeLen, Fn
  <2> QED BY <2>2, <2>3 DEF IInv, TypeOK
<1> QED BY <1>1, <1>2, <1>3 DEF Next, Rest

LEMMA Safety == IInv => AccessesInRange
<1> SUFFICES ASSUME IInv, Running PROVE
      /\ Top.pc < CodeLen(Top.fn) => SafeInstr(Top.fn, Top.pc)
      /\ \A f \in FuncIdx : Fn(f).num_params <= NumRegs(f)
  BY DEF AccessesInRange
<1>1. Sane /\ Looping
  BY DEF Running, Looping, Sane, IInv, TypeOK, FramesInv
<1>2. Top.pc < CodeLen(Top.fn) => SafeInstr(Top.fn, Top.pc)
  BY <1>1, Fetched
<1>3. \A f \in FuncIdx : Fn(f).num_params <= NumRegs(f)
  BY <1>1 DEF Sane, VerifierInv, Checked, ParamsFit
<1> QED BY <1>2, <1>3

-----------------------------------------------------------------------------
(***************************************************************************)
(* Calls nest.  Which way a step changes the stack decides whether every   *)
(* caller still rests behind the call it made.                             *)
(***************************************************************************)
Links(caller, callee) ==
  /\ callee.result_reg < NumRegs(caller.fn)
  /\ \E s \in is_start[caller.fn] :
       /\ caller.pc = s + Size(caller.fn, s)
       /\ u8(caller.fn, s) \in {OP_CALL, OP_CALL_VALUE}
       /\ u8(caller.fn, s + 1) = callee.result_reg

Nested(fs) ==
  /\ \A i \in 1 .. Len(fs) - 1 : Links(fs[i], fs[i + 1])
  /\ Len(fs) <= max_depth \/ Len(fs) <= 1

LEMMA NestedNow == CallsNest <=> Nested(frames)
BY DEF CallsNest, ReturnLinked, DepthBounded, Nested, Links

LEMMA NestedNext ==
  ASSUME UNCHANGED <<mod, vvars>>, NEW fs, Nested(fs), frames' = fs PROVE CallsNest'
<1>1. mod' = mod /\ is_start' = is_start
  BY DEF vvars
<1>2. \A f : NumRegs(f)' = NumRegs(f)
  BY <1>1 DEF NumRegs, Fn
<1>3. \A f, s : u8(f, s)' = u8(f, s)
  BY <1>1 DEF u8, Fn
<1>4. \A f, s : Size(f, s)' = Size(f, s)
  BY <1>3 DEF Size
<1>5. ReturnLinked'
  BY <1>1, <1>2, <1>3, <1>4 DEF ReturnLinked, Nested, Links
<1>6. DepthBounded'
  BY DEF DepthBounded, Nested
<1> QED BY <1>5, <1>6 DEF CallsNest

\* The frames below the top are as they were.
LEMMA NestedTop ==
  ASSUME NEW S, NEW fs \in Seq(S), fs # <<>>, Nested(fs), NEW fr,
         fr.result_reg = fs[Len(fs)].result_reg
  PROVE  Nested([fs EXCEPT ![Len(fs)] = fr])
<1> DEFINE gs == [fs EXCEPT ![Len(fs)] = fr]
<1>1. Len(fs) \in Nat \ {0} /\ fs \in Seq(S \cup {fr})
  BY EmptySeq, LenProperties, SeqMonotonic
<1>2. Len(gs) = Len(fs) /\ \A i \in 1 .. Len(fs) : gs[i] = IF i = Len(fs) THEN fr ELSE fs[i]
  BY <1>1, ExceptSeq
<1>3. ASSUME NEW i \in 1 .. Len(fs) - 1 PROVE Links(gs[i], gs[i + 1])
  <2>1. i \in 1 .. Len(fs) /\ i + 1 \in 1 .. Len(fs) /\ i # Len(fs)
    BY <1>1
  <2>2. gs[i + 1].result_reg = fs[i + 1].result_reg /\ gs[i] = fs[i]
    BY <1>2, <2>1
  <2> QED BY <1>3, <2>2 DEF Nested, Links
<1> QED BY <1>2, <1>3 DEF Nested

LEMMA NestedPush ==
  ASSUME NEW S, NEW fs \in Seq(S), fs # <<>>, Nested(fs), Len(fs) < max_depth,
         NEW fr, Links(fs[Len(fs)], fr)
  PROVE  Nested(Append(fs, fr))
<1> DEFINE gs == Append(fs, fr)
<1>1. Len(fs) \in Nat \ {0} /\ fs \in Seq(S \cup {fr}) /\ max_depth \in Nat
  BY EmptySeq, LenProperties, SeqMonotonic, LimitsAssumption
<1>2. Len(gs) = Len(fs) + 1 /\ (\A i \in 1 .. Len(fs) : gs[i] = fs[i]) /\ gs[Len(fs) + 1] = fr
  BY <1>1, AppendProperties
<1> HIDE DEF gs
<1>3. ASSUME NEW i \in 1 .. Len(gs) - 1 PROVE Links(gs[i], gs[i + 1])
  <2>1. i \in 1 .. Len(fs)
    BY <1>1, <1>2
  <2>2. CASE i = Len(fs)
    BY <1>2, <2>1, <2>2
  <2>3. CASE i # Len(fs)
    <3>1. i \in 1 .. Len(fs) - 1 /\ i + 1 \in 1 .. Len(fs)
      BY <1>1, <2>1, <2>3
    <3> QED BY <1>2, <2>1, <3>1 DEF Nested
  <2> QED BY <2>2, <2>3
<1>4. Len(gs) <= max_depth
  BY <1>1, <1>2
<1> QED BY <1>3, <1>4 DEF Nested, gs

LEMMA NestedPop ==
  ASSUME NEW n \in Nat, NEW fs, Stack(fs, n), fs # <<>>, Nested(fs)
  PROVE  Nested(SubSeq(fs, 1, Len(fs) - 1))
<1> DEFINE gs == SubSeq(fs, 1, Len(fs) - 1)
<1>1. Len(fs) \in Nat \ {0} /\ max_depth \in Nat
  BY EmptySeq, LenProperties, LimitsAssumption DEF Stack
<1>2. Len(gs) = Len(fs) - 1 /\ \A i \in 1 .. Len(fs) - 1 : gs[i] = fs[i]
  BY StackPop
<1> HIDE DEF gs
<1>3. ASSUME NEW i \in 1 .. Len(gs) - 1 PROVE Links(gs[i], gs[i + 1])
  <2>1. i \in 1 .. Len(fs) - 1 /\ i + 1 \in 1 .. Len(fs) - 1
    BY <1>1, <1>2
  <2> QED BY <1>2, <2>1 DEF Nested
<1>4. Len(gs) <= max_depth \/ Len(gs) <= 1
  BY <1>1, <1>2 DEF Nested
<1> QED BY <1>3, <1>4 DEF Nested, gs

LEMMA NestedShort ==
  ASSUME NEW fs, Len(fs) = 0 \/ Len(fs) = 1 PROVE Nested(fs)
<1>1. 1 .. Len(fs) - 1 = {} /\ Len(fs) <= 1
  <2>1. 1 .. 0 - 1 = {} /\ 1 .. 1 - 1 = {}
    OBVIOUS
  <2>2. Len(fs) <= 1
    OBVIOUS
  <2> QED BY <2>1, <2>2
<1> QED BY <1>1 DEF Nested

\* An instruction that stays in its frame keeps that frame's result register.
LEMMA StayNests ==
  ASSUME Sane, UNCHANGED <<mod, vvars>>, Looping, Nested(frames),
         \/ UNCHANGED frames
         \/ \E r, v, size : Put(r, v, size)
         \/ \E delta : Skip(delta)
  PROVE  CallsNest'
<1>1. /\ frames \in Seq(FrameN(Len(closures))) /\ frames # <<>>
      /\ Top \in FrameN(Len(closures)) /\ Top = frames[Len(frames)]
  BY SaneStack, Fetched DEF Looping, Stack, GoodFrame, Top
<1>2. CASE UNCHANGED frames
  BY <1>2, NestedNext
<1>3. ASSUME NEW r, NEW v, NEW size, Put(r, v, size) PROVE CallsNest'
  <2>1. Advance(SetReg(Top, r, v), size).result_reg = Top.result_reg
    BY <1>1 DEF Advance, SetReg, FrameN
  <2>2. frames' = [frames EXCEPT ![Len(frames)] = Advance(SetReg(Top, r, v), size)]
    BY <1>3 DEF Put
  <2>3. Nested([frames EXCEPT ![Len(frames)] = Advance(SetReg(Top, r, v), size)])
    BY <1>1, <2>1, NestedTop
  <2> QED BY <2>2, <2>3, NestedNext
<1>4. ASSUME NEW delta, Skip(delta) PROVE CallsNest'
  <2>1. Advance(Top, delta).result_reg = Top.result_reg
    BY <1>1 DEF Advance, FrameN
  <2>2. frames' = [frames EXCEPT ![Len(frames)] = Advance(Top, delta)]
    BY <1>4 DEF Skip
  <2>3. Nested([frames EXCEPT ![Len(frames)] = Advance(Top, delta)])
    BY <1>1, <2>1, NestedTop
  <2> QED BY <2>2, <2>3, NestedNext
<1> QED BY <1>2, <1>3, <1>4

\* A return uncovers a frame and writes to its register file only.
LEMMA ReturnNests ==
  ASSUME Sane, UNCHANGED <<mod, vvars>>, Looping, Nested(frames), NEW v, DoReturn(v)
  PROVE  CallsNest'
<1> DEFINE n == Len(frames) - 1
           gs == SubSeq(frames, 1, n)
           fr == SetReg(frames[n], Top.result_reg, v)
<1>1. /\ Stack(frames, Len(closures)) /\ Len(closures) \in Nat /\ frames # <<>>
      /\ Len(frames) \in Nat \ {0}
  BY SaneStack, Fetched DEF Looping
<1>2. CASE n = 0
  <2>1. frames' = <<>> /\ Len(<<>>) = 0
    BY <1>2, EmptySeq DEF DoReturn
  <2> QED BY <2>1, NestedShort, NestedNext
<1>3. CASE n # 0
  <2>1. frames' = [gs EXCEPT ![n] = fr]
    BY <1>3 DEF DoReturn
  <2>2. /\ gs \in Seq(FrameN(Len(closures))) /\ Len(gs) = n
        /\ \A i \in 1 .. n : gs[i] = frames[i] /\ gs[i] \in FrameN(Len(closures))
    <3>1. Stack(gs, Len(closures)) /\ Len(gs) = n /\ \A i \in 1 .. n : gs[i] = frames[i]
      BY <1>1, StackPop
    <3> QED BY <3>1 DEF Stack, GoodFrame
  <2>3. n \in 1 .. n
    <3>1. \A k \in Nat \ {0} : k - 1 # 0 => k - 1 \in 1 .. k - 1
      OBVIOUS
    <3> QED BY <1>1, <1>3, <3>1
  <2>4. fr.result_reg = gs[n].result_reg
    BY <2>2, <2>3 DEF SetReg, FrameN
  <2>5. Nested(gs)
    BY <1>1, NestedPop
  <2> HIDE DEF gs, fr
  <2>6. gs # <<>>
    BY <1>3, <2>2, EmptySeq
  <2>7. Nested([gs EXCEPT ![Len(gs)] = fr])
    BY <2>2, <2>4, <2>5, <2>6, NestedTop
  <2> QED BY <2>1, <2>2, <2>7, NestedNext
<1> QED BY <1>2, <1>3

\* The caller of a pushed frame rests right behind the call instruction.
LEMMA EnterNests ==
  ASSUME Sane, UNCHANGED <<mod, vvars>>, Looping, Nested(frames),
         Top.pc < CodeLen(Top.fn), 1 \in RegisterOperands(Op),
         Op \in {OP_CALL, OP_CALL_VALUE}, DepthOk,
         NEW callee, NEW args, NEW n, NEW closure, NEW size, size = Size(Top.fn, Top.pc),
         Enter(callee, At(1), args, n, closure, size)
  PROVE  CallsNest'
<1> DEFINE m == Len(closures)
           caller == Advance(Top, size)
           gs == [frames EXCEPT ![Len(frames)] = caller]
           regs == [r \in Registers(callee) |->
                      IF r < Fn(callee).num_params /\ r < n THEN Top.regs[args + r] ELSE Nil]
           fr == NewFrame(callee, At(1), closure, regs)
<1>1. /\ frames \in Seq(FrameN(m)) /\ frames # <<>> /\ Len(frames) \in Nat \ {0}
      /\ Top \in FrameN(m) /\ Top = frames[Len(frames)] /\ Top.pc \in Boundary(Top.fn)
      /\ Top.fn \in FuncIdx /\ Top.pc \in Nat
  BY SaneStack, Fetched DEF Looping, Stack, GoodFrame, Top
<1>2. /\ caller.fn = Top.fn /\ caller.pc = Top.pc + size
      /\ caller.result_reg = Top.result_reg
  BY <1>1 DEF Advance, FrameN
<1>3. fr.result_reg = At(1)
  BY DEF NewFrame
<1>4. Top.pc \in is_start[Top.fn]
  <2>1. CodeLen(Top.fn) \in Nat
    BY <1>1, ModuleFacts DEF Sane, VerifierType
  <2> QED BY <1>1, <2>1 DEF Boundary
<1>5. frames' = Append(gs, fr)
  BY DEF Enter, Top
<1> HIDE DEF fr, caller
<1>6. Nested(gs)
  BY <1>1, <1>2, NestedTop
<1>7. /\ gs \in Seq(FrameN(m) \cup {caller}) /\ Len(gs) = Len(frames)
      /\ gs[Len(gs)] = caller /\ gs # <<>>
  <2>1. frames \in Seq(FrameN(m) \cup {caller}) /\ Len(frames) \in 1 .. Len(frames)
    BY <1>1, SeqMonotonic
  <2>2. /\ gs \in Seq(FrameN(m) \cup {caller}) /\ Len(gs) = Len(frames)
        /\ gs[Len(frames)] = caller
    BY <2>1, ExceptSeq
  <2> QED BY <1>1, <2>2, EmptySeq
<1>8. Links(caller, fr)
  <2>1. At(1) < NumRegs(Top.fn)
    <3>1. SafeInstr(Top.fn, Top.pc)
      BY Fetched
    <3> QED BY <3>1 DEF SafeInstr, At, Op
  <2>2. u8(Top.fn, Top.pc) \in {OP_CALL, OP_CALL_VALUE} /\ u8(Top.fn, Top.pc + 1) = At(1)
    BY DEF Op, At
  <2> QED BY <1>2, <1>3, <1>4, <2>1, <2>2 DEF Links
<1> HIDE DEF gs
<1>9. Nested(Append(gs, fr))
  BY <1>6, <1>7, <1>8, NestedPush DEF DepthOk
<1> QED BY <1>5, <1>9, NestedNext

\* Which instructions stay in their frame.
LEMMA Stays ==
  ASSUME \/ LoadConst \/ LoadNil \/ Move \/ BinaryOp \/ UnaryOp \/ NewContainer
         \/ ArrayGet \/ ArraySet \/ ArrayPush \/ GetProp \/ SetProp \/ PrintValue
         \/ Jump \/ JumpIfFalse \/ CallNative \/ MakeClosure \/ GetUpval
  PROVE  /\ Looping
         /\ \/ UNCHANGED frames
            \/ \E r, v, size : Put(r, v, size)
            \/ \E delta : Skip(delta)
<1> DEFINE Stay == \/ UNCHANGED frames
                   \/ \E r, v, size : Put(r, v, size)
                   \/ \E delta : Skip(delta)
<1>1. ASSUME NEW ops, Dispatch(ops) PROVE Looping
  BY <1>1 DEF Dispatch, Counts
<1>2. ASSUME NEW msg, Raise(msg) PROVE Stay
  BY <1>2 DEF Raise
<1>3. ASSUME NEW r, NEW v, NEW size, Put(r, v, size) PROVE Stay
  BY <1>3
<1>4. ASSUME NEW delta, Skip(delta) PROVE Stay
  BY <1>4
<1> HIDE DEF Stay
<1>5. CASE LoadConst \/ LoadNil \/ Move \/ NewContainer
  BY <1>1, <1>2, <1>3, <1>5, Zenon DEF LoadConst, LoadNil, Move, NewContainer, Stay
<1>6. CASE BinaryOp
  BY <1>1, <1>2, <1>3, <1>6, Zenon DEF BinaryOp, Stay
<1>13. CASE UnaryOp
  <2>1. Dispatch(Unary) /\ ((\E v : Put(At(1), v, 3)) \/ \E msg : Raise(msg))
    BY <1>13, Zenon DEF UnaryOp
  <2> QED BY <1>1, <1>2, <1>3, <2>1, Zenon DEF Stay
<1>7. CASE ArrayGet \/ ArraySet \/ ArrayPush
  BY <1>1, <1>2, <1>3, <1>4, <1>7, Zenon DEF ArrayGet, ArraySet, ArrayPush, Stay
<1>8. CASE GetProp \/ SetProp \/ PrintValue
  BY <1>1, <1>2, <1>3, <1>4, <1>8, Zenon DEF GetProp, SetProp, PrintValue, Stay
<1>9. CASE Jump \/ JumpIfFalse
  BY <1>1, <1>4, <1>9, Zenon DEF Jump, JumpIfFalse, Stay
<1>10. CASE CallNative
  BY <1>1, <1>2, <1>3, <1>10, Zenon DEF CallNative, Stay
<1>11. CASE MakeClosure
  BY <1>1, <1>2, <1>3, <1>11, Zenon DEF MakeClosure, Stay
<1>12. CASE GetUpval
  BY <1>1, <1>2, <1>3, <1>12, Zenon DEF GetUpval, Stay
<1> QED BY <1>5, <1>6, <1>7, <1>8, <1>9, <1>10, <1>11, <1>12, <1>13

LEMMA CallNests ==
  ASSUME Sane, UNCHANGED <<mod, vvars>>, Nested(frames), Call \/ CallValue PROVE CallsNest'
<1>1. CASE Call
  <2>1. /\ Dispatch({OP_CALL})
        /\ \/ UNCHANGED frames
           \/ DepthOk /\ \E callee : Enter(callee, At(1), At(1), At(4), 0, 5)
    BY <1>1, Zenon DEF Call, Raise
  <2>2. /\ Op \in {48, 50} /\ Op = u8(Top.fn, Top.pc) /\ Op \in {OP_CALL, OP_CALL_VALUE}
        /\ Looping /\ Top.pc < CodeLen(Top.fn)
    BY <2>1, Dispatched
  <2>3. Size(Top.fn, Top.pc) = 5 /\ 1 \in RegisterOperands(Op)
    BY <2>2, Table
  <2> QED BY <2>1, <2>2, <2>3, StayNests, EnterNests
<1>2. CASE CallValue
  <2>1. /\ Dispatch({OP_CALL_VALUE})
        /\ \/ UNCHANGED frames
           \/ DepthOk /\ \E callee, cl : Enter(callee, At(1), At(1) + 1, At(2), cl, 3)
    BY <1>2, Zenon DEF CallValue, Raise
  <2>2. /\ Op \in {100, 101} /\ Op = u8(Top.fn, Top.pc) /\ Op \in {OP_CALL, OP_CALL_VALUE}
        /\ Looping /\ Top.pc < CodeLen(Top.fn)
    BY <2>1, Dispatched
  <2>3. Size(Top.fn, Top.pc) = 3 /\ 1 \in RegisterOperands(Op)
    BY <2>2, Table
  <2> QED BY <2>1, <2>2, <2>3, StayNests, EnterNests
<1> QED BY <1>1, <1>2

LEMMA StepNests ==
  ASSUME Sane, UNCHANGED <<mod, vvars>>, Nested(frames), INext PROVE CallsNest'
<1>1. CASE Start
  <2>1. UNCHANGED frames \/ \E fr : frames' = <<fr>>
    BY <1>1 DEF Start
  <2>2. ASSUME NEW fr, frames' = <<fr>> PROVE CallsNest'
    <3>1. Len(<<fr>>) = 1
      OBVIOUS
    <3> QED BY <2>2, <3>1, NestedShort, NestedNext
  <2> QED BY <2>1, <2>2, NestedNext
<1>2. CASE OutOfBudget \/ LoopEnds
  BY <1>2, NestedNext DEF OutOfBudget, LoopEnds
<1>3. CASE RunOff \/ Ret
  BY <1>3, ReturnNests DEF RunOff, Ret, Dispatch, Counts
<1>4. CASE Halt
  <2>1. UNCHANGED frames \/ frames' = <<>>
    BY <1>4 DEF Halt, Raise
  <2>2. Nested(<<>>)
    BY EmptySeq, NestedShort
  <2> QED BY <2>1, <2>2, NestedNext
<1>5. CASE Call \/ CallValue
  BY <1>5, CallNests
<1>6. CASE \/ LoadConst \/ LoadNil \/ Move \/ BinaryOp \/ UnaryOp \/ NewContainer
           \/ ArrayGet \/ ArraySet \/ ArrayPush \/ GetProp \/ SetProp \/ PrintValue
           \/ Jump \/ JumpIfFalse \/ CallNative \/ MakeClosure \/ GetUpval
  BY <1>6, Stays, StayNests
<1> QED BY <1>1, <1>2, <1>3, <1>4, <1>5, <1>6 DEF INext

LEMMA NextNests == IInv /\ CallsNest /\ [Next]_vars => CallsNest'
<1> SUFFICES ASSUME IInv, Nested(frames), [Next]_vars PROVE CallsNest'
  BY NestedNow
<1>1. CASE Verify
  <2>1. UNCHANGED frames /\ verdict = "pending"
    BY <1>1 DEF Verify, ivars, VNext, EnterFn, DecodeInstr, DecodeDone, ResolveJump, FnDone,
                Accept, Pending
  <2>2. frames' = <<>> /\ Len(<<>>) = 0
    BY <2>1, EmptySeq DEF IInv, FramesInv
  <2> QED BY <2>2 DEF CallsNest, ReturnLinked, DepthBounded
<1>2. CASE Run
  <2>1. Sane /\ UNCHANGED <<mod, vvars>> /\ INext
    BY <1>2 DEF Run, INext, Sane, IInv, TypeOK
  <2> QED BY <2>1, StepNests
<1>3. CASE UNCHANGED vars
  BY <1>3, NestedNext DEF vars, ivars
<1> QED BY <1>1, <1>2, <1>3 DEF Next, Rest

-----------------------------------------------------------------------------
(***************************************************************************)
(* The theorems.                                                           *)
(***************************************************************************)
\* The inductive invariant holds in every reachable state: the verifier's sweep
\* and its resolution of jumps mean what VerifierInv says, and every frame rests
\* on an instruction boundary with the register file its function declares.
THEOREM Invariance == Spec => []IInv
BY InitInv, NextInv, PTL DEF Spec

\* The state of the verifier and of the interpreter is always well typed, the
\* register file of every frame included.
THEOREM TypeCorrect == Spec => []TypeOK
<1>1. IInv => TypeOK
  BY DEF IInv
<1> QED BY <1>1, Invariance, PTL

\* interp.h: a module that has passed the verifier is run without an operand,
\* constant, register or argument window out of range, for every module, every
\* instruction budget and depth limit, and every set of builtins.
THEOREM VerifierSound == Spec => []AccessesInRange
BY Invariance, Safety, PTL

\* interp.cc: calls nest.  At every depth a caller is suspended right behind the
\* OP_CALL or OP_CALL_VALUE that pushed the frame above it, at the register that
\* call names for its result, and the stack stays within max_depth.
THEOREM CallsNested == Spec => []CallsNest
<1>1. Init => CallsNest
  <2>1. Init => Len(frames) = 0
    BY EmptySeq DEF Init, IInit
  <2> QED BY <2>1, NestedShort, NestedNow
<1> QED BY <1>1, NextNests, Invariance, PTL DEF Spec

LEMMA SweepInit == Init => SweepInv
<1> SUFFICES ASSUME Init PROVE SweepInv
  OBVIOUS
<1>1. verdict = "pending" /\ pass = "enter" /\ vfn = 0 /\ mod \in Modules
  BY DEF Init, VInit
<1>2. \A f \in FuncIdx : ~(f < vfn)
  BY <1>1, ModuleFacts DEF FuncIdx
<1> QED BY <1>1, <1>2 DEF SweepInv

\* verifier.cc: what the verifier accepts is exactly what is well formed, said without
\* a cursor; code of any length and any number of functions.
THEOREM VerdictDecides == Spec => []VerdictExact
BY SweepInit, SweepStep, SweepExact, Invariance, PTL DEF Spec

\* The form of it that the commands run checks, on short functions.
THEOREM VerdictDecidesShort == Spec => []VerdictExactOnShort
<1>1. VerdictExact => VerdictExactOnShort
  BY DEF VerdictExactOnShort
<1> QED BY <1>1, VerdictDecides, PTL

-----------------------------------------------------------------------------
(***************************************************************************)
(* The disassembler has a layout table of its own.                         *)
(***************************************************************************)
\* The table of op_info, opcode by opcode.
LEMMA Infos ==
  ASSUME NEW op \in Byte
  PROVE  /\ op = 0 => op_info(op) = << >>
         /\ op \in {2, 80, 49, 35} => op_info(op) = <<"R">>
         /\ op \in {3, 38, 96, 97, 98} => op_info(op) = <<"R", "R">>
         /\ op \in {32, 100, 101} => op_info(op) = <<"R", "N">>
         /\ op = 1 => op_info(op) = <<"R", "K">>
         /\ op \in (16 .. 31) \cup {33, 34} => op_info(op) = <<"R", "R", "R">>
         /\ op = 36 => op_info(op) = <<"R", "R", "K">>
         /\ op = 37 => op_info(op) = <<"R", "K", "R">>
         /\ op \in {48, 50} => op_info(op) = <<"R", "K", "N">>
         /\ op = 64 => op_info(op) = <<"O">>
         /\ op = 65 => op_info(op) = <<"R", "O">>
         /\ op \notin {0, 1, 2, 3, 48, 49, 50, 64, 65, 80, 96, 97, 98, 100, 101} \cup (16 .. 38)
              => op_info(op) = <<"unknown">>
<1> USE DEF OP_HALT, OP_LOAD_CONST, OP_LOAD_NIL, OP_MOVE, Binary, Unary, Calls,
      Arithmetic, OP_MOD, Equality, Comparison, Bitwise, Shift, OP_NEG, OP_NOT, OP_BNOT,
      OP_NEW_ARRAY, OP_ARRAY_GET, OP_ARRAY_SET, OP_NEW_OBJECT, OP_GET_PROP, OP_SET_PROP,
      OP_ARRAY_PUSH, OP_CALL, OP_RET, OP_CALL_NATIVE, OP_JUMP, OP_JUMP_IF_FALSE, OP_PRINT,
      OP_CLOSURE, OP_GET_UPVAL, OP_CALL_VALUE, op_info, Byte
<1>1. op = 0 => op_info(op) = << >>
  OBVIOUS
<1>2. ASSUME op \in {2, 80, 49, 35} PROVE op_info(op) = <<"R">>
  <2>1. CASE op = 2
    BY <2>1
  <2>2. CASE op = 80
    BY <2>2
  <2>3. CASE op = 49
    BY <2>3
  <2>4. CASE op = 35
    BY <2>4
  <2> QED BY <1>2, <2>1, <2>2, <2>3, <2>4
<1>3. ASSUME op \in {3, 38, 96, 97, 98} PROVE op_info(op) = <<"R", "R">>
  <2>1. CASE op = 3
    BY <2>1
  <2>2. CASE op = 38
    BY <2>2
  <2>3. CASE op = 96
    BY <2>3
  <2>4. CASE op = 97
    BY <2>4
  <2>5. CASE op = 98
    BY <2>5
  <2> QED BY <1>3, <2>1, <2>2, <2>3, <2>4, <2>5
<1>4. op \in {32, 100, 101} => op_info(op) = <<"R", "N">>
  OBVIOUS
<1>5. op = 1 => op_info(op) = <<"R", "K">>
  OBVIOUS
<1>6. ASSUME op \in (16 .. 31) \cup {33, 34} PROVE op_info(op) = <<"R", "R", "R">>
  <2>1. CASE op \in 16 .. 19
    BY <2>1
  <2>2. CASE op = 20
    BY <2>2
  <2>3. CASE op \in 21 .. 22
    BY <2>3
  <2>4. CASE op \in 23 .. 26
    BY <2>4
  <2>5. CASE op \in 27 .. 29
    BY <2>5
  <2>6. CASE op \in 30 .. 31
    BY <2>6
  <2>7. CASE op = 33
    BY <2>7
  <2>8. CASE op = 34
    BY <2>8
  <2> QED BY <1>6, <2>1, <2>2, <2>3, <2>4, <2>5, <2>6, <2>7, <2>8
<1>7. op = 36 => op_info(op) = <<"R", "R", "K">>
  OBVIOUS
<1>8. op = 37 => op_info(op) = <<"R", "K", "R">>
  OBVIOUS
<1>9. op \in {48, 50} => op_info(op) = <<"R", "K", "N">>
  OBVIOUS
<1>10. op = 64 => op_info(op) = <<"O">>
  OBVIOUS
<1>11. op = 65 => op_info(op) = <<"R", "O">>
  OBVIOUS
<1>12. op \notin {0, 1, 2, 3, 48, 49, 50, 64, 65, 80, 96, 97, 98, 100, 101} \cup (16 .. 38)
         => op_info(op) = <<"unknown">>
  OBVIOUS
<1> HIDE DEF op_info
<1> QED BY <1>1, <1>2, <1>3, <1>4, <1>5, <1>6, <1>7, <1>8, <1>9, <1>10, <1>11, <1>12

\* Two layouts whose operands have the same widths place them alike.
LEMMA SameWidths ==
  ASSUME NEW ops, NEW own, Len(own) \in 0 .. 3, Len(ops) = Len(own),
         \A i \in 1 .. Len(own) : opnd_width(ops[i]) = width(own[i])
  PROVE  /\ OpndLen(ops) = Offset(own, Len(own) + 1)
         /\ \A i \in 1 .. Len(own) : OpndAt(ops, i) = Offset(own, i)
<1> HIDE DEF opnd_width, width
<1>1. \A i \in 1 .. Len(own) + 1 : OpndAt(ops, i) = Offset(own, i)
  BY DEF OpndAt, Offset
<1> QED BY <1>1 DEF OpndLen

\* Operand o of the disassembler and operand kind of the verifier are read alike.
SameKind(o, kind) ==
  /\ opnd_width(o) = width(kind)
  /\ o = "K" => kind \in {"Const", "ConstStr"}
  /\ o = "O" <=> kind = "Jump"

LEMMA SameKinds ==
  /\ SameKind("R", "Reg") /\ SameKind("N", "Count") /\ SameKind("K", "Const")
  /\ SameKind("K", "ConstStr") /\ SameKind("O", "Jump")
BY DEF SameKind, opnd_width, width

\* ops and own lay an instruction out alike; only the two jumps have an offset.
Alike(op, ops, own) ==
  /\ ops # <<"unknown">> /\ Len(own) \in 0 .. 3 /\ Len(ops) = Len(own)
  /\ DOMAIN ops = 1 .. Len(own)
  /\ \A i \in 1 .. Len(own) : SameKind(ops[i], own[i])
  /\ \A i \in 1 .. Len(own) : own[i] = "Jump" =>
       \/ op = 64 /\ Offset(own, i) = 1 /\ Offset(own, Len(own) + 1) = 3
       \/ op = 65 /\ Offset(own, i) = 2 /\ Offset(own, Len(own) + 1) = 4

\* The two tables give an instruction the verifier knows the same operands.
LEMMA SameLayout ==
  ASSUME NEW op \in Byte, Known(op)
  PROVE  Alike(op, op_info(op), operands_of(op))
<1> DEFINE ops == op_info(op)
           own == operands_of(op)
<1>1. CASE op = 0
  <2>1. ops = << >> /\ own = << >>
    BY <1>1, Infos, Layouts
  <2> HIDE DEF ops, own
  <2>2. /\ Len(ops) = 0 /\ Len(own) = 0 /\ DOMAIN ops = 1 .. 0 /\ ops # <<"unknown">>
    BY <2>1
  <2>3. Alike(op, ops, own)
    BY <2>2, SameKinds DEF Alike
  <2> QED BY <2>3 DEF ops, own
<1>2. CASE op \in {2, 80, 49, 35}
  <2>1. ops = <<"R">> /\ own = <<"Reg">>
    BY <1>2, Infos, Layouts
  <2> HIDE DEF ops, own
  <2>2. /\ Len(ops) = 1 /\ Len(own) = 1 /\ DOMAIN ops = 1 .. 1 /\ ops # <<"unknown">>
        /\ ops[1] = "R" /\ own[1] = "Reg"
    BY <2>1
  <2>3. Alike(op, ops, own)
    BY <2>2, SameKinds DEF Alike
  <2> QED BY <2>3 DEF ops, own
<1>3. CASE op \in {3, 38, 96, 97, 98}
  <2>1. ops = <<"R", "R">> /\ own = <<"Reg", "Reg">>
    BY <1>3, Infos, Layouts
  <2> HIDE DEF ops, own
  <2>2. /\ Len(ops) = 2 /\ Len(own) = 2 /\ DOMAIN ops = 1 .. 2 /\ ops # <<"unknown">>
        /\ ops[1] = "R" /\ own[1] = "Reg" /\ ops[2] = "R" /\ own[2] = "Reg"
    BY <2>1
  <2>3. Alike(op, ops, own)
    BY <2>2, SameKinds DEF Alike
  <2> QED BY <2>3 DEF ops, own
<1>4. CASE op \in {32, 100, 101}
  <2>1. ops = <<"R", "N">> /\ own = <<"Reg", "Count">>
    BY <1>4, Infos, Layouts
  <2> HIDE DEF ops, own
  <2>2. /\ Len(ops) = 2 /\ Len(own) = 2 /\ DOMAIN ops = 1 .. 2 /\ ops # <<"unknown">>
        /\ ops[1] = "R" /\ own[1] = "Reg" /\ ops[2] = "N" /\ own[2] = "Count"
    BY <2>1
  <2>3. Alike(op, ops, own)
    BY <2>2, SameKinds DEF Alike
  <2> QED BY <2>3 DEF ops, own
<1>5. CASE op = 1
  <2>1. ops = <<"R", "K">> /\ own = <<"Reg", "Const">>
    BY <1>5, Infos, Layouts
  <2> HIDE DEF ops, own
  <2>2. /\ Len(ops) = 2 /\ Len(own) = 2 /\ DOMAIN ops = 1 .. 2 /\ ops # <<"unknown">>
        /\ ops[1] = "R" /\ own[1] = "Reg" /\ ops[2] = "K" /\ own[2] = "Const"
    BY <2>1
  <2>3. Alike(op, ops, own)
    BY <2>2, SameKinds DEF Alike
  <2> QED BY <2>3 DEF ops, own
<1>6. CASE op \in (16 .. 31) \cup {33, 34}
  <2>1. ops = <<"R", "R", "R">> /\ own = <<"Reg", "Reg", "Reg">>
    BY <1>6, Infos, Layouts
  <2> HIDE DEF ops, own
  <2>2. /\ Len(ops) = 3 /\ Len(own) = 3 /\ DOMAIN ops = 1 .. 3 /\ ops # <<"unknown">>
        /\ ops[1] = "R" /\ own[1] = "Reg" /\ ops[2] = "R" /\ own[2] = "Reg" /\ ops[3] = "R" /\ own[3] = "Reg"
    BY <2>1
  <2>3. Alike(op, ops, own)
    BY <2>2, SameKinds DEF Alike
  <2> QED BY <2>3 DEF ops, own
<1>7. CASE op = 36
  <2>1. ops = <<"R", "R", "K">> /\ own = <<"Reg", "Reg", "ConstStr">>
    BY <1>7, Infos, Layouts
  <2> HIDE DEF ops, own
  <2>2. /\ Len(ops) = 3 /\ Len(own) = 3 /\ DOMAIN ops = 1 .. 3 /\ ops # <<"unknown">>
        /\ ops[1] = "R" /\ own[1] = "Reg" /\ ops[2] = "R" /\ own[2] = "Reg" /\ ops[3] = "K" /\ own[3] = "ConstStr"
    BY <2>1
  <2>3. Alike(op, ops, own)
    BY <2>2, SameKinds DEF Alike
  <2> QED BY <2>3 DEF ops, own
<1>8. CASE op = 37
  <2>1. ops = <<"R", "K", "R">> /\ own = <<"Reg", "ConstStr", "Reg">>
    BY <1>8, Infos, Layouts
  <2> HIDE DEF ops, own
  <2>2. /\ Len(ops) = 3 /\ Len(own) = 3 /\ DOMAIN ops = 1 .. 3 /\ ops # <<"unknown">>
        /\ ops[1] = "R" /\ own[1] = "Reg" /\ ops[2] = "K" /\ own[2] = "ConstStr" /\ ops[3] = "R" /\ own[3] = "Reg"
    BY <2>1
  <2>3. Alike(op, ops, own)
    BY <2>2, SameKinds DEF Alike
  <2> QED BY <2>3 DEF ops, own
<1>9. CASE op \in {48, 50}
  <2>1. ops = <<"R", "K", "N">> /\ own = <<"Reg", "ConstStr", "Count">>
    BY <1>9, Infos, Layouts
  <2> HIDE DEF ops, own
  <2>2. /\ Len(ops) = 3 /\ Len(own) = 3 /\ DOMAIN ops = 1 .. 3 /\ ops # <<"unknown">>
        /\ ops[1] = "R" /\ own[1] = "Reg" /\ ops[2] = "K" /\ own[2] = "ConstStr" /\ ops[3] = "N" /\ own[3] = "Count"
    BY <2>1
  <2>3. Alike(op, ops, own)
    BY <2>2, SameKinds DEF Alike
  <2> QED BY <2>3 DEF ops, own
<1>10. CASE op = 64
  <2>1. ops = <<"O">> /\ own = <<"Jump">>
    BY <1>10, Infos, Layouts
  <2> HIDE DEF ops, own
  <2>2. /\ Len(ops) = 1 /\ Len(own) = 1 /\ DOMAIN ops = 1 .. 1 /\ ops # <<"unknown">>
        /\ ops[1] = "O" /\ own[1] = "Jump"
    BY <2>1
  <2>3. Offset(own, 1) = 1 /\ Offset(own, 1 + 1) = 3
    BY <2>2 DEF Offset, width
  <2>4. Alike(op, ops, own)
    BY <1>10, <2>2, <2>3, SameKinds DEF Alike
  <2> QED BY <2>4 DEF ops, own
<1>11. CASE op = 65
  <2>1. ops = <<"R", "O">> /\ own = <<"Reg", "Jump">>
    BY <1>11, Infos, Layouts
  <2> HIDE DEF ops, own
  <2>2. /\ Len(ops) = 2 /\ Len(own) = 2 /\ DOMAIN ops = 1 .. 2 /\ ops # <<"unknown">>
        /\ ops[1] = "R" /\ own[1] = "Reg" /\ ops[2] = "O" /\ own[2] = "Jump"
    BY <2>1
  <2>3. Offset(own, 2) = 2 /\ Offset(own, 2 + 1) = 4
    BY <2>2 DEF Offset, width
  <2>4. Alike(op, ops, own)
    BY <1>11, <2>2, <2>3, SameKinds DEF Alike
  <2> QED BY <2>4 DEF ops, own
<1>12. op \in {0, 1, 2, 3, 48, 49, 50, 64, 65, 80, 96, 97, 98, 100, 101} \cup (16 .. 38)
  BY Layouts
<1>13. \/ op \in {2, 80, 49, 35} \/ op \in {3, 38, 96, 97, 98} \/ op \in {32, 100, 101}
       \/ op \in (16 .. 31) \cup {33, 34} \/ op \in {48, 50} \/ op \in {0, 1, 36, 37, 64, 65}
  BY <1>12
<1> QED BY <1>1, <1>2, <1>3, <1>4, <1>5, <1>6, <1>7, <1>8, <1>9, <1>10, <1>11, <1>13

\* A line tells its own offset, never reaches past the code, and goes on exactly
\* if the instruction was decoded.
LEMMA LineFacts ==
  ASSUME mod \in Modules, NEW f \in FuncIdx, NEW pc \in Nat, pc < CodeLen(f)
  PROVE  LET l == LineAt(f, pc) IN
         /\ l.pc = pc /\ l.next \in Nat /\ l.next <= CodeLen(f)
         /\ IF l.what = "instr" THEN pc < l.next ELSE l.next = pc
<1>1. CodeLen(f) \in Nat /\ u8(f, pc) \in Byte
  BY ModuleFacts
<1>2. CASE u8(f, pc) = OP_CLOSURE
  <2>1. LineAt(f, pc) = ClosureLine(f, pc)
    BY <1>2 DEF LineAt
  <2>2. CASE pc + 5 > CodeLen(f)
    BY <1>1, <2>1, <2>2 DEF ClosureLine, Stopped, Line
  <2>3. CASE ~(pc + 5 > CodeLen(f))
    <3>1. u8(f, pc + 4) \in Nat
      <4>1. pc + 4 \in 0 .. CodeLen(f) - 1
        BY <1>1, <2>3
      <4>2. u8(f, pc + 4) \in Byte
        BY <4>1, ModuleFacts
      <4> QED BY <4>2 DEF Byte
    <3> QED BY <1>1, <2>1, <2>3, <3>1 DEF ClosureLine, Stopped, Line
  <2> QED BY <2>2, <2>3
<1>3. CASE u8(f, pc) # OP_CLOSURE
  <2> DEFINE ops == op_info(u8(f, pc))
             next == pc + OpndLen(ops)
             shown == Line(pc, next, "instr",
                {Target(f, pc, next, pc + OpndAt(ops, i)) : i \in {i \in DOMAIN ops : ops[i] = "O"}},
                {u16(f, pc + OpndAt(ops, i)) : i \in {i \in DOMAIN ops : ops[i] = "K"}})
  <2>1. LineAt(f, pc) = IF ops = <<"unknown">> THEN Stopped(pc, "unknown")
                        ELSE IF next > CodeLen(f) THEN Stopped(pc, "truncated") ELSE shown
    BY <1>3 DEF LineAt, FixedLine
  <2>2. OpndLen(ops) \in Nat \ {0}
    <3>1. opnd_width(ops[1]) \in 1 .. 2 /\ opnd_width(ops[2]) \in 1 .. 2 /\ opnd_width(ops[3]) \in 1 .. 2
      BY DEF opnd_width
    <3> HIDE DEF ops
    <3> QED BY <3>1 DEF OpndLen, OpndAt
  <2>3. shown.pc = pc /\ shown.next = next /\ shown.what = "instr"
    BY DEF Line
  <2>4. /\ Stopped(pc, "unknown").pc = pc /\ Stopped(pc, "unknown").next = pc
        /\ Stopped(pc, "unknown").what # "instr"
        /\ Stopped(pc, "truncated").pc = pc /\ Stopped(pc, "truncated").next = pc
        /\ Stopped(pc, "truncated").what # "instr"
    BY DEF Stopped, Line
  <2> HIDE DEF shown, ops
  <2> QED BY <1>1, <2>1, <2>2, <2>3, <2>4
<1> QED BY <1>2, <1>3

\* The line of an instruction the verifier accepts.
LEMMA AcceptedLine ==
  ASSUME mod \in Modules, NEW f \in FuncIdx, NEW pc \in Nat, pc < CodeLen(f), InstrOk(f, pc)
  PROVE  LET l == LineAt(f, pc) IN
         /\ l.pc = pc /\ l.what = "instr" /\ l.next = pc + InstrLen(f, pc)
         /\ \A t \in l.targets : \E j \in JumpsOf(f, pc) : t = j[1] + j[2]
         /\ \A c \in l.consts : c < NumConsts
<1>1. u8(f, pc) \in Byte /\ CodeLen(f) \in Nat
  BY ModuleFacts
<1>2. CASE u8(f, pc) = OP_CLOSURE
  <2>1. LineAt(f, pc) = ClosureLine(f, pc) /\ ClosureOk(f, pc)
        /\ InstrLen(f, pc) = 5 + u8(f, pc + 4)
    BY <1>2 DEF LineAt, InstrOk, InstrLen
  <2>2. u8(f, pc + 4) \in Nat
    <3>1. pc + 4 \in 0 .. CodeLen(f) - 1
      BY <1>1, <2>1 DEF ClosureOk
    <3>2. u8(f, pc + 4) \in Byte
      BY <3>1, ModuleFacts
    <3> QED BY <3>2 DEF Byte
  <2>3. ~(pc + 5 > CodeLen(f)) /\ ~(pc + 5 + u8(f, pc + 4) > CodeLen(f))
    BY <1>1, <2>1, <2>2 DEF ClosureOk
  <2>4. ClosureLine(f, pc) = Line(pc, pc + 5 + u8(f, pc + 4), "instr", {}, {})
    BY <2>3 DEF ClosureLine
  <2> QED BY <2>1, <2>2, <2>4 DEF Line
<1>3. CASE u8(f, pc) # OP_CLOSURE
  <2> DEFINE op == u8(f, pc)
             ops == op_info(op)
             own == operands_of(op)
             next == pc + OpndLen(ops)
             targets == {Target(f, pc, next, pc + OpndAt(ops, i)) : i \in {i \in DOMAIN ops : ops[i] = "O"}}
             constants == {u16(f, pc + OpndAt(ops, i)) : i \in {i \in DOMAIN ops : ops[i] = "K"}}
  <2>1. LineAt(f, pc) = IF ops = <<"unknown">> THEN Stopped(pc, "unknown")
                        ELSE IF next > CodeLen(f) THEN Stopped(pc, "truncated")
                        ELSE Line(pc, next, "instr", targets, constants)
    BY <1>3 DEF LineAt, FixedLine
  <2>2. /\ Known(op) /\ pc + Offset(own, Len(own) + 1) <= CodeLen(f)
        /\ \A i \in 1 .. Len(own) : OperandOk(f, own[i], pc + Offset(own, i))
        /\ InstrLen(f, pc) = Offset(own, Len(own) + 1)
    BY <1>3 DEF InstrOk, FixedOk, InstrLen
  <2>a. /\ ops # <<"unknown">> /\ Len(own) \in 0 .. 3 /\ Len(ops) = Len(own)
        /\ DOMAIN ops = 1 .. Len(own)
        /\ \A i \in 1 .. Len(own) : SameKind(ops[i], own[i])
        /\ \A i \in 1 .. Len(own) : own[i] = "Jump" =>
             \/ op = 64 /\ Offset(own, i) = 1 /\ Offset(own, Len(own) + 1) = 3
             \/ op = 65 /\ Offset(own, i) = 2 /\ Offset(own, Len(own) + 1) = 4
    BY <1>1, <2>2, SameLayout DEF Alike
  <2> HIDE DEF ops, own
  <2>b. \A i \in 1 .. Len(own) : opnd_width(ops[i]) = width(own[i])
    BY <2>a DEF SameKind
  <2>c. Len(own) \in 0 .. 3 /\ Len(ops) = Len(own)
    BY <2>a
  <2>3. /\ OpndLen(ops) = Offset(own, Len(own) + 1)
        /\ \A i \in 1 .. Len(own) : OpndAt(ops, i) = Offset(own, i)
    BY <2>b, <2>c, SameWidths, Zenon
  <2>4. next = pc + InstrLen(f, pc) /\ next <= CodeLen(f) /\ InstrLen(f, pc) \in Nat
    BY <2>2, <2>3, AcceptedInstr
  <2>5. ASSUME NEW t \in targets PROVE \E j \in JumpsOf(f, pc) : t = j[1] + j[2]
    <3>1. PICK i \in DOMAIN ops : ops[i] = "O" /\ t = next + i16(f, pc + OpndAt(ops, i))
      BY <2>5 DEF Target
    <3>2. own[i] = "Jump" /\ t = pc + InstrLen(f, pc) + i16(f, pc + Offset(own, i))
      BY <2>a, <2>2, <2>3, <2>4, <3>1 DEF SameKind
    <3>3. CASE op = 64 /\ Offset(own, i) = 1 /\ Offset(own, Len(own) + 1) = 3
      <4>1. JumpsOf(f, pc) = {<<pc + 3, i16(f, pc + 1)>>}
        BY <3>3 DEF JumpsOf, OP_JUMP
      <4> QED BY <2>2, <3>2, <3>3, <4>1
    <3>4. CASE op = 65 /\ Offset(own, i) = 2 /\ Offset(own, Len(own) + 1) = 4
      <4>1. JumpsOf(f, pc) = {<<pc + 4, i16(f, pc + 2)>>}
        BY <3>4 DEF JumpsOf, OP_JUMP, OP_JUMP_IF_FALSE
      <4> QED BY <2>2, <3>2, <3>4, <4>1
    <3> QED BY <2>a, <3>1, <3>2, <3>3, <3>4
  <2>6. ASSUME NEW c \in constants PROVE c < NumConsts
    <3>1. PICK i \in DOMAIN ops : ops[i] = "K" /\ c = u16(f, pc + OpndAt(ops, i))
      BY <2>6
    <3>2. own[i] \in {"Const", "ConstStr"} /\ c = u16(f, pc + Offset(own, i))
          /\ OperandOk(f, own[i], pc + Offset(own, i))
      BY <2>a, <2>2, <2>3, <3>1 DEF SameKind
    <3> QED BY <3>2 DEF OperandOk
  <2>7. ~(next > CodeLen(f))
    BY <1>1, <2>4
  <2>8. LineAt(f, pc) = Line(pc, next, "instr", targets, constants)
    BY <2>1, <2>a, <2>7
  <2> HIDE DEF targets, constants, next
  <2> QED BY <2>4, <2>5, <2>6, <2>8 DEF Line
<1> QED BY <1>2, <1>3

-----------------------------------------------------------------------------
(***************************************************************************)
(* The disassembler's walk.                                                *)
(***************************************************************************)
AllLines == {LineAt(f, pc) : f \in FuncIdx, pc \in Nat}

\* A non-empty listing ls of f: it starts at the first byte, and every line but the
\* last was decoded and is followed by the next.
Listing(f, ls) ==
  /\ \A k \in 1 .. Len(ls) : /\ ls[k].pc \in Nat /\ ls[k].pc < CodeLen(f)
                             /\ ls[k] = LineAt(f, ls[k].pc)
  /\ Len(ls) > 0 => ls[1].pc = 0
  /\ \A k \in 1 .. Len(ls) - 1 : ls[k].what = "instr" /\ ls[k + 1].pc = ls[k].next

\* The listing ls of f goes on at pc.
GoesOn(f, ls, pc) ==
  /\ Len(ls) = 0 => pc = 0
  /\ Len(ls) > 0 => ls[Len(ls)].what = "instr" /\ ls[Len(ls)].next = pc

\* The listing ls of f is all there will be.
Ended(f, ls) ==
  /\ Len(ls) = 0 => CodeLen(f) = 0
  /\ Len(ls) > 0 => ls[Len(ls)].what # "instr" \/ ls[Len(ls)].next = CodeLen(f)

WalkInv ==
  /\ dfn \in 0 .. Len(mod.funcs) /\ dpc \in Nat \cup {-1}
  /\ dpc # -1 => dfn \in FuncIdx /\ dpc <= CodeLen(dfn)
  /\ verdict = "pending" => dpc = -1 /\ dfn = 0
  /\ lines \in [FuncIdx -> Seq(AllLines)]
  /\ \A f \in FuncIdx :
       /\ Listing(f, lines[f])
       /\ f > dfn \/ (f = dfn /\ dpc = -1) => Len(lines[f]) = 0
       /\ f = dfn /\ dpc # -1 => GoesOn(f, lines[f], dpc)
       /\ f < dfn => Ended(f, lines[f])

Offsets(ls) == {ls[k].pc : k \in 1 .. Len(ls)}

\* In a module that was accepted the walk has come along the verifier's instructions.
FollowInv ==
  verdict = "ok" =>
    \A f \in FuncIdx :
      /\ f < dfn => Offsets(lines[f]) = is_start[f]
      /\ f = dfn /\ dpc # -1 => /\ dpc \in is_start[f] \cup {CodeLen(f)}
                                /\ Offsets(lines[f]) = {s \in is_start[f] : s < dpc}

\* One more line.
LEMMA Listed ==
  ASSUME mod \in Modules, NEW f \in FuncIdx, NEW ls \in Seq(AllLines), NEW pc \in Nat,
         pc < CodeLen(f), Listing(f, ls), GoesOn(f, ls, pc)
  PROVE  LET l == LineAt(f, pc)  more == Append(ls, l) IN
         /\ l \in AllLines /\ more \in Seq(AllLines) /\ Listing(f, more)
         /\ l.what = "instr" => GoesOn(f, more, l.next)
         /\ l.what # "instr" => Ended(f, more)
         /\ Offsets(more) = Offsets(ls) \cup {pc}
<1> DEFINE l == LineAt(f, pc)
           more == Append(ls, l)
           n == Len(ls)
<1>1. l \in AllLines
  BY DEF AllLines
<1>2. l.pc = pc
  BY LineFacts
<1> HIDE DEF l
<1>3. /\ n \in Nat /\ more \in Seq(AllLines) /\ Len(more) = n + 1 /\ more[n + 1] = l
      /\ \A k \in 1 .. n : more[k] = ls[k]
  BY <1>1, LenProperties, AppendProperties
<1> HIDE DEF more, n
<1>4. \A k \in 1 .. n + 1 : /\ more[k].pc \in Nat /\ more[k].pc < CodeLen(f)
                            /\ more[k] = LineAt(f, more[k].pc)
  <2>1. ASSUME NEW k \in 1 .. n
        PROVE  /\ more[k].pc \in Nat /\ more[k].pc < CodeLen(f)
               /\ more[k] = LineAt(f, more[k].pc)
    BY <1>3, <2>1 DEF Listing, n
  <2>2. /\ more[n + 1].pc \in Nat /\ more[n + 1].pc < CodeLen(f)
        /\ more[n + 1] = LineAt(f, more[n + 1].pc)
    BY <1>2, <1>3 DEF l
  <2>3. \A k \in 1 .. n + 1 : k \in 1 .. n \/ k = n + 1
    BY <1>3
  <2> QED BY <2>1, <2>2, <2>3, Zenon
<1>5. more[1].pc = 0
  <2>1. CASE n = 0
    BY <1>2, <1>3, <2>1 DEF GoesOn, n
  <2>2. CASE n > 0
    BY <1>3, <2>2 DEF Listing, n
  <2> QED BY <1>3, <2>1, <2>2
<1>6. ASSUME NEW k \in 1 .. n PROVE more[k].what = "instr" /\ more[k + 1].pc = more[k].next
  <2>1. CASE k = n
    BY <1>2, <1>3, <2>1 DEF GoesOn, n
  <2>2. CASE k # n
    <3>1. k \in 1 .. n - 1 /\ k + 1 \in 1 .. n
      BY <1>3, <2>2
    <3> QED BY <1>3, <3>1 DEF Listing, n
  <2> QED BY <2>1, <2>2
<1>7. Listing(f, more)
  BY <1>3, <1>4, <1>5, <1>6 DEF Listing
<1>8. Offsets(more) = Offsets(ls) \cup {pc}
  <2>1. \A k \in 1 .. n + 1 : k \in 1 .. n \/ k = n + 1
    BY <1>3
  <2>2. \A k \in 1 .. n : k \in 1 .. n + 1
    BY <1>3
  <2>3. n + 1 \in 1 .. n + 1
    BY <1>3
  <2> QED BY <1>2, <1>3, <2>1, <2>2, <2>3 DEF Offsets, n
<1>9. l.what = "instr" => GoesOn(f, more, l.next)
  BY <1>3 DEF GoesOn
<1>10. l.what # "instr" => Ended(f, more)
  BY <1>3 DEF Ended
<1> QED BY <1>1, <1>3, <1>7, <1>8, <1>9, <1>10 DEF more, l

\* The module does not change, so neither do its lines.
LEMMA SameLines ==
  ASSUME UNCHANGED mod
  PROVE  /\ AllLines' = AllLines
         /\ \A f \in FuncIdx, pc \in Nat : LineAt(f, pc)' = LineAt(f, pc)
         /\ \A f \in FuncIdx : /\ \A ls : Listing(f, ls)' = Listing(f, ls)
                               /\ \A ls : Ended(f, ls)' = Ended(f, ls)
<1>1. \A f \in FuncIdx, pc \in Nat : LineAt(f, pc)' = LineAt(f, pc)
  BY DEF LineAt, ClosureLine, FixedLine, Target, u8, u16, i16, CodeLen, Fn
<1>2. FuncIdx' = FuncIdx /\ \A f \in FuncIdx : CodeLen(f)' = CodeLen(f)
  BY SameModule
<1>3. AllLines' = AllLines
  BY <1>1, <1>2 DEF AllLines
<1> QED BY <1>1, <1>2, <1>3 DEF Listing, Ended

\* A step that prints nothing.
LEMMA WalkRests ==
  ASSUME WalkInv, UNCHANGED <<mod, dvars>>, verdict' = "pending" => verdict = "pending"
  PROVE  WalkInv'
<1>1. UNCHANGED <<mod, dfn, dpc, lines>>
  BY DEF dvars
<1> QED BY <1>1, SameLines, SameModule DEF WalkInv, GoesOn

\* The walk goes on, or ends the function at hand with its listing.
LEMMA WalkMoves ==
  ASSUME mod \in Modules, WalkInv, verdict # "pending", UNCHANGED <<mod, verdict>>, dpc # -1,
         NEW ls \in Seq(AllLines), lines' = [lines EXCEPT ![dfn] = ls], Listing(dfn, ls),
         \/ dfn' = dfn /\ dpc' \in Nat /\ dpc' <= CodeLen(dfn) /\ GoesOn(dfn, ls, dpc')
         \/ dfn' = dfn + 1 /\ dpc' = -1 /\ Ended(dfn, ls)
  PROVE  WalkInv'
<1>1. dfn \in FuncIdx /\ FuncIdx = 0 .. Len(mod.funcs) - 1 /\ Len(mod.funcs) \in Nat
  BY ModuleFacts DEF WalkInv, FuncIdx
<1>2. /\ lines' \in [FuncIdx -> Seq(AllLines)] /\ lines'[dfn] = ls
      /\ \A f \in FuncIdx : f # dfn => lines'[f] = lines[f]
  BY <1>1 DEF WalkInv
<1>3. dfn' \in 0 .. Len(mod.funcs) /\ dpc' \in Nat \cup {-1}
      /\ (dpc' # -1 => dfn' = dfn /\ dpc' <= CodeLen(dfn) /\ GoesOn(dfn, ls, dpc'))
  BY <1>1
<1>4. ASSUME NEW f \in FuncIdx
      PROVE  /\ Listing(f, lines'[f])
             /\ f > dfn' \/ (f = dfn' /\ dpc' = -1) => Len(lines'[f]) = 0
             /\ f = dfn' /\ dpc' # -1 => GoesOn(f, lines'[f], dpc')
             /\ f < dfn' => Ended(f, lines'[f])
  <2>1. CASE f = dfn
    BY <1>1, <1>2, <1>3, <2>1
  <2>2. CASE f > dfn
    <3>1. lines'[f] = lines[f] /\ Listing(f, lines[f]) /\ Len(lines[f]) = 0
      BY <1>1, <1>2, <2>2 DEF WalkInv
    <3> QED BY <1>1, <1>3, <2>2, <3>1
  <2>3. CASE f < dfn
    <3>1. lines'[f] = lines[f] /\ Listing(f, lines[f]) /\ Ended(f, lines[f])
      BY <1>1, <1>2, <2>3 DEF WalkInv
    <3> QED BY <1>1, <1>3, <2>3, <3>1
  <2> QED BY <1>1, <2>1, <2>2, <2>3
<1>5. FuncIdx' = FuncIdx /\ AllLines' = AllLines /\ \A f \in FuncIdx : CodeLen(f)' = CodeLen(f)
  BY SameModule, SameLines
<1>6. ASSUME NEW f \in FuncIdx
      PROVE  /\ Listing(f, lines'[f]) => Listing(f, lines[f])'
             /\ Ended(f, lines'[f]) => Ended(f, lines[f])'
  <2>1. CodeLen(f)' = CodeLen(f) /\ \A pc \in Nat : LineAt(f, pc)' = LineAt(f, pc)
    BY <1>5, SameLines
  <2>2. Listing(f, lines'[f]) => Listing(f, lines[f])'
    BY <2>1 DEF Listing
  <2>3. Ended(f, lines'[f]) => Ended(f, lines[f])'
    BY <2>1 DEF Ended
  <2> QED BY <2>2, <2>3
<1> QED BY <1>1, <1>2, <1>3, <1>4, <1>5, <1>6 DEF WalkInv, GoesOn

LEMMA WalkSteps ==
  ASSUME mod \in Modules, WalkInv, DNext, UNCHANGED <<mod, verdict>> PROVE WalkInv'
<1>1. CASE Header
  <2>1. dpc = -1 /\ dfn < Len(mod.funcs) /\ dpc' = 0 /\ UNCHANGED <<dfn, lines>>
        /\ verdict # "pending"
    BY <1>1 DEF Header, DNext
  <2>2. dfn \in FuncIdx /\ CodeLen(dfn) \in Nat /\ Len(lines[dfn]) = 0
    BY <2>1, ModuleFacts DEF WalkInv, FuncIdx
  <2>3. GoesOn(dfn, lines[dfn], 0)
    BY <2>2 DEF GoesOn
  <2>4. \A f \in FuncIdx : f \in Nat
    BY DEF FuncIdx
  <2>5. FuncIdx' = FuncIdx /\ AllLines' = AllLines /\ \A f \in FuncIdx : CodeLen(f)' = CodeLen(f)
    BY SameModule, SameLines
  <2>6. \A f \in FuncIdx : /\ Listing(f, lines[f])' = Listing(f, lines[f])
                           /\ Ended(f, lines[f])' = Ended(f, lines[f])
    BY <2>1, SameLines
  <2> QED BY <2>1, <2>2, <2>3, <2>4, <2>5, <2>6 DEF WalkInv, GoesOn
<1>2. CASE PrintLine
  <2> DEFINE l == LineAt(dfn, dpc)
             ls == Append(lines[dfn], l)
  <2>1. /\ dpc # -1 /\ dpc < CodeLen(dfn) /\ lines' = [lines EXCEPT ![dfn] = ls]
        /\ IF l.what = "instr" THEN dpc' = l.next /\ UNCHANGED dfn ELSE dpc' = -1 /\ dfn' = dfn + 1
        /\ verdict # "pending"
    BY <1>2 DEF PrintLine, DNext
  <2>2. /\ dfn \in FuncIdx /\ dpc \in Nat /\ lines[dfn] \in Seq(AllLines)
        /\ Listing(dfn, lines[dfn]) /\ GoesOn(dfn, lines[dfn], dpc)
    BY <2>1 DEF WalkInv
  <2>3. /\ ls \in Seq(AllLines) /\ Listing(dfn, ls)
        /\ l.what = "instr" => GoesOn(dfn, ls, l.next)
        /\ l.what # "instr" => Ended(dfn, ls)
    BY <2>1, <2>2, Listed
  <2>4. l.next \in Nat /\ l.next <= CodeLen(dfn)
    BY <2>1, <2>2, LineFacts
  <2> HIDE DEF l, ls
  <2> QED BY <2>1, <2>3, <2>4, WalkMoves
<1>3. CASE NextFunction
  <2>1. /\ dpc # -1 /\ dpc >= CodeLen(dfn) /\ dpc' = -1 /\ dfn' = dfn + 1 /\ UNCHANGED lines
        /\ verdict # "pending"
    BY <1>3 DEF NextFunction, DNext
  <2>2. /\ dfn \in FuncIdx /\ dpc \in Nat /\ dpc <= CodeLen(dfn) /\ lines[dfn] \in Seq(AllLines)
        /\ Listing(dfn, lines[dfn]) /\ GoesOn(dfn, lines[dfn], dpc) /\ CodeLen(dfn) \in Nat
        /\ lines \in [FuncIdx -> Seq(AllLines)]
    BY <2>1, ModuleFacts DEF WalkInv
  <2>3. dpc = CodeLen(dfn)
    BY <2>1, <2>2
  <2>4. Ended(dfn, lines[dfn])
    BY <2>2, <2>3 DEF GoesOn, Ended
  <2>5. lines' = [lines EXCEPT ![dfn] = lines[dfn]]
    BY <2>1, <2>2
  <2> QED BY <2>1, <2>2, <2>4, <2>5, WalkMoves
<1> QED BY <1>1, <1>2, <1>3 DEF DNext

-----------------------------------------------------------------------------
\* What the verifier found in a module it accepted: the starts begin with the first
\* byte, each is of a good instruction, and the next start is right behind it.
LEMMA AcceptedStarts ==
  ASSUME IInv, SweepInv, verdict = "ok", NEW f \in FuncIdx
  PROVE  /\ is_start[f] \subseteq Nat /\ 0 \in is_start[f] \cup {CodeLen(f)}
         /\ \A s \in is_start[f] :
              LET end == s + InstrLen(f, s) IN
              /\ s < CodeLen(f) /\ InstrOk(f, s)
              /\ end \in is_start[f] \cup {CodeLen(f)}
              /\ {t \in is_start[f] : t < end} = {t \in is_start[f] : t < s} \cup {s}
<1>1. /\ Checked(f) /\ TiledTo(f, is_start[f], CodeLen(f)) /\ mod \in Modules
      /\ is_start[f] \subseteq Nat
  BY DEF IInv, TypeOK, VerifierType, VerifierInv, SweepInv
<1>2. /\ 0 \in is_start[f] \cup {CodeLen(f)}
      /\ \A s \in is_start[f] : /\ s < CodeLen(f) /\ InstrOk(f, s)
                                /\ s + InstrLen(f, s) \in is_start[f] \cup {CodeLen(f)}
  BY <1>1 DEF Checked, Swept
<1>3. is_start[f] \in Tilings(f)
  <2>1. is_start[f] \subseteq 0 .. CodeLen(f) - 1
    <3>1. CodeLen(f) \in Nat
      BY <1>1, ModuleFacts
    <3> QED BY <1>1, <1>2, <3>1
  <2> QED BY <1>1, <2>1 DEF Tilings, Tiled, TiledTo, Covers
<1>4. ASSUME NEW s \in is_start[f]
      PROVE  LET end == s + InstrLen(f, s) IN
             {t \in is_start[f] : t < end} = {t \in is_start[f] : t < s} \cup {s}
  <2>1. InstrLen(f, s) \in Nat \ {0} /\ s \in Nat
    BY <1>1, <1>3, NextTile
  <2>2. \A t \in is_start[f] : s <= t /\ t < s + InstrLen(f, s) => t = s
    BY <1>1, <1>3, TilesApart
  <2>3. \A t \in is_start[f] : t \in Nat
    BY <1>1
  <2> QED BY <2>1, <2>2, <2>3
<1> QED BY <1>1, <1>2, <1>4

LEMMA FollowRests ==
  ASSUME FollowInv, WalkInv, UNCHANGED <<mod, dvars>>,
         verdict = "pending" \/ UNCHANGED <<verdict, is_start>>
  PROVE  FollowInv'
<1>1. UNCHANGED <<mod, dfn, dpc, lines>>
  BY DEF dvars
<1>2. FuncIdx' = FuncIdx /\ \A f \in FuncIdx : CodeLen(f)' = CodeLen(f)
  BY SameModule
<1>3. CASE verdict = "pending"
  <2>1. dfn = 0 /\ dpc = -1
    BY <1>3 DEF WalkInv
  <2>2. \A f \in FuncIdx : ~(f < 0)
    BY DEF FuncIdx
  <2> QED BY <1>1, <1>2, <2>1, <2>2 DEF FollowInv
<1>4. CASE UNCHANGED <<verdict, is_start>>
  <2> SUFFICES ASSUME verdict' = "ok", NEW f \in FuncIdx
               PROVE  /\ f < dfn' => Offsets(lines'[f]) = is_start'[f]
                      /\ f = dfn' /\ dpc' # -1 =>
                           /\ dpc' \in is_start'[f] \cup {CodeLen(f)'}
                           /\ Offsets(lines'[f]) = {s \in is_start'[f] : s < dpc'}
    BY <1>2 DEF FollowInv
  <2> QED BY <1>1, <1>2, <1>4 DEF FollowInv
<1> QED BY <1>3, <1>4

LEMMA FollowSteps ==
  ASSUME IInv, SweepInv, WalkInv, FollowInv, DNext, UNCHANGED <<mod, verdict, is_start>>
  PROVE  FollowInv'
<1> SUFFICES ASSUME verdict = "ok" PROVE FollowInv'
  BY DEF FollowInv
<1>1. mod \in Modules
  BY DEF IInv, TypeOK, VerifierType
<1>2. FuncIdx' = FuncIdx /\ \A f \in FuncIdx : CodeLen(f)' = CodeLen(f)
  BY SameModule
<1>3. \A f \in FuncIdx : f \in Nat
  BY DEF FuncIdx
<1>4. CASE Header
  <2>1. dpc = -1 /\ dfn < Len(mod.funcs) /\ dpc' = 0 /\ UNCHANGED <<dfn, lines>>
    BY <1>4 DEF Header
  <2>2. dfn \in FuncIdx /\ Len(lines[dfn]) = 0
    BY <1>1, <2>1, ModuleFacts DEF WalkInv, FuncIdx
  <2>3. 0 \in is_start[dfn] \cup {CodeLen(dfn)} /\ is_start[dfn] \subseteq Nat
    BY <2>2, AcceptedStarts
  <2>4. Offsets(lines[dfn]) = {} /\ {s \in is_start[dfn] : s < 0} = {}
    BY <2>2, <2>3 DEF Offsets
  <2>5. Offsets(lines'[dfn]) = {s \in is_start[dfn] : s < 0}
    BY <2>1, <2>4
  <2>6. ASSUME NEW f \in FuncIdx, f < dfn PROVE Offsets(lines'[f]) = is_start[f]
    BY <2>1, <2>6 DEF FollowInv
  <2> QED BY <1>2, <2>1, <2>3, <2>5, <2>6 DEF FollowInv
<1>5. CASE PrintLine
  <2> DEFINE l == LineAt(dfn, dpc)
             ls == Append(lines[dfn], l)
  <2>1. /\ dpc # -1 /\ dpc < CodeLen(dfn) /\ lines' = [lines EXCEPT ![dfn] = ls]
        /\ IF l.what = "instr" THEN dpc' = l.next /\ UNCHANGED dfn ELSE dpc' = -1 /\ dfn' = dfn + 1
    BY <1>5 DEF PrintLine
  <2>2. /\ dfn \in FuncIdx /\ dpc \in Nat /\ lines[dfn] \in Seq(AllLines)
        /\ Listing(dfn, lines[dfn]) /\ GoesOn(dfn, lines[dfn], dpc)
        /\ lines \in [FuncIdx -> Seq(AllLines)] /\ CodeLen(dfn) \in Nat
    BY <1>1, <2>1, ModuleFacts DEF WalkInv
  <2>3. Offsets(ls) = Offsets(lines[dfn]) \cup {dpc}
    BY <1>1, <2>1, <2>2, Listed
  <2>4. dpc \in is_start[dfn] /\ Offsets(lines[dfn]) = {s \in is_start[dfn] : s < dpc}
    BY <2>1, <2>2 DEF FollowInv
  <2>5. /\ InstrOk(dfn, dpc)
        /\ dpc + InstrLen(dfn, dpc) \in is_start[dfn] \cup {CodeLen(dfn)}
        /\ {t \in is_start[dfn] : t < dpc + InstrLen(dfn, dpc)} = Offsets(ls)
    BY <2>2, <2>3, <2>4, AcceptedStarts
  <2>6. l.what = "instr" /\ l.next = dpc + InstrLen(dfn, dpc)
    BY <1>1, <2>1, <2>2, <2>5, AcceptedLine
  <2> HIDE DEF l, ls
  <2>7. dpc' = dpc + InstrLen(dfn, dpc) /\ dfn' = dfn /\ lines'[dfn] = ls
        /\ \A f \in FuncIdx : f < dfn => lines'[f] = lines[f]
    BY <1>3, <2>1, <2>2, <2>6
  <2> QED BY <1>2, <1>3, <2>5, <2>7 DEF FollowInv, Offsets
<1>6. CASE NextFunction
  <2>1. /\ dpc # -1 /\ dpc >= CodeLen(dfn) /\ dpc' = -1 /\ dfn' = dfn + 1 /\ UNCHANGED lines
    BY <1>6 DEF NextFunction
  <2>2. dfn \in FuncIdx /\ dpc \in Nat /\ dpc <= CodeLen(dfn) /\ CodeLen(dfn) \in Nat
    BY <1>1, <2>1, ModuleFacts DEF WalkInv
  <2>3. dpc = CodeLen(dfn)
    BY <2>1, <2>2
  <2>4. Offsets(lines[dfn]) = {s \in is_start[dfn] : s < CodeLen(dfn)}
    BY <2>1, <2>2, <2>3 DEF FollowInv
  <2>5. Offsets(lines[dfn]) = is_start[dfn]
    BY <2>2, <2>4, AcceptedStarts
  <2>6. \A f \in FuncIdx : f < dfn' => f < dfn \/ f = dfn
    BY <1>3, <2>1, <2>2
  <2> QED BY <1>2, <2>1, <2>5, <2>6 DEF FollowInv, Offsets
<1> QED BY <1>4, <1>5, <1>6 DEF DNext

LEMMA ListingsTile == IInv /\ WalkInv => LinesTile
<1> SUFFICES ASSUME IInv, WalkInv, NEW f \in FuncIdx, lines[f] # <<>>
             PROVE  LET last == lines[f][Len(lines[f])] IN
                    /\ lines[f][1].pc = 0
                    /\ \A k \in 1 .. Len(lines[f]) - 1 : /\ lines[f][k].what = "instr"
                                                         /\ lines[f][k + 1].pc = lines[f][k].next
                    /\ last.next <= CodeLen(f)
                    /\ Finished(f) => last.what # "instr" \/ last.next = CodeLen(f)
  BY DEF LinesTile
<1>1. lines[f] \in Seq(AllLines) /\ Listing(f, lines[f]) /\ (f < dfn => Ended(f, lines[f]))
      /\ mod \in Modules
  BY DEF WalkInv, IInv, TypeOK, VerifierType
<1>2. Len(lines[f]) \in Nat /\ Len(lines[f]) > 0
  BY <1>1, LenProperties, EmptySeq
<1>3. lines[f][Len(lines[f])].next <= CodeLen(f)
  <2> DEFINE last == lines[f][Len(lines[f])]
  <2>1. last.pc \in Nat /\ last.pc < CodeLen(f) /\ last = LineAt(f, last.pc)
    BY <1>1, <1>2 DEF Listing
  <2>2. LineAt(f, last.pc).next <= CodeLen(f)
    BY <1>1, <2>1, LineFacts
  <2> QED BY <2>1, <2>2
<1>4. Finished(f) => f < dfn
  BY <1>1 DEF Finished, WalkInv, FuncIdx
<1> QED BY <1>1, <1>2, <1>3, <1>4 DEF Listing, Ended

LEMMA ListingsAgree == IInv /\ SweepInv /\ WalkInv /\ FollowInv => AgreesWithVerifier
<1> SUFFICES ASSUME IInv, SweepInv, WalkInv, FollowInv, verdict = "ok",
                    NEW f \in FuncIdx, Finished(f)
             PROVE  LET shown == {lines[f][k] : k \in 1 .. Len(lines[f])} IN
                    /\ {l.pc : l \in shown} = is_start[f]
                    /\ \A l \in shown : /\ l.what = "instr" /\ l.targets \subseteq is_start[f]
                                        /\ \A c \in l.consts : c < NumConsts
  BY DEF AgreesWithVerifier
<1>1. f < dfn /\ Offsets(lines[f]) = is_start[f] /\ Listing(f, lines[f]) /\ mod \in Modules
  BY DEF Finished, WalkInv, FollowInv, FuncIdx, IInv, TypeOK, VerifierType
<1> DEFINE shown == {lines[f][k] : k \in 1 .. Len(lines[f])}
<1>2. {l.pc : l \in shown} = is_start[f]
  BY <1>1 DEF Offsets
<1>3. ASSUME NEW l \in shown
      PROVE  /\ l.what = "instr" /\ l.targets \subseteq is_start[f]
             /\ \A c \in l.consts : c < NumConsts
  <2>1. l = LineAt(f, l.pc) /\ l.pc \in Nat /\ l.pc < CodeLen(f) /\ l.pc \in is_start[f]
    BY <1>1, <1>3 DEF Listing, Offsets
  <2>2. InstrOk(f, l.pc) /\ \A j \in JumpsOf(f, l.pc) : j[1] + j[2] \in is_start[f]
    BY <2>1 DEF IInv, VerifierInv, Checked, Swept
  <2> DEFINE known == LineAt(f, l.pc)
  <2>3. /\ known.what = "instr"
        /\ \A t \in known.targets : \E j \in JumpsOf(f, l.pc) : t = j[1] + j[2]
        /\ \A c \in known.consts : c < NumConsts
    BY <1>1, <2>1, <2>2, AcceptedLine
  <2> HIDE DEF known
  <2>4. l = known
    BY <2>1 DEF known
  <2> QED BY <2>2, <2>3, <2>4
<1> QED BY <1>2, <1>3

LEMMA CInitWalks == CInit => Init /\ WalkInv /\ FollowInv
<1> SUFFICES ASSUME CInit PROVE Init /\ WalkInv /\ FollowInv
  OBVIOUS
<1>1. Init /\ dfn = 0 /\ dpc = -1 /\ lines = [f \in FuncIdx |-> <<>>]
      /\ mod \in Modules /\ verdict = "pending"
  BY DEF CInit, DInit, Init, VInit
<1>2. Len(mod.funcs) \in Nat /\ \A f \in FuncIdx : ~(f < 0)
  BY <1>1, ModuleFacts DEF FuncIdx
<1>3. <<>> \in Seq(AllLines) /\ Len(<<>>) = 0
  BY EmptySeq
<1>4. \A f \in FuncIdx : Listing(f, <<>>)
  BY DEF Listing
<1>5. WalkInv
  BY <1>1, <1>2, <1>3, <1>4 DEF WalkInv
<1> QED BY <1>1, <1>5 DEF FollowInv

\* A step of the commands is one of the virtual machine or one of the disassembler.
LEMMA CommandSteps ==
  ASSUME IInv, SweepInv, WalkInv, FollowInv, [CNext]_allvars
  PROVE  [Next]_vars /\ WalkInv' /\ FollowInv'
<1>1. mod \in Modules
  BY DEF IInv, TypeOK, VerifierType
<1>2. CASE (Verify \/ Run) /\ UNCHANGED dvars
  <2>1. UNCHANGED mod /\ (verdict = "pending" \/ UNCHANGED <<verdict, is_start>>)
    BY <1>2 DEF Verify, VNext, EnterFn, DecodeInstr, DecodeDone, ResolveJump, FnDone,
                Accept, Pending, Run, INext, vvars
  <2>2. verdict' = "pending" => verdict = "pending"
    BY <2>1
  <2> QED BY <1>2, <2>1, <2>2, WalkRests, FollowRests DEF Next
<1>3. CASE UNCHANGED vars /\ UNCHANGED dvars
  <2>1. UNCHANGED <<mod, verdict, is_start>>
    BY <1>3 DEF vars, vvars
  <2> QED BY <1>3, <2>1, WalkRests, FollowRests
<1>4. CASE DNext /\ UNCHANGED vars
  <2>1. UNCHANGED <<mod, verdict, is_start>>
    BY <1>4 DEF vars, vvars
  <2> QED BY <1>1, <1>4, <2>1, WalkSteps, FollowSteps
<1> QED BY <1>2, <1>3, <1>4 DEF CNext, Rest, allvars

\* Whatever the commands do, the virtual machine's invariants hold of it.
LEMMA CommandsInvariant == CSpec => [](IInv /\ SweepInv /\ WalkInv /\ FollowInv)
<1>1. CInit => IInv /\ SweepInv /\ WalkInv /\ FollowInv
  BY CInitWalks, InitInv, SweepInit
<1>2. IInv /\ SweepInv /\ WalkInv /\ FollowInv /\ [CNext]_allvars
        => (IInv /\ SweepInv /\ WalkInv /\ FollowInv)'
  BY CommandSteps, NextInv, SweepStep
<1> QED BY <1>1, <1>2, PTL DEF CSpec

\* disasm.cc: of any module, accepted or not, the listing of a function has no gap: its
\* lines follow one another from the first byte to the last or to the one line that
\* could not be decoded, and none reaches past the code.
THEOREM ListingHasNoGap == CSpec => []LinesTile
BY CommandsInvariant, ListingsTile, PTL

\* disasm.cc against verifier.cc: of a module the verifier accepts, of any length, the
\* listing shows exactly the verifier's instructions, although the two files lay
\* instructions out from tables of their own.
THEOREM ListingAgrees == CSpec => []AgreesWithVerifier
BY CommandsInvariant, ListingsAgree, PTL
=============================================================================
