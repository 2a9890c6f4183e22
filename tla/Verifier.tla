------------------------------ MODULE Verifier -------------------------------
(***************************************************************************)
(* The bytecode verifier (src/src/verifier.cc), one instruction per step.  *)
(* is_start is local to verify_fn in the code; here every function keeps   *)
(* its own, so that what was established about it can be stated.  Error    *)
(* messages are left out: a rejection is a verdict.                        *)
(***************************************************************************)
EXTENDS Bytecode

VARIABLES
  verdict,   \* "pending", "ok" or "err"
  vfn,       \* the function verify() has come to
  pass,      \* "enter", "decode" (pass 1) or "jumps" (pass 2)
  vpc,       \* pass 1's pc
  is_start,  \* instruction starts found, by function
  jumps      \* <<target_base, offset>> of the jumps still to be resolved

vvars == <<verdict, vfn, pass, vpc, is_start, jumps>>

\* The operand kinds of an opcode with a fixed layout, in order.
operands_of(op) ==
  IF op = OP_HALT THEN << >>
  ELSE IF op \in {OP_LOAD_NIL, OP_PRINT, OP_RET, OP_NEW_OBJECT} THEN <<"Reg">>
  ELSE IF op \in {OP_MOVE, OP_ARRAY_PUSH} \cup Unary THEN <<"Reg", "Reg">>
  ELSE IF op = OP_NEW_ARRAY THEN <<"Reg", "Count">>
  ELSE IF op = OP_LOAD_CONST THEN <<"Reg", "Const">>
  ELSE IF op \in Binary \cup {OP_ARRAY_GET, OP_ARRAY_SET} THEN <<"Reg", "Reg", "Reg">>
  ELSE IF op = OP_GET_PROP THEN <<"Reg", "Reg", "ConstStr">>
  ELSE IF op = OP_SET_PROP THEN <<"Reg", "ConstStr", "Reg">>
  ELSE IF op \in {OP_CALL, OP_CALL_NATIVE} THEN <<"Reg", "ConstStr", "Count">>
  ELSE IF op \in {OP_GET_UPVAL, OP_CALL_VALUE} THEN <<"Reg", "Count">>
  ELSE IF op = OP_JUMP THEN <<"Jump">>
  ELSE IF op = OP_JUMP_IF_FALSE THEN <<"Reg", "Jump">>
  ELSE <<"unknown">>

Known(op) == operands_of(op) # <<"unknown">>

width(kind) == IF kind \in {"Reg", "Count"} THEN 1 ELSE 2

\* Where operand i starts, counted from the opcode; i = Len(ops) + 1 gives the
\* length of the instruction (no layout has more than three operands).
Offset(ops, i) == 1 + (IF i > 1 THEN width(ops[1]) ELSE 0)
                    + (IF i > 2 THEN width(ops[2]) ELSE 0)
                    + (IF i > 3 THEN width(ops[3]) ELSE 0)

OperandOk(f, kind, at) ==
  /\ kind = "Reg" => u8(f, at) < NumRegs(f)
  /\ kind \in {"Const", "ConstStr"} => u16(f, at) < NumConsts
  /\ kind = "ConstStr" => Const(u16(f, at)).tag = "Str"

\* The argument window of the three calls must fit the register file.
WindowOk(f, pc) ==
  LET op == u8(f, pc) IN
  /\ op \in {OP_CALL, OP_CALL_NATIVE} => u8(f, pc + 1) + u8(f, pc + 4) <= NumRegs(f)
  /\ op = OP_CALL_VALUE => u8(f, pc + 1) + u8(f, pc + 2) + 1 <= NumRegs(f)

\* OP_CLOSURE has a variable length, which the table cannot describe.
ClosureOk(f, pc) ==
  /\ pc + 5 <= CodeLen(f)
  /\ u8(f, pc + 1) < NumRegs(f)
  /\ u16(f, pc + 2) < Len(mod.funcs)
  /\ pc + 5 + u8(f, pc + 4) <= CodeLen(f)
  /\ \A i \in 1 .. u8(f, pc + 4) : u8(f, pc + 4 + i) < NumRegs(f)

FixedOk(f, pc) ==
  LET ops == operands_of(u8(f, pc)) IN
  /\ Known(u8(f, pc))
  /\ pc + Offset(ops, Len(ops) + 1) <= CodeLen(f)
  /\ \A i \in 1 .. Len(ops) : OperandOk(f, ops[i], pc + Offset(ops, i))
  /\ WindowOk(f, pc)

\* Everything pass 1 checks of the instruction at pc.
InstrOk(f, pc) ==
  IF u8(f, pc) = OP_CLOSURE THEN ClosureOk(f, pc) ELSE FixedOk(f, pc)

InstrLen(f, pc) ==
  LET ops == operands_of(u8(f, pc)) IN
  IF u8(f, pc) = OP_CLOSURE THEN 5 + u8(f, pc + 4) ELSE Offset(ops, Len(ops) + 1)

\* The jumps pass 1 records: target_base is the end of the instruction.
JumpsOf(f, pc) ==
  IF u8(f, pc) = OP_JUMP THEN {<<pc + 3, i16(f, pc + 1)>>}
  ELSE IF u8(f, pc) = OP_JUMP_IF_FALSE THEN {<<pc + 4, i16(f, pc + 2)>>}
  ELSE {}

VInit ==
  /\ mod \in Modules
  /\ verdict = "pending" /\ vfn = 0 /\ pass = "enter" /\ vpc = 0
  /\ is_start = [f \in FuncIdx |-> {}] /\ jumps = {}

Pending == verdict = "pending"
Reject  == verdict' = "err" /\ UNCHANGED <<vfn, pass, vpc, is_start, jumps>>

\* Faulty: a register file smaller than the parameters is accepted.
EnterFnUnchecked ==
  /\ Pending /\ pass = "enter" /\ vfn < Len(mod.funcs)
  /\ pass' = "decode" /\ vpc' = 0 /\ jumps' = {}
  /\ UNCHANGED <<verdict, vfn, is_start>>

\* verify() calls verify_fn() on the next function.
EnterFn ==
  /\ Pending /\ pass = "enter" /\ vfn < Len(mod.funcs)
  /\ IF NumRegs(vfn) < Fn(vfn).num_params THEN Reject
     ELSE /\ pass' = "decode" /\ vpc' = 0 /\ jumps' = {}
          /\ UNCHANGED <<verdict, vfn, is_start>>

\* One iteration of pass 1's loop.
DecodeInstr ==
  /\ Pending /\ pass = "decode" /\ vpc < CodeLen(vfn)
  /\ IF ~InstrOk(vfn, vpc) THEN Reject
     ELSE /\ is_start' = [is_start EXCEPT ![vfn] = @ \cup {vpc}]
          /\ jumps' = jumps \cup JumpsOf(vfn, vpc)
          /\ vpc' = vpc + InstrLen(vfn, vpc)
          /\ UNCHANGED <<verdict, vfn, pass>>

DecodeDone ==
  /\ Pending /\ pass = "decode" /\ vpc >= CodeLen(vfn)
  /\ pass' = "jumps"
  /\ UNCHANGED <<verdict, vfn, vpc, is_start, jumps>>

\* Faulty: pass 2 checks the range of a jump only.
TargetInRange(f, target) == target >= 0 /\ target < CodeLen(f)

\* A jump must land in range and on an instruction boundary.
TargetOk(f, target) == target >= 0 /\ target < CodeLen(f) /\ target \in is_start[f]

\* One iteration of pass 2's loop (their order only selects the message).
ResolveJump ==
  /\ Pending /\ pass = "jumps"
  /\ \E j \in jumps :
       IF ~TargetOk(vfn, j[1] + j[2]) THEN Reject
       ELSE jumps' = jumps \ {j} /\ UNCHANGED <<verdict, vfn, pass, vpc, is_start>>

FnDone ==
  /\ Pending /\ pass = "jumps" /\ jumps = {}
  /\ pass' = "enter" /\ vfn' = vfn + 1
  /\ UNCHANGED <<verdict, vpc, is_start, jumps>>

Accept ==
  /\ Pending /\ pass = "enter" /\ vfn = Len(mod.funcs)
  /\ verdict' = "ok"
  /\ UNCHANGED <<vfn, pass, vpc, is_start, jumps>>

VNext ==
  /\ EnterFn \/ DecodeInstr \/ DecodeDone \/ ResolveJump \/ FnDone \/ Accept
  /\ UNCHANGED mod
=============================================================================
