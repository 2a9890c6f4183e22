-------------------------------- MODULE VMInv --------------------------------
(***************************************************************************)
(* What the verifier and the interpreter owe each other.                   *)
(***************************************************************************)
EXTENDS VM, FiniteSets

Running == status = "running" /\ frames # <<>>

\* The verifier's cursors stay inside the module and the interpreter's frames
\* have the shape their function declares.
VerifierType ==
  /\ mod \in Modules
  /\ verdict \in {"pending", "ok", "err"} /\ pass \in {"enter", "decode", "jumps"}
  /\ vfn \in 0 .. Len(mod.funcs) /\ vpc \in Nat
  /\ pass # "enter" => vfn \in FuncIdx
  /\ is_start \in [FuncIdx -> SUBSET Nat]
  /\ jumps \subseteq Nat \X Int
Frame == [fn : FuncIdx, pc : Nat, result_reg : Byte, closure : 0 .. Len(closures),
          regs : UNION {[Registers(f) -> Value] : f \in FuncIdx}]
Errors == {"", "entry function out of range", "instruction budget exceeded", "invalid opcode",
           "out of memory", "type error", "arithmetic error", "index out of range",
           "call to undefined function", "call depth exceeded", "unknown builtin",
           "wrong arg count", "builtin error", "bad upvalue access", "call of non-function",
           "bad closure target"}
InterpType ==
  /\ status \in {"idle", "running", "done"} /\ error \in Errors
  /\ insns \in Nat
  /\ frames \in Seq(Frame)
  /\ \A i \in 1 .. Len(frames) : DOMAIN frames[i].regs = Registers(frames[i].fn)
  /\ closures \in Seq([func_index : FuncIdx, upvalues : Seq(Value)])
TypeOK == VerifierType /\ InterpType

-----------------------------------------------------------------------------
(***************************************************************************)
(* The interpreter's unchecked accesses, read off its switch: the operand  *)
(* bytes of an instruction, the registers it names, its constant.          *)
(***************************************************************************)
Size(f, s) ==
  LET op == u8(f, s) IN
  IF op = OP_HALT THEN 1
  ELSE IF op \in {OP_LOAD_NIL, OP_NEW_OBJECT, OP_RET, OP_PRINT} THEN 2
  ELSE IF op \in Unary \cup {OP_MOVE, OP_NEW_ARRAY, OP_ARRAY_PUSH, OP_GET_UPVAL,
                             OP_CALL_VALUE, OP_JUMP} THEN 3
  ELSE IF op \in {OP_GET_PROP, OP_SET_PROP, OP_CALL, OP_CALL_NATIVE} THEN 5
  ELSE IF op = OP_CLOSURE THEN 5 + u8(f, s + 4)
  ELSE 4

RegisterOperands(op) ==
  IF op \in {OP_HALT, OP_JUMP} THEN {}
  ELSE IF op \in Unary \cup {OP_MOVE, OP_ARRAY_PUSH, OP_GET_PROP} THEN {1, 2}
  ELSE IF op \in Binary \cup {OP_ARRAY_GET, OP_ARRAY_SET} THEN {1, 2, 3}
  ELSE IF op = OP_SET_PROP THEN {1, 4}
  ELSE {1}

\* The constant an instruction indexes with: none, or a u16 at this offset.
ConstOperand(op) ==
  IF op \in {OP_LOAD_CONST, OP_SET_PROP, OP_CALL, OP_CALL_NATIVE} THEN {2}
  ELSE IF op = OP_GET_PROP THEN {3}
  ELSE {}

\* The end of a call's argument window, whose registers the callee may read.
WindowEnd(f, s) ==
  IF u8(f, s) = OP_CALL_VALUE THEN u8(f, s + 1) + 1 + u8(f, s + 2)
  ELSE u8(f, s + 1) + u8(f, s + 4)

SafeInstr(f, s) ==
  LET op == u8(f, s) IN
  /\ op \in Opcodes
  /\ op = OP_CLOSURE => s + 4 < CodeLen(f)
  /\ s + Size(f, s) <= CodeLen(f)
  /\ \A k \in RegisterOperands(op) : u8(f, s + k) < NumRegs(f)
  /\ \A k \in ConstOperand(op) : u16(f, s + k) < NumConsts
  /\ op \in {OP_GET_PROP, OP_SET_PROP, OP_CALL, OP_CALL_NATIVE} =>
       \A k \in ConstOperand(op) : Const(u16(f, s + k)).tag = "Str"
  /\ op \in Calls => WindowEnd(f, s) <= NumRegs(f)
  /\ op = OP_CLOSURE => /\ u16(f, s + 2) < Len(mod.funcs)
                        /\ \A i \in 1 .. u8(f, s + 4) : u8(f, s + 4 + i) < NumRegs(f)

\* interp.h: "every operand is in range and pc lands on instruction boundaries".
\* The instruction about to run makes no out-of-range access, its opcode is
\* known, and a frame pushed for any function has room for its parameters.
AccessesInRange ==
  Running =>
    /\ Top.pc < CodeLen(Top.fn) => SafeInstr(Top.fn, Top.pc)
    /\ \A f \in FuncIdx : Fn(f).num_params <= NumRegs(f)

\* When a frame is popped, its result register exists in the caller; moreover the
\* caller resumes right behind the call that pushed the frame and named it.
ReturnLinked ==
  \A i \in 1 .. Len(frames) - 1 :
    LET caller == frames[i]  callee == frames[i + 1] IN
    /\ callee.result_reg < NumRegs(caller.fn)
    /\ \E s \in is_start[caller.fn] :
         /\ caller.pc = s + Size(caller.fn, s)
         /\ u8(caller.fn, s) \in {OP_CALL, OP_CALL_VALUE}
         /\ u8(caller.fn, s + 1) = callee.result_reg

\* The call stack never outgrows max_depth (the entry frame is always pushed).
DepthBounded == Len(frames) <= max_depth \/ Len(frames) <= 1

\* Calls nest, within the limit, and each returns to where it was made.
CallsNest == ReturnLinked /\ DepthBounded

-----------------------------------------------------------------------------
(***************************************************************************)
(* What acceptance means, without a cursor: instructions tile the code,    *)
(* each is well formed, and jumps go from tile to tile.                    *)
(***************************************************************************)
Tiled(f, S) ==
  /\ \A s \in S : InstrOk(f, s)
  /\ \A at \in 0 .. CodeLen(f) - 1 :
       \E s \in S : /\ s <= at /\ at < s + InstrLen(f, s)
                    /\ \A t \in S : t <= at /\ at < t + InstrLen(f, t) => t = s

WellFormed(f) ==
  /\ Fn(f).num_params <= NumRegs(f)
  /\ \E S \in SUBSET (0 .. CodeLen(f) - 1) :
       /\ Tiled(f, S)
       /\ \A s \in S : \A j \in JumpsOf(f, s) : j[1] + j[2] \in S

\* The verifier accepts exactly the well-formed modules: a single linear sweep
\* with jumps resolved afterwards neither misses nor invents an error.
VerdictExact ==
  /\ verdict = "ok" /\ status = "idle" => \A f \in FuncIdx : WellFormed(f)
  /\ verdict = "err" => \E f \in FuncIdx : ~WellFormed(f)

\* WellFormed tries every set of bytes as the instruction boundaries: the verdict is
\* compared with it on the functions of at most six bytes.
VerdictExactOnShort == (\A f \in FuncIdx : CodeLen(f) <= 6) => VerdictExact

\* Every module is verified, and runs to an end, in finitely many steps.
Terminates == <>Returned

-----------------------------------------------------------------------------
(***************************************************************************)
(* The inductive invariant behind AccessesInRange.                         *)
(***************************************************************************)
\* S holds the starts of the instructions swept so far, up to offset upto.
Swept(f, S, upto) ==
  /\ 0 \in S \cup {upto}
  /\ \A s \in S : /\ s < CodeLen(f) /\ InstrOk(f, s)
                  /\ s + InstrLen(f, s) \in S \cup {upto}

ParamsFit(f) == Fn(f).num_params <= NumRegs(f)

\* What verify_fn has established once it returns ok.
Checked(f) ==
  /\ ParamsFit(f)
  /\ Swept(f, is_start[f], CodeLen(f))
  /\ \A s \in is_start[f] : \A j \in JumpsOf(f, s) : j[1] + j[2] \in is_start[f]

\* Pass 1 has come to vpc, pass 2 still has to resolve jumps.
Decoding(f) ==
  /\ ParamsFit(f) /\ vpc <= CodeLen(f)
  /\ Swept(f, is_start[f], vpc)
  /\ \A s \in is_start[f] : JumpsOf(f, s) \subseteq jumps
Resolving(f) ==
  /\ ParamsFit(f)
  /\ Swept(f, is_start[f], CodeLen(f))
  /\ \A s \in is_start[f] : \A j \in JumpsOf(f, s) :
       j \in jumps \/ j[1] + j[2] \in is_start[f]

VerifierInv ==
  /\ verdict = "ok" => \A f \in FuncIdx : Checked(f)
  /\ verdict = "pending" =>
       \A f \in FuncIdx :
         /\ f < vfn => Checked(f)
         /\ f > vfn \/ (f = vfn /\ pass = "enter") => is_start[f] = {}
         /\ f = vfn /\ pass = "decode" => Decoding(f)
         /\ f = vfn /\ pass = "jumps" => Resolving(f)

\* Every frame rests on an instruction boundary or at the end of its code, and
\* its caller has the register its result goes to.
FramesInv ==
  /\ status # "idle" => verdict = "ok"
  /\ status = "idle" => frames = <<>>
  /\ \A i \in 1 .. Len(frames) :
       frames[i].pc \in is_start[frames[i].fn] \cup {CodeLen(frames[i].fn)}
  /\ \A i \in 1 .. Len(frames) - 1 :
       frames[i + 1].result_reg \in Registers(frames[i].fn)

IInv == TypeOK /\ VerifierInv /\ FramesInv
=============================================================================
