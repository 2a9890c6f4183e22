------------------------------- MODULE Interp --------------------------------
(***************************************************************************)
(* The interpreter (src/src/interp.cc): frames with register files, an     *)
(* instruction budget, a call-depth limit, closures captured by value, and *)
(* structured runtime errors.                                              *)
(*                                                                         *)
(* Data abstraction.  A value is its type and its truthiness; a closure    *)
(* also says which closure object it is.  What an array, a map or a        *)
(* builtin hands back is any value.  Allocation may fail ("out of          *)
(* memory") at every instruction that allocates; the heap itself is        *)
(* module Heap.                                                            *)
(***************************************************************************)
EXTENDS Bytecode

CONSTANTS
  max_insns, max_depth,   \* Limits
  Natives,                \* names of the builtins find_native() knows
  MinArgs, MaxArgs        \* their arities, by name

ASSUME LimitsAssumption == max_insns \in Nat /\ max_depth \in Nat
ASSUME NativesAssumption ==
  /\ Natives \subseteq Names
  /\ MinArgs \in [Natives -> Byte] /\ MaxArgs \in [Natives -> Byte]

VARIABLES
  status,    \* "idle" before run(), "running", "done"
  error,     \* res.error, "" if none
  frames,    \* the call stack; the last frame is the top
  closures,  \* the closure objects created so far
  insns      \* instructions dispatched

ivars == <<status, error, frames, closures, insns>>

Plain == {[tag |-> "Nil", truthy |-> FALSE, ref |-> 0]}
           \cup [tag : {"Int", "Double", "Bool"}, truthy : BOOLEAN, ref : {0}]
           \cup [tag : {"String", "Array", "Map", "Iter"}, truthy : {TRUE}, ref : {0}]
Value == Plain \cup [tag : {"Closure"}, truthy : {TRUE}, ref : 1 .. Len(closures)]
Nil   == [tag |-> "Nil", truthy |-> FALSE, ref |-> 0]
Obj(kind)    == [tag |-> kind, truthy |-> TRUE, ref |-> 0]
OfTag(t)     == {v \in Plain : v.tag = t}
is_number(v) == v.tag \in {"Int", "Double"}

Registers(f) == 0 .. NumRegs(f) - 1
Top     == frames[Len(frames)]
Op      == u8(Top.fn, Top.pc)
At(k)   == u8(Top.fn, Top.pc + k)     \* u8at(k)
At16(k) == u16(Top.fn, Top.pc + k)    \* u16at(k)
Reg(k)  == Top.regs[At(k)]            \* fr.regs[u8at(k)]

NewFrame(f, result_reg, closure, regs) ==
  [fn |-> f, pc |-> 0, result_reg |-> result_reg, closure |-> closure, regs |-> regs]

IInit ==
  status = "idle" /\ error = "" /\ frames = <<>> /\ closures = <<>> /\ insns = 0

\* run()'s prologue.
Start ==
  /\ status = "idle"
  /\ IF mod.entry_func >= Len(mod.funcs)
     THEN /\ status' = "done" /\ error' = "entry function out of range"
          /\ UNCHANGED frames
     ELSE /\ status' = "running" /\ UNCHANGED error
          /\ frames' = <<NewFrame(mod.entry_func, 0, 0,
                                  [r \in Registers(mod.entry_func) |-> Nil])>>
  /\ UNCHANGED <<closures, insns>>

-----------------------------------------------------------------------------
(***************************************************************************)
(* One iteration of the dispatch loop.                                     *)
(***************************************************************************)
Looping == status = "running" /\ frames # <<>>

\* The loop head: the iteration is counted and stays within the budget.
Counts == Looping /\ insns < max_insns /\ insns' = insns + 1

\* Faulty: the spent budget is noticed, but the dispatch loop is not left.
OutOfBudgetGoesOn ==
  Looping /\ insns >= max_insns /\ UNCHANGED <<insns, status, error, frames, closures>>

OutOfBudget ==
  /\ Looping /\ insns >= max_insns
  /\ insns' = insns + 1
  /\ status' = "done" /\ error' = "instruction budget exceeded"
  /\ UNCHANGED <<frames, closures>>

LoopEnds ==
  /\ status = "running" /\ frames = <<>>
  /\ status' = "done"
  /\ UNCHANGED <<error, frames, closures, insns>>

Opcodes == Binary \cup Unary \cup Calls \cup
  {OP_HALT, OP_LOAD_CONST, OP_LOAD_NIL, OP_MOVE, OP_NEW_ARRAY, OP_ARRAY_GET, OP_ARRAY_SET,
   OP_NEW_OBJECT, OP_GET_PROP, OP_SET_PROP, OP_ARRAY_PUSH, OP_RET, OP_JUMP,
   OP_JUMP_IF_FALSE, OP_PRINT, OP_CLOSURE, OP_GET_UPVAL}

\* The instruction at the top frame's pc has one of these opcodes.
Dispatch(ops) == Counts /\ Top.pc < CodeLen(Top.fn) /\ Op \in ops

\* res.error is set and the loop breaks; run() returns and the frames die with
\* it, so what the failing instruction did to them first is left out.
Raise(msg) == status' = "done" /\ error' = msg /\ UNCHANGED <<frames, closures>>

SetReg(fr, r, v)  == [fr EXCEPT !.regs[r] = v]
Advance(fr, size) == [fr EXCEPT !.pc = @ + size]

\* fr.regs[r] = v and fr.pc += size.
Put(r, v, size) ==
  /\ frames' = [frames EXCEPT ![Len(frames)] = Advance(SetReg(Top, r, v), size)]
  /\ UNCHANGED <<status, error>>

\* fr.pc = pc + delta; no register changes.
Skip(delta) ==
  /\ frames' = [frames EXCEPT ![Len(frames)] = Advance(Top, delta)]
  /\ UNCHANGED <<status, error, closures>>

\* do_return(v): pop, and deliver v to the caller if there is one.
DoReturn(v) ==
  LET n == Len(frames) - 1 IN
  /\ frames' = IF n = 0 THEN <<>>
               ELSE [SubSeq(frames, 1, n) EXCEPT ![n] = SetReg(frames[n], Top.result_reg, v)]
  /\ UNCHANGED <<status, error, closures>>

\* Running off the end of the code returns nil.
RunOff == Counts /\ Top.pc >= CodeLen(Top.fn) /\ DoReturn(Nil)

Ret == Dispatch({OP_RET}) /\ DoReturn(Reg(1))

\* OP_HALT, and the switch's default, which no verified module reaches.
Halt ==
  /\ Counts /\ Top.pc < CodeLen(Top.fn)
  /\ IF Op \notin Opcodes THEN Raise("invalid opcode")
     ELSE Op = OP_HALT /\ frames' = <<>> /\ UNCHANGED <<status, error, closures>>

\* What OP_LOAD_CONST makes of a constant.
ConstValue(c) ==
  IF c.tag = "Str" THEN Obj("String")
  ELSE IF c.tag = "Nil" THEN Nil
  ELSE [tag |-> c.tag, truthy |-> c.truthy, ref |-> 0]

LoadConst ==
  LET c == Const(At16(2)) IN
  /\ Dispatch({OP_LOAD_CONST})
  /\ Put(At(1), ConstValue(c), 4) \/ (c.tag = "Str" /\ Raise("out of memory"))
  /\ UNCHANGED closures

LoadNil == Dispatch({OP_LOAD_NIL}) /\ Put(At(1), Nil, 2) /\ UNCHANGED closures

Move == Dispatch({OP_MOVE}) /\ Put(At(1), Reg(2), 3) /\ UNCHANGED closures

\* The types a two-operand operator may produce; none if it must raise.
BinaryTags(op, a, b) ==
  IF op \in Equality THEN {"Bool"}
  ELSE IF op \in Comparison /\ is_number(a) /\ is_number(b) THEN {"Bool"}
  ELSE IF op \in Arithmetic \cup {OP_MOD} /\ is_number(a) /\ is_number(b)
  THEN {IF a.tag = "Int" /\ b.tag = "Int" THEN "Int" ELSE "Double"}
  ELSE IF op \in Bitwise \cup Shift /\ a.tag = "Int" /\ b.tag = "Int" THEN {"Int"}
  ELSE {}

\* Integer division by zero or of the least integer by -1, and shifts by an
\* amount outside 0..63, raise.
MayRaise(op, a, b) ==
  op \in {OP_DIV, OP_MOD} \cup Shift /\ a.tag = "Int" /\ b.tag = "Int"

BinaryOp ==
  /\ Dispatch(Binary)
  /\ \/ \E t \in BinaryTags(Op, Reg(2), Reg(3)) : \E v \in OfTag(t) : Put(At(1), v, 4)
     \/ BinaryTags(Op, Reg(2), Reg(3)) = {} /\ Raise("type error")
     \/ MayRaise(Op, Reg(2), Reg(3)) /\ Raise("arithmetic error")
  /\ UNCHANGED closures

UnaryOp ==
  /\ Dispatch(Unary)
  /\ \/ Op = OP_NOT /\ \E v \in OfTag("Bool") :
                         v.truthy = ~Reg(2).truthy /\ Put(At(1), v, 3)
     \/ Op = OP_NEG /\ is_number(Reg(2)) /\ Put(At(1), Reg(2), 3)
     \/ Op = OP_BNOT /\ Reg(2).tag = "Int" /\ \E v \in OfTag("Int") : Put(At(1), v, 3)
     \/ Op = OP_NEG /\ ~is_number(Reg(2)) /\ Raise("type error")
     \/ Op = OP_BNOT /\ Reg(2).tag # "Int" /\ Raise("type error")
  /\ UNCHANGED closures

NewContainer ==
  /\ Dispatch({OP_NEW_ARRAY, OP_NEW_OBJECT})
  /\ \/ Op = OP_NEW_ARRAY /\ Put(At(1), Obj("Array"), 3)
     \/ Op = OP_NEW_OBJECT /\ Put(At(1), Obj("Map"), 2)
     \/ Raise("out of memory")
  /\ UNCHANGED closures

\* An index out of range raises; the elements are not tracked.
ArrayGet ==
  /\ Dispatch({OP_ARRAY_GET})
  /\ IF Reg(2).tag = "Array" /\ Reg(3).tag = "Int"
     THEN Raise("index out of range") \/ \E v \in Value : Put(At(1), v, 4)
     ELSE Raise("type error")
  /\ UNCHANGED closures

ArraySet ==
  /\ Dispatch({OP_ARRAY_SET})
  /\ IF Reg(1).tag = "Array" /\ Reg(2).tag = "Int"
     THEN Raise("index out of range") \/ Skip(4)
     ELSE Raise("type error")

ArrayPush ==
  /\ Dispatch({OP_ARRAY_PUSH})
  /\ IF Reg(1).tag = "Array" THEN Raise("out of memory") \/ Skip(3)
     ELSE Raise("type error")

\* A missing key reads as nil.
GetProp ==
  /\ Dispatch({OP_GET_PROP})
  /\ IF Reg(2).tag = "Map" THEN \E v \in Value : Put(At(1), v, 5)
     ELSE Raise("type error")
  /\ UNCHANGED closures

SetProp ==
  /\ Dispatch({OP_SET_PROP})
  /\ IF Reg(1).tag = "Map" THEN Raise("out of memory") \/ Skip(5)
     ELSE Raise("type error")

PrintValue == Dispatch({OP_PRINT}) /\ Skip(2)

\* Faulty: the offset is taken from the opcode, not from the next instruction.
JumpFromOpcode == Dispatch({OP_JUMP}) /\ Skip(i16(Top.fn, Top.pc + 1))

Jump == Dispatch({OP_JUMP}) /\ Skip(3 + i16(Top.fn, Top.pc + 1))

JumpIfFalse ==
  /\ Dispatch({OP_JUMP_IF_FALSE})
  /\ Skip(IF Reg(1).truthy THEN 4 ELSE 4 + i16(Top.fn, Top.pc + 2))

-----------------------------------------------------------------------------
(***************************************************************************)
(* Calls.                                                                  *)
(***************************************************************************)
\* The functions of that name; the last one wins in fn_by_name.
Named(s) == {f \in FuncIdx : /\ Fn(f).name_const < NumConsts
                             /\ Const(Fn(f).name_const).tag = "Str"
                             /\ Const(Fn(f).name_const).s = s}

\* Faulty: the result goes where the arguments start.
EnterResultToArgs(callee, base, args, n, closure, size) ==
  /\ frames' = Append([frames EXCEPT ![Len(frames)] = Advance(Top, size)],
                      NewFrame(callee, args, closure, [r \in Registers(callee) |-> Nil]))
  /\ UNCHANGED <<status, error>>

\* Push a frame for callee: n arguments from register args on, the result to base.
Enter(callee, base, args, n, closure, size) ==
  LET regs == [r \in Registers(callee) |->
                 IF r < Fn(callee).num_params /\ r < n THEN Top.regs[args + r] ELSE Nil]
  IN
  /\ frames' = Append([frames EXCEPT ![Len(frames)] = Advance(Top, size)],
                      NewFrame(callee, base, closure, regs))
  /\ UNCHANGED <<status, error>>

DepthOk == Len(frames) < max_depth

Call ==
  LET callees == Named(Const(At16(2)).s) IN
  /\ Dispatch({OP_CALL})
  /\ IF callees = {} THEN Raise("call to undefined function")
     ELSE IF ~DepthOk THEN Raise("call depth exceeded")
     ELSE \E callee \in callees :
            /\ \A f \in callees : f <= callee
            /\ Enter(callee, At(1), At(1), At(4), 0, 5)
  /\ UNCHANGED closures

\* A builtin either fails with its own message or delivers any value; it may
\* also exhaust the heap.
CallNative ==
  LET name == Const(At16(2)).s IN
  /\ Dispatch({OP_CALL_NATIVE})
  /\ IF name \notin Natives THEN Raise("unknown builtin")
     ELSE IF ~(MinArgs[name] <= At(4) /\ At(4) <= MaxArgs[name])
     THEN Raise("wrong arg count")
     ELSE \/ Raise("builtin error")
          \/ Raise("out of memory")
          \/ \E v \in Value : Put(At(1), v, 5)
  /\ UNCHANGED closures

\* Capture is by value; the new closure goes to register r.
MakeClosure ==
  LET upvalues == [i \in 1 .. At(4) |-> Reg(4 + i)]
      new == [tag |-> "Closure", truthy |-> TRUE, ref |-> Len(closures) + 1]
  IN
  /\ Dispatch({OP_CLOSURE})
  /\ \/ Raise("out of memory")
     \/ /\ closures' = Append(closures, [func_index |-> At16(2), upvalues |-> upvalues])
        /\ Put(At(1), new, 5 + At(4))

GetUpval ==
  /\ Dispatch({OP_GET_UPVAL})
  /\ IF Top.closure = 0 THEN Raise("bad upvalue access")
     ELSE IF At(2) >= Len(closures[Top.closure].upvalues) THEN Raise("bad upvalue access")
     ELSE Put(At(1), closures[Top.closure].upvalues[At(2) + 1], 3)
  /\ UNCHANGED closures

CallValue ==
  LET cl == Reg(1).ref
      callee == closures[cl].func_index
  IN
  /\ Dispatch({OP_CALL_VALUE})
  /\ IF Reg(1).tag # "Closure" THEN Raise("call of non-function")
     ELSE IF callee >= Len(mod.funcs) THEN Raise("bad closure target")
     ELSE IF ~DepthOk THEN Raise("call depth exceeded")
     ELSE Enter(callee, At(1), At(1) + 1, At(2), cl, 3)
  /\ UNCHANGED closures

INext ==
  /\ \/ Start \/ OutOfBudget \/ LoopEnds \/ RunOff \/ Ret \/ Halt
     \/ LoadConst \/ LoadNil \/ Move \/ BinaryOp \/ UnaryOp
     \/ NewContainer \/ ArrayGet \/ ArraySet \/ ArrayPush \/ GetProp \/ SetProp
     \/ PrintValue \/ Jump \/ JumpIfFalse
     \/ Call \/ CallNative \/ MakeClosure \/ GetUpval \/ CallValue
  /\ UNCHANGED mod
=============================================================================
