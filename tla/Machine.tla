------------------------------- MODULE Machine -------------------------------
(***************************************************************************)
(* The interpreter (src/src/interp.cc) on concrete values.  Control is     *)
(* module Interp's; here every register of every frame has a value, every  *)
(* container its contents, and print an output, so that of the outcomes    *)
(* Interp allows the one the code computes is taken.  The heap never runs  *)
(* out here.                                                               *)
(***************************************************************************)
EXTENDS VM, Values, FiniteSets, TLC

VARIABLES
  pool,     \* the constants of mod, with their values
  cregs,    \* register files, one per frame
  caps,     \* upvalues->data, by closure
  objs,     \* contents of the arrays and maps
  output    \* res.output, as a sequence of printed values

cvars == <<pool, cregs, caps, objs, output>>

AbsValue(v) == [tag |-> v.t, truthy |-> truthy(v), ref |-> IF v.t = "Closure" THEN v.n ELSE 0]
AbsConst(v) == [tag |-> IF v.t = "String" THEN "Str" ELSE v.t,
                s |-> IF v.t = "String" THEN v.s ELSE "", truthy |-> truthy(v)]

\* The interpreter's frames and closures are those of the concrete registers.
Instance ==
  /\ Len(frames) = Len(cregs)
  /\ \A k \in DOMAIN frames : frames[k].regs = [r \in DOMAIN cregs[k] |-> AbsValue(cregs[k][r])]
  /\ \A c \in DOMAIN closures :
       closures[c].upvalues = [u \in DOMAIN caps[c] |-> AbsValue(caps[c][u])]

TopRegs == cregs[Len(cregs)]
CReg(k) == TopRegs[At(k)]

\* The operator an opcode stands for in the dispatch loop.
Operator == <<"+", "-", "*", "/", "%", "E", "N", "<", "l", ">", "g", "&", "|", "^", "L", "R">>

UnaryOperator(op) == IF op = OP_NEG THEN "-" ELSE IF op = OP_NOT THEN "!" ELSE "~"

Content(v) == objs[v.n]
Contains0(v, i) == 0 <= i.n /\ i.n < Len(Content(v))

\* What the instruction about to run computes: a value or an error.
Computed ==
  LET key == pool[At16(3) + 1].s IN
  CASE Op = OP_LOAD_CONST -> pool[At16(2) + 1]
    [] Op = OP_LOAD_NIL   -> NilV
    [] Op = OP_MOVE       -> CReg(2)
    [] Op \in Binary      -> Arith(Operator[Op - 15], CReg(2), CReg(3))
    [] Op \in Unary       -> UnaryArith(UnaryOperator(Op), CReg(2))
    [] Op = OP_NEW_ARRAY  -> Ref("Array", Len(objs) + 1)
    [] Op = OP_NEW_OBJECT -> Ref("Map", Len(objs) + 1)
    [] Op = OP_CLOSURE    -> Ref("Closure", Len(caps) + 1)
    [] Op = OP_GET_UPVAL  ->
         IF Top.closure = 0 THEN Error("bad upvalue access")
         ELSE IF At(2) >= Len(caps[Top.closure]) THEN Error("bad upvalue access")
         ELSE caps[Top.closure][At(2) + 1]
    [] Op = OP_ARRAY_GET  ->
         IF CReg(2).t # "Array" \/ CReg(3).t # "Int" THEN Error("type error")
         ELSE IF Contains0(CReg(2), CReg(3)) THEN Content(CReg(2))[CReg(3).n + 1]
         ELSE Error("index out of range")
    [] Op = OP_GET_PROP   ->
         IF CReg(2).t # "Map" THEN Error("type error")
         ELSE IF key \in DOMAIN Content(CReg(2)) THEN Content(CReg(2))[key] ELSE NilV

Computes == Binary \cup Unary \cup {OP_LOAD_CONST, OP_LOAD_NIL, OP_MOVE, OP_NEW_ARRAY,
  OP_NEW_OBJECT, OP_CLOSURE, OP_GET_UPVAL, OP_ARRAY_GET, OP_GET_PROP}
Stores == {OP_ARRAY_SET, OP_ARRAY_PUSH, OP_SET_PROP}

\* The containers after a successful instruction.
Contents ==
  CASE Op = OP_NEW_ARRAY  -> Append(objs, [i \in 1 .. At(2) |-> NilV])
    [] Op = OP_NEW_OBJECT -> Append(objs, [k \in {} |-> NilV])
    [] Op = OP_ARRAY_SET  -> [objs EXCEPT ![CReg(1).n][CReg(2).n + 1] = CReg(3)]
    [] Op = OP_ARRAY_PUSH -> [objs EXCEPT ![CReg(1).n] = Append(@, CReg(2))]
    [] Op = OP_SET_PROP   -> [objs EXCEPT ![CReg(1).n] = (pool[At16(2) + 1].s :> CReg(4)) @@ @]
    [] OTHER              -> objs

\* The error an instruction that stores must raise.
StoreError ==
  CASE Op = OP_ARRAY_SET ->
         IF CReg(1).t # "Array" \/ CReg(2).t # "Int" THEN "type error"
         ELSE IF Contains0(CReg(1), CReg(2)) THEN "" ELSE "index out of range"
    [] Op \in {OP_ARRAY_PUSH, OP_SET_PROP} ->
         IF CReg(1).t # (IF Op = OP_SET_PROP THEN "Map" ELSE "Array") THEN "type error" ELSE ""
    [] Op \in Computes -> IF Computed.t = "Error" THEN Computed.s ELSE ""

\* render(): a container shows its kind only.
Printed(v) == IF v.t \in {"Array", "Map", "Closure"} THEN v.t ELSE v

\* The instruction writes a register or a container.
DataStep ==
  /\ Op \in Computes \cup Stores
  /\ IF StoreError # "" THEN error' = StoreError /\ UNCHANGED cvars
     ELSE /\ error' = "" /\ objs' = Contents
          /\ cregs' = IF Op \in Computes THEN [cregs EXCEPT ![Len(cregs)][At(1)] = Computed]
                                         ELSE cregs
          /\ caps' = IF Op = OP_CLOSURE THEN Append(caps, [i \in 1 .. At(4) |-> CReg(4 + i)])
                                        ELSE caps
          /\ UNCHANGED <<pool, output>>

PrintStep ==
  /\ Op = OP_PRINT
  /\ output' = Append(output, Printed(CReg(1))) /\ UNCHANGED <<pool, cregs, caps, objs>>

\* The builtin kept here, len(); any other argument is its error.
len_fn(v) ==
  CASE v.t = "String" -> IntV(Len(v.s))
    [] v.t = "Array"  -> IntV(Len(Content(v)))
    [] v.t = "Map"    -> IntV(Cardinality(DOMAIN Content(v)))
    [] OTHER          -> Error("builtin error")

NativeStep ==
  LET r == len_fn(CReg(1)) IN
  /\ Op = OP_CALL_NATIVE
  /\ error' = (IF r.t = "Error" THEN r.s ELSE "")
  /\ cregs' = IF r.t = "Error" THEN cregs ELSE [cregs EXCEPT ![Len(cregs)][At(1)] = r]
  /\ UNCHANGED <<pool, caps, objs, output>>

\* Calls push a register file, returns deliver a value and pop one.
PushStep ==
  LET args == IF Op = OP_CALL_VALUE THEN At(1) + 1 ELSE At(1)
      n == IF Op = OP_CALL_VALUE THEN At(2) ELSE At(4)
      new == frames'[Len(frames) + 1]
      file == [r \in DOMAIN new.regs |->
                 IF r < n /\ r < Fn(new.fn).num_params THEN TopRegs[args + r] ELSE NilV]
  IN  /\ Len(frames') = Len(frames) + 1
      /\ cregs' = Append(cregs, file) /\ UNCHANGED <<pool, caps, objs, output>>

PopStep ==
  LET n == Len(cregs) - 1
      v == IF Top.pc >= CodeLen(Top.fn) THEN NilV ELSE CReg(1)
  IN  /\ Len(frames') < Len(frames)
      /\ cregs' = IF frames' = <<>> THEN <<>>
                  ELSE [SubSeq(cregs, 1, n) EXCEPT ![n][Top.result_reg] = v]
      /\ UNCHANGED <<pool, caps, objs, output>>

\* Jumps, and the errors of calls.
ControlStep ==
  /\ Len(frames') = Len(frames)
  /\ Op \notin Computes \cup Stores \cup {OP_PRINT, OP_CALL_NATIVE}
  /\ UNCHANGED cvars

\* run() before, between and after the instructions.
OutsideStep ==
  \/ /\ status = "idle"
     /\ cregs' = [k \in DOMAIN frames' |-> [r \in DOMAIN frames'[k].regs |-> NilV]]
     /\ UNCHANGED <<pool, caps, objs, output>>
  \/ status = "running" /\ (frames = <<>> \/ insns >= max_insns) /\ UNCHANGED cvars

Fetches == status = "running" /\ frames # <<>> /\ insns < max_insns

Instruction ==
  /\ Top.pc < CodeLen(Top.fn)
  /\ DataStep \/ PrintStep \/ NativeStep \/ PushStep \/ ControlStep

RunConcrete ==
  /\ Run
  /\ OutsideStep \/ (Fetches /\ (PopStep \/ Instruction))
  /\ Instance'
=============================================================================
