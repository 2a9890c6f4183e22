------------------------------- MODULE Disasm --------------------------------
(***************************************************************************)
(* The disassembler (src/src/disasm.cc), one printed line per step.  It    *)
(* walks a loaded module, verified or not, with a layout table of its own. *)
(* Of a line are kept its offset, what follows it, whether it could be     *)
(* decoded, the jump target and the constants it shows; not its wording.   *)
(* charcoal dis does not verify: the verifier runs first here so that the  *)
(* two walks over the same bytes can be compared.                          *)
(***************************************************************************)
EXTENDS VMInv

VARIABLES
  dfn,     \* the function being disassembled
  dpc,     \* its pc; -1 between functions
  lines    \* the lines so far, by function

dvars == <<dfn, dpc, lines>>

\* R: register, K: constant index, N: count, O: jump offset.
op_info(op) ==
  CASE op = OP_HALT -> <<>>
    [] op \in {OP_LOAD_NIL, OP_NEW_OBJECT, OP_RET, OP_PRINT} -> <<"R">>
    [] op \in {OP_MOVE, OP_ARRAY_PUSH} \cup Unary -> <<"R", "R">>
    [] op \in Binary \cup {OP_ARRAY_GET, OP_ARRAY_SET} -> <<"R", "R", "R">>
    [] op \in {OP_NEW_ARRAY, OP_GET_UPVAL, OP_CALL_VALUE} -> <<"R", "N">>
    [] op = OP_LOAD_CONST -> <<"R", "K">>
    [] op = OP_GET_PROP -> <<"R", "R", "K">>
    [] op = OP_SET_PROP -> <<"R", "K", "R">>
    [] op \in {OP_CALL, OP_CALL_NATIVE} -> <<"R", "K", "N">>
    [] op = OP_JUMP -> <<"O">>
    [] op = OP_JUMP_IF_FALSE -> <<"R", "O">>
    [] OTHER -> <<"unknown">>

opnd_width(o) == IF o \in {"R", "N"} THEN 1 ELSE 2

\* Where operand i of ops is, counted from the opcode.
OpndAt(ops, i) == 1 + (IF i > 1 THEN opnd_width(ops[1]) ELSE 0)
                    + (IF i > 2 THEN opnd_width(ops[2]) ELSE 0)
                    + (IF i > 3 THEN opnd_width(ops[3]) ELSE 0)
OpndLen(ops) == OpndAt(ops, Len(ops) + 1)

Line(pc, next, what, targets, consts) ==
  [pc |-> pc, next |-> next, what |-> what, targets |-> targets, consts |-> consts]
Stopped(pc, what) == Line(pc, pc, what, {}, {})

\* Faulty: the captured registers may run past the code.
ClosureLineUnchecked(f, pc) ==
  IF pc + 5 > CodeLen(f) THEN Stopped(pc, "truncated")
  ELSE Line(pc, pc + 5 + u8(f, pc + 4), "instr", {}, {})

ClosureLine(f, pc) ==
  IF pc + 5 > CodeLen(f) THEN Stopped(pc, "truncated")
  ELSE IF pc + 5 + u8(f, pc + 4) > CodeLen(f) THEN Stopped(pc, "truncated")
  ELSE Line(pc, pc + 5 + u8(f, pc + 4), "instr", {}, {})

\* Faulty: a jump counts from its own opcode.
TargetFromOpcode(f, pc, next, at) == pc + i16(f, at)

\* A jump counts from the end of its instruction.
Target(f, pc, next, at) == next + i16(f, at)

FixedLine(f, pc) ==
  LET ops == op_info(u8(f, pc))
      next == pc + OpndLen(ops)
      operands(o) == {i \in DOMAIN ops : ops[i] = o}
  IN  IF ops = <<"unknown">> THEN Stopped(pc, "unknown")
      ELSE IF next > CodeLen(f) THEN Stopped(pc, "truncated")
      ELSE Line(pc, next, "instr",
                {Target(f, pc, next, pc + OpndAt(ops, i)) : i \in operands("O")},
                {u16(f, pc + OpndAt(ops, i)) : i \in operands("K")})

LineAt(f, pc) == IF u8(f, pc) = OP_CLOSURE THEN ClosureLine(f, pc) ELSE FixedLine(f, pc)

DInit == dfn = 0 /\ dpc = -1 /\ lines = [f \in FuncIdx |-> <<>>]

\* disassemble_fn's header.
Header ==
  /\ dpc = -1 /\ dfn < Len(mod.funcs)
  /\ dpc' = 0 /\ UNCHANGED <<dfn, lines>>

\* One line; after one that could not be decoded the function ends.
PrintLine ==
  /\ dpc # -1 /\ dpc < CodeLen(dfn)
  /\ LET l == LineAt(dfn, dpc) IN
     /\ lines' = [lines EXCEPT ![dfn] = Append(@, l)]
     /\ IF l.what = "instr" THEN dpc' = l.next /\ UNCHANGED dfn ELSE dpc' = -1 /\ dfn' = dfn + 1

NextFunction ==
  /\ dpc # -1 /\ dpc >= CodeLen(dfn)
  /\ dpc' = -1 /\ dfn' = dfn + 1 /\ UNCHANGED lines

Disassembled == dfn = Len(mod.funcs)
DNext == verdict # "pending" /\ (Header \/ PrintLine \/ NextFunction)

-----------------------------------------------------------------------------
Finished(f) == dfn > f

\* Of a module the verifier accepts, the lines are the verifier's instructions:
\* none is cut short or unknown, every jump shown lands on a line, and every
\* constant shown exists.
AgreesWithVerifier ==
  verdict = "ok" =>
    \A f \in FuncIdx : Finished(f) =>
      LET shown == {lines[f][k] : k \in 1 .. Len(lines[f])} IN
      /\ {l.pc : l \in shown} = is_start[f]
      /\ \A l \in shown : /\ l.what = "instr"
                          /\ l.targets \subseteq is_start[f]
                          /\ \A c \in l.consts : c < NumConsts

\* Of any module: lines follow one another without a gap, from the first byte to
\* the last or to the one line that could not be decoded.
LinesTile ==
  \A f \in FuncIdx : lines[f] # <<>> =>
    LET last == lines[f][Len(lines[f])] IN
    /\ lines[f][1].pc = 0
    /\ \A k \in 1 .. Len(lines[f]) - 1 : /\ lines[f][k].what = "instr"
                                         /\ lines[f][k + 1].pc = lines[f][k].next
    /\ last.next <= CodeLen(f)
    /\ Finished(f) => last.what # "instr" \/ last.next = CodeLen(f)

-----------------------------------------------------------------------------
(***************************************************************************)
(* The commands that read a .cbc (cli/main.cc): it is verified, run, and   *)
(* listed by dis, one after the other.  run and dis share nothing but the  *)
(* loaded module, so that one order stands for all.                        *)
(***************************************************************************)
allvars == <<vars, dvars>>

CInit == Init /\ DInit

CNext ==
  \/ (Verify \/ Run) /\ UNCHANGED dvars
  \/ Returned /\ DNext /\ UNCHANGED vars
  \/ Disassembled /\ Rest /\ UNCHANGED dvars

\* run_cbc is one sequential call: while it has a step to take it takes it.
CSpec == CInit /\ [][CNext]_allvars /\ WF_vars(Verify \/ Run)
=============================================================================
