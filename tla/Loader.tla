-------------------------------- MODULE Loader -------------------------------
(***************************************************************************)
(* The .cbc loader (src/src/loader.cc), one field read per step.  A field  *)
(* is kept as the bytes read, lowest first: Num gives the number where the *)
(* code compares one, and a 64-bit payload stays a string of eight bytes,  *)
(* which determines it.  Error messages are left out.                      *)
(***************************************************************************)
EXTENDS Integers, Sequences

CONSTANT Inputs   \* the buffers load_cbc is called on

Byte == 0 .. 255
ASSUME InputsAssumption == Inputs \subseteq Seq(Byte)

VARIABLES
  data,     \* the buffer
  i, bad,   \* Reader
  phase,    \* the record being read, a loop head, or "ok" / "err"
  fields,   \* the fields of that record read so far
  header,   \* const_count, func_count, entry_func
  consts, funcs

vars == <<data, i, bad, phase, fields, header, consts, funcs>>

\* Faulty: a function's num_params is read as two bytes.
LayoutWideParams ==
  [magic |-> <<1, 1, 1, 1>>, version |-> <<2, 2>>, counts |-> <<4, 4, 4>>, tag |-> <<1>>,
   Int |-> <<8>>, Double |-> <<8>>, Str |-> <<4>>, Bool |-> <<1>>,
   func |-> <<4, 2, 1, 2, 4>>]

\* The widths of the fields of each record, in order.
Layout ==
  [magic |-> <<1, 1, 1, 1>>, version |-> <<2, 2>>, counts |-> <<4, 4, 4>>, tag |-> <<1>>,
   Int |-> <<8>>, Double |-> <<8>>, Str |-> <<4>>, Bool |-> <<1>>,
   func |-> <<4, 1, 1, 2, 4>>]

\* The tag byte's meaning.
CTag == [t \in 0 .. 4 |-> <<"Int", "Double", "Str", "Nil", "Bool">>[t + 1]]

Init ==
  /\ data \in Inputs
  /\ i = 0 /\ bad = FALSE
  /\ phase = "magic" /\ fields = <<>>
  /\ header = [const_count |-> 0, func_count |-> 0, entry_func |-> 0]
  /\ consts = <<>> /\ funcs = <<>>

\* Faulty: one byte past the end may be read.
NeedOffByOne(k) == i + k <= Len(data) + 1

need(k) == i + k <= Len(data)

\* The next k bytes.  0 stands for whatever lies behind the buffer: CursorInBounds
\* says that none of it is read.
Peek(k) == [j \in 1 .. k |-> IF i + j <= Len(data) THEN data[i + j] ELSE 0]

\* One guarded read: a failed one yields 0 and leaves the cursor where it is.
ReadField ==
  /\ phase \in DOMAIN Layout /\ Len(fields) < Len(Layout[phase])
  /\ LET k == Layout[phase][Len(fields) + 1] IN
     IF need(k)
     THEN fields' = Append(fields, Peek(k)) /\ i' = i + k /\ UNCHANGED bad
     ELSE fields' = Append(fields, [j \in 1 .. k |-> 0]) /\ bad' = TRUE /\ UNCHANGED i
  /\ UNCHANGED <<data, phase, header, consts, funcs>>

Num(b) ==
  IF Len(b) = 1 THEN b[1]
  ELSE IF Len(b) = 2 THEN b[1] + 256 * b[2]
  ELSE b[1] + 256 * b[2] + 65536 * b[3] + 16777216 * b[4]

\* All fields of the record p are read; field n as a number.
Complete(p) == phase = p /\ Len(fields) = Len(Layout[p])
Field(n)    == Num(fields[n])

Goto(p) == phase' = p /\ fields' = <<>> /\ UNCHANGED <<data, bad>>
Fail    == Goto("err") /\ UNCHANGED <<i, header, consts, funcs>>

\* Faulty: the last byte of the magic is not looked at.
MagicPrefix ==
  /\ Complete("magic")
  /\ IF bad \/ <<Field(1), Field(2), Field(3)>> # <<67, 66, 67>> THEN Fail
     ELSE Goto("version") /\ UNCHANGED <<i, header, consts, funcs>>

Magic ==
  /\ Complete("magic")
  /\ IF bad \/ <<Field(1), Field(2), Field(3), Field(4)>> # <<67, 66, 67, 1>> THEN Fail
     ELSE Goto("version") /\ UNCHANGED <<i, header, consts, funcs>>

\* The flags are reserved and ignored.
Version ==
  /\ Complete("version")
  /\ IF bad \/ Field(1) # 1 THEN Fail
     ELSE Goto("counts") /\ UNCHANGED <<i, header, consts, funcs>>

Counts ==
  /\ Complete("counts")
  /\ IF bad \/ Field(1) > Len(data) \/ Field(2) > Len(data) THEN Fail
     ELSE /\ header' = [const_count |-> Field(1), func_count |-> Field(2),
                        entry_func |-> Field(3)]
          /\ Goto("consts") /\ UNCHANGED <<i, consts, funcs>>

\* The two loop heads.
NextConst ==
  /\ phase = "consts"
  /\ Goto(IF Len(consts) < header.const_count THEN "tag" ELSE "funcs")
  /\ UNCHANGED <<i, header, consts, funcs>>

NextFunc ==
  /\ phase = "funcs" /\ Len(funcs) < header.func_count
  /\ Goto("func") /\ UNCHANGED <<i, header, consts, funcs>>

\* A constant is its tag and its payload's bytes.
AddConst(t, payload) ==
  /\ consts' = Append(consts, [tag |-> t, payload |-> payload])
  /\ Goto("consts") /\ UNCHANGED <<header, funcs>>

Tag ==
  /\ Complete("tag")
  /\ IF bad \/ Field(1) \notin DOMAIN CTag THEN Fail
     ELSE IF CTag[Field(1)] = "Nil" THEN AddConst("Nil", <<>>) /\ UNCHANGED i
     ELSE Goto(CTag[Field(1)]) /\ UNCHANGED <<i, header, consts, funcs>>

Number(t) ==
  /\ Complete(t)
  /\ IF bad THEN Fail ELSE AddConst(t, fields[1]) /\ UNCHANGED i

Bool ==
  /\ Complete("Bool")
  /\ IF bad THEN Fail
     ELSE AddConst("Bool", <<IF Field(1) # 0 THEN 1 ELSE 0>>) /\ UNCHANGED i

\* Faulty: the cursor stays before the string's bytes.
StrNotSkipped ==
  /\ Complete("Str")
  /\ IF bad \/ ~need(Field(1)) THEN Fail
     ELSE AddConst("Str", Peek(Field(1))) /\ UNCHANGED i

Str ==
  /\ Complete("Str")
  /\ IF bad \/ ~need(Field(1)) THEN Fail
     ELSE AddConst("Str", Peek(Field(1))) /\ i' = i + Field(1)

\* Faulty: any constant may name a function.
NameInRange == Field(1) < Len(consts)

NameOk == Field(1) < Len(consts) /\ consts[Field(1) + 1].tag = "Str"

AddFunc ==
  /\ funcs' = Append(funcs, [name_const |-> Field(1), num_params |-> Field(2),
                             num_regs |-> Field(3), max_stack |-> Field(4),
                             code |-> Peek(Field(5))])
  /\ i' = i + Field(5)
  /\ Goto("funcs") /\ UNCHANGED <<header, consts>>

\* Faulty: the truncation of the function's header goes unnoticed.
FuncBadIgnored ==
  /\ Complete("func")
  /\ IF ~NameOk \/ ~need(Field(5)) THEN Fail ELSE AddFunc

Func ==
  /\ Complete("func")
  /\ IF bad \/ ~NameOk \/ ~need(Field(5)) THEN Fail ELSE AddFunc

\* Bytes behind the last function are ignored.
Finish ==
  /\ phase = "funcs" /\ Len(funcs) >= header.func_count
  /\ IF header.entry_func >= Len(funcs) THEN Fail
     ELSE Goto("ok") /\ UNCHANGED <<i, header, consts, funcs>>

Done == phase \in {"ok", "err"} /\ UNCHANGED vars

Next ==
  \/ ReadField \/ Magic \/ Version \/ Counts \/ NextConst \/ NextFunc
  \/ Tag \/ Number("Int") \/ Number("Double") \/ Bool \/ Str \/ Func \/ Finish \/ Done

Spec == Init /\ [][Next]_vars

-----------------------------------------------------------------------------
(***************************************************************************)
(* Properties.                                                             *)
(***************************************************************************)
Records == DOMAIN Layout
Constant == [tag : {"Int", "Double", "Str", "Nil", "Bool"}, payload : Seq(Byte)]
Function == [name_const : Nat, num_params : Byte, num_regs : Byte,
             max_stack : Nat, code : Seq(Byte)]
\* The fields read have the widths of their record.
FieldsType ==
  /\ fields \in Seq(Seq(Byte))
  /\ phase \notin Records => fields = <<>>
  /\ phase \in Records =>
       /\ Len(fields) <= Len(Layout[phase])
       /\ \A n \in 1 .. Len(fields) : Len(fields[n]) = Layout[phase][n]
TypeOK ==
  /\ data \in Seq(Byte) /\ i \in Nat /\ bad \in BOOLEAN
  /\ phase \in Records \cup {"consts", "funcs", "ok", "err"}
  /\ FieldsType
  /\ header \in [const_count : Nat, func_count : Nat, entry_func : Nat]
  /\ consts \in Seq(Constant) /\ funcs \in Seq(Function)

\* loader.cc:9-10: "`i` can never exceed `n`": no field or byte string lies outside
\* the buffer, however the lengths in the input lie.
CursorInBounds == i <= Len(data)

\* What the rest of the VM is promised of a loaded module: the header told the
\* truth, every function is named by a string, the entry function exists.
FuncsNamed ==
  \A f \in 1 .. Len(funcs) :
    /\ funcs[f].name_const < Len(consts)
    /\ consts[funcs[f].name_const + 1].tag = "Str"
LoadedWellFormed ==
  phase = "ok" =>
    /\ Len(consts) = header.const_count /\ Len(funcs) = header.func_count
    /\ FuncsNamed
    /\ header.entry_func < Len(funcs)

\* How far each table has got in each phase.
Progress ==
  /\ phase \in {"magic", "version", "counts"} => consts = <<>>
  /\ phase = "consts" => Len(consts) <= header.const_count
  /\ phase \in {"tag", "Int", "Double", "Str", "Bool"} => Len(consts) < header.const_count
  /\ phase \in {"funcs", "func", "ok"} => Len(consts) = header.const_count
  /\ phase \notin {"funcs", "func", "ok", "err"} => funcs = <<>>
  /\ phase = "funcs" => Len(funcs) <= header.func_count
  /\ phase = "func" => Len(funcs) < header.func_count
  /\ phase = "ok" => Len(funcs) = header.func_count /\ header.entry_func < Len(funcs)
IInv == TypeOK /\ CursorInBounds /\ FuncsNamed /\ Progress

\* The loaded module as the verifier and the interpreter see it (Value::truthy:
\* zero of either sign is false, every other number true).
Truthy(c) ==
  \/ c.tag = "Str"
  \/ c.tag = "Int" /\ \E k \in 1 .. Len(c.payload) : c.payload[k] # 0
  \/ c.tag = "Double" /\ \E k \in 1 .. Len(c.payload) :
                           c.payload[k] # 0 /\ ~(k = 8 /\ c.payload[k] = 128)
  \/ c.tag = "Bool" /\ c.payload = <<1>>
AsBytecode ==
  [consts |-> [k \in 1 .. Len(consts) |->
                 [tag |-> consts[k].tag, truthy |-> Truthy(consts[k]),
                  s |-> IF consts[k].tag = "Str" THEN consts[k].payload ELSE <<>>]],
   funcs |-> [k \in 1 .. Len(funcs) |->
                [name_const |-> funcs[k].name_const, num_params |-> funcs[k].num_params,
                 num_regs |-> funcs[k].num_regs, code |-> funcs[k].code]],
   entry_func |-> header.entry_func]
Format == INSTANCE Bytecode WITH Modules <- {}, Names <- Seq(Byte), mod <- AsBytecode

\* What is loaded is a module in the sense of the verifier and the interpreter:
\* the assumption they make of their input is one that the loader discharges.
LoadedIsModule == phase = "ok" => AsBytecode \in Format!Module
=============================================================================
