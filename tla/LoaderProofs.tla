----------------------------- MODULE LoaderProofs ----------------------------
(***************************************************************************)
(* The loader is safe on every input, and it undoes the serializer: proofs *)
(* about modules Loader and Serialize for every set of byte strings and    *)
(* every set of modules.                                                   *)
(***************************************************************************)
EXTENDS Serialize, Induction, TLAPS

\* A byte, and little-endian numbers of two and four bytes.
LEMMA Byte1 == ASSUME NEW x \in Byte PROVE x \in Nat /\ x \in 0 .. 255
BY DEF Byte
LEMMA Byte2 ==
  ASSUME NEW x \in Byte, NEW y \in Byte PROVE x + 256 * y \in Nat
BY DEF Byte
LEMMA Byte4 ==
  ASSUME NEW x \in Byte, NEW y \in Byte, NEW z \in Byte, NEW w \in Byte
  PROVE  x + 256 * y + 65536 * z + 16777216 * w \in Nat
BY DEF Byte
LEMMA ByteZero == 0 \in Byte
BY DEF Byte

\* A field of one, two or four bytes is a number of that width.
LEMMA Num1 ==
  ASSUME NEW b \in Seq(Byte), Len(b) = 1 PROVE Num(b) \in Byte
<1>1. b[1] \in Byte
  OBVIOUS
<1> QED BY <1>1 DEF Num

LEMMA Num2 ==
  ASSUME NEW b \in Seq(Byte), Len(b) = 2 PROVE Num(b) \in Nat
<1>1. b[1] \in Byte /\ b[2] \in Byte
  OBVIOUS
<1>2. b[1] + 256 * b[2] \in Nat
  BY <1>1, Byte2
<1>3. Num(b) = b[1] + 256 * b[2]
  BY DEF Num
<1> QED BY <1>2, <1>3

LEMMA Elements == ASSUME NEW b \in Seq(Byte) PROVE \A k \in 1 .. Len(b) : b[k] \in Byte
OBVIOUS

LEMMA Num4 ==
  ASSUME NEW b \in Seq(Byte), Len(b) = 4 PROVE Num(b) \in Nat
<1>1. b[1] \in Byte /\ b[2] \in Byte /\ b[3] \in Byte /\ b[4] \in Byte
  <2>1. \A k \in 1 .. Len(b) : b[k] \in Byte
    BY Elements
  <2>2. 1 \in 1 .. Len(b) /\ 2 \in 1 .. Len(b) /\ 3 \in 1 .. Len(b) /\ 4 \in 1 .. Len(b)
    OBVIOUS
  <2> QED BY <2>1, <2>2
<1>2. b[1] + 256 * b[2] + 65536 * b[3] + 16777216 * b[4] \in Nat
  BY <1>1, Byte4
<1>3. Num(b) = b[1] + 256 * b[2] + 65536 * b[3] + 16777216 * b[4]
  BY DEF Num
<1> QED BY <1>2, <1>3

\* What Peek returns has the length asked for and holds bytes.
LEMMA PeekType ==
  ASSUME data \in Seq(Byte), i \in Nat, NEW k \in Nat
  PROVE  Peek(k) \in Seq(Byte) /\ Len(Peek(k)) = k
<1>1. ASSUME NEW j \in 1 .. k
      PROVE  (IF i + j <= Len(data) THEN data[i + j] ELSE 0) \in Byte
  <2>1. CASE i + j <= Len(data)
    <3>1. i + j \in 1 .. Len(data)
      BY <2>1
    <3>2. data[i + j] \in Byte
      BY <3>1
    <3> QED BY <2>1, <3>2
  <2> QED BY <2>1, ByteZero
<1>2. Peek(k) \in [1 .. k -> Byte]
  BY <1>1 DEF Peek
<1> QED BY <1>2

\* The layouts, record by record.
LEMMA Widths ==
  ASSUME NEW p \in Records
  PROVE  /\ Len(Layout[p]) \in 1 .. 5
         /\ \A n \in 1 .. Len(Layout[p]) : Layout[p][n] \in {1, 2, 4, 8}
<1>1. p \in {"magic", "version", "counts", "tag", "Int", "Double", "Str", "Bool", "func"}
  BY DEF Records, Layout
<1>2. CASE p = "magic"
  BY <1>2 DEF Layout
<1>3. CASE p = "version"
  BY <1>3 DEF Layout
<1>4. CASE p = "counts"
  BY <1>4 DEF Layout
<1>5. CASE p \in {"tag", "Int", "Double", "Str", "Bool"}
  BY <1>5 DEF Layout
<1>6. CASE p = "func"
  BY <1>6 DEF Layout
<1> QED BY <1>1, <1>2, <1>3, <1>4, <1>5, <1>6

\* Field n of a completed record has the width the layout gives it.
LEMMA FieldType ==
  ASSUME TypeOK, NEW p \in Records, Complete(p), NEW n \in 1 .. Len(Layout[p])
  PROVE  /\ fields[n] \in Seq(Byte)
         /\ Layout[p][n] = 1 => Field(n) \in Byte
         /\ Layout[p][n] = 2 => Field(n) \in Nat
         /\ Layout[p][n] = 4 => Field(n) \in Nat
<1>1. n \in 1 .. Len(fields) /\ phase = p
  BY DEF Complete
<1>2. fields \in Seq(Seq(Byte)) /\ \A k \in 1 .. Len(fields) : Len(fields[k]) = Layout[p][k]
  BY <1>1 DEF TypeOK, FieldsType
<1>3. fields[n] \in Seq(Byte) /\ Len(fields[n]) = Layout[p][n]
  BY <1>1, <1>2
<1>4. Layout[p][n] = 1 => Field(n) \in Byte
  BY <1>3, Num1 DEF Field
<1>5. Layout[p][n] = 2 => Field(n) \in Nat
  BY <1>3, Num2 DEF Field
<1>6. Layout[p][n] = 4 => Field(n) \in Nat
  BY <1>3, Num4 DEF Field
<1> QED BY <1>3, <1>4, <1>5, <1>6

\* An empty record of fields, whatever is read next.
LEMMA Fresh ==
  ASSUME NEW p \in Records \cup {"consts", "funcs", "ok", "err"}, Goto(p)
  PROVE  FieldsType'
<1>1. phase' = p /\ fields' = <<>>
  BY DEF Goto
<1>2. p \in Records => Len(Layout[p]) \in 1 .. 5
  BY Widths
<1> QED BY <1>1, <1>2 DEF FieldsType

LEMMA InitInv == Init => IInv
<1> SUFFICES ASSUME Init PROVE IInv
  OBVIOUS
<1>1. "magic" \in Records
  BY DEF Records, Layout
<1>2. FieldsType
  BY <1>1, Widths DEF Init, FieldsType
<1>3. data \in Seq(Byte)
  BY InputsAssumption DEF Init
<1>4. TypeOK
  <2>1. header \in [const_count : Nat, func_count : Nat, entry_func : Nat]
    BY DEF Init
  <2>2. consts \in Seq(Constant) /\ funcs \in Seq(Function)
    BY DEF Init
  <2>3. i \in Nat /\ bad \in BOOLEAN /\ phase \in Records
    BY <1>1 DEF Init
  <2> QED BY <1>2, <1>3, <2>1, <2>2, <2>3 DEF TypeOK
<1>5. CursorInBounds
  BY <1>3 DEF Init, CursorInBounds
<1> QED BY <1>4, <1>5 DEF Init, IInv, FuncsNamed, Progress

-----------------------------------------------------------------------------
(***************************************************************************)
(* The steps.                                                              *)
(***************************************************************************)
Tables == <<header, consts, funcs>>

LEMMA ReadFieldInv ==
  ASSUME IInv, ReadField
  PROVE  IInv'
<1> DEFINE k == Layout[phase][Len(fields) + 1]
<1>1. /\ phase \in Records /\ Len(fields) < Len(Layout[phase])
      /\ UNCHANGED <<data, phase, header, consts, funcs>>
  BY DEF ReadField, Records
<1>2. /\ data \in Seq(Byte) /\ i \in Nat /\ fields \in Seq(Seq(Byte)) /\ i <= Len(data)
      /\ \A n \in 1 .. Len(fields) : Len(fields[n]) = Layout[phase][n]
  BY <1>1 DEF IInv, TypeOK, FieldsType, CursorInBounds
<1>3. Len(Layout[phase]) \in Nat /\ Len(fields) + 1 \in 1 .. Len(Layout[phase])
  BY <1>1, <1>2, Widths
<1>4. k \in {1, 2, 4, 8}
  BY <1>1, <1>3, Widths
<1>5. PICK f \in Seq(Byte) :
        /\ Len(f) = k /\ fields' = Append(fields, f)
        /\ \/ need(k) /\ i' = i + k /\ bad' = bad
           \/ i' = i /\ bad' = TRUE
  <2>1. CASE need(k)
    <3>1. Peek(k) \in Seq(Byte) /\ Len(Peek(k)) = k
      BY <1>2, <1>4, PeekType
    <3> QED BY <2>1, <3>1 DEF ReadField
  <2>2. CASE ~need(k)
    <3> DEFINE z == [j \in 1 .. k |-> 0]
    <3>1. z \in [1 .. k -> Byte] /\ k \in Nat
      BY <1>4, ByteZero
    <3>2. z \in Seq(Byte) /\ Len(z) = k
      BY <3>1
    <3>3. fields' = Append(fields, z) /\ i' = i /\ bad' = TRUE
      BY <2>2 DEF ReadField
    <3> QED BY <3>2, <3>3
  <2> QED BY <2>1, <2>2
<1> HIDE DEF k
<1>6. i' \in Nat /\ i' <= Len(data)
  BY <1>2, <1>4, <1>5 DEF need
<1>7. bad' \in BOOLEAN
  BY <1>5 DEF IInv, TypeOK
<1>8. /\ fields' \in Seq(Seq(Byte)) /\ Len(fields') = Len(fields) + 1
      /\ fields'[Len(fields) + 1] = f
      /\ \A n \in 1 .. Len(fields) : fields'[n] = fields[n]
  BY <1>2, <1>5
<1>9. \A n \in 1 .. Len(fields') : Len(fields'[n]) = Layout[phase][n]
  <2> SUFFICES ASSUME NEW n \in 1 .. Len(fields') PROVE Len(fields'[n]) = Layout[phase][n]
    OBVIOUS
  <2>1. CASE n = Len(fields) + 1
    BY <2>1, <1>5, <1>8 DEF k
  <2>2. CASE n # Len(fields) + 1
    <3>1. n \in 1 .. Len(fields)
      BY <2>2, <1>8, <1>2
    <3> QED BY <3>1, <1>2, <1>8
  <2> QED BY <2>1, <2>2
<1>10. FieldsType'
  BY <1>1, <1>3, <1>8, <1>9 DEF FieldsType
<1>11. TypeOK' /\ CursorInBounds'
  BY <1>1, <1>2, <1>6, <1>7, <1>10 DEF IInv, TypeOK, CursorInBounds
<1> QED BY <1>1, <1>11 DEF IInv, FuncsNamed, Progress

\* A record that ends without touching the tables or the cursor.
LEMMA GotoInv ==
  ASSUME IInv, NEW p \in Records \cup {"consts", "funcs", "ok", "err"}, Goto(p),
         UNCHANGED i, FuncsNamed', Progress',
         header' \in [const_count : Nat, func_count : Nat, entry_func : Nat],
         consts' \in Seq(Constant), funcs' \in Seq(Function)
  PROVE  IInv'
<1>1. FieldsType'
  BY Fresh
<1>2. phase' = p /\ data' = data /\ bad' = bad
  BY DEF Goto
<1> QED BY <1>1, <1>2 DEF IInv, TypeOK, CursorInBounds

LEMMA FailInv == ASSUME IInv, Fail PROVE IInv'
<1>1. Goto("err") /\ UNCHANGED <<i, header, consts, funcs>> /\ phase' = "err"
  BY DEF Fail, Goto
<1>2. FuncsNamed' /\ Progress'
  BY <1>1 DEF IInv, FuncsNamed, Progress
<1> QED BY <1>1, <1>2, GotoInv DEF IInv, TypeOK

LEMMA MagicInv == ASSUME IInv, Magic PROVE IInv'
<1>1. CASE Fail
  BY <1>1, FailInv
<1>2. CASE Goto("version") /\ UNCHANGED <<i, header, consts, funcs>>
  <2>1. phase = "magic" /\ phase' = "version"
    BY <1>2 DEF Magic, Complete, Goto
  <2>2. FuncsNamed' /\ Progress'
    BY <1>2, <2>1 DEF IInv, FuncsNamed, Progress
  <2>3. "version" \in Records
    BY DEF Records, Layout
  <2> QED BY <1>2, <2>2, <2>3, GotoInv DEF IInv, TypeOK
<1> QED BY <1>1, <1>2 DEF Magic

LEMMA VersionInv == ASSUME IInv, Version PROVE IInv'
<1>1. CASE Fail
  BY <1>1, FailInv
<1>2. CASE Goto("counts") /\ UNCHANGED <<i, header, consts, funcs>>
  <2>1. phase = "version" /\ phase' = "counts"
    BY <1>2 DEF Version, Complete, Goto
  <2>2. FuncsNamed' /\ Progress'
    BY <1>2, <2>1 DEF IInv, FuncsNamed, Progress
  <2>3. "counts" \in Records
    BY DEF Records, Layout
  <2> QED BY <1>2, <2>2, <2>3, GotoInv DEF IInv, TypeOK
<1> QED BY <1>1, <1>2 DEF Version

LEMMA CountsInv == ASSUME IInv, Counts PROVE IInv'
<1>1. CASE Fail
  BY <1>1, FailInv
<1>2. CASE ~Fail
  <2>1. /\ Complete("counts") /\ phase = "counts" /\ "counts" \in Records
        /\ Layout["counts"] = <<4, 4, 4>>
    BY <1>2 DEF Counts, Complete, Records, Layout
  <2>2. Field(1) \in Nat /\ Field(2) \in Nat /\ Field(3) \in Nat
    BY <2>1, FieldType DEF IInv
  <2>3. /\ header' = [const_count |-> Field(1), func_count |-> Field(2), entry_func |-> Field(3)]
        /\ Goto("consts") /\ UNCHANGED <<i, consts, funcs>>
    BY <1>2 DEF Counts
  <2>4. phase' = "consts" /\ consts = <<>> /\ funcs = <<>>
    BY <2>1, <2>3 DEF Goto, IInv, Progress
  <2>5. header' \in [const_count : Nat, func_count : Nat, entry_func : Nat]
    BY <2>2, <2>3
  <2>6. FuncsNamed'
    BY <2>3, <2>4 DEF FuncsNamed
  <2>7. Progress'
    BY <2>3, <2>4, <2>2 DEF Progress
  <2> QED BY <2>3, <2>5, <2>6, <2>7, GotoInv DEF IInv, TypeOK
<1> QED BY <1>1, <1>2

LEMMA NextConstInv == ASSUME IInv, NextConst PROVE IInv'
<1>1. /\ phase = "consts" /\ UNCHANGED <<i, header, consts, funcs>>
      /\ Len(consts) \in Nat /\ header.const_count \in Nat
      /\ Len(consts) <= header.const_count /\ funcs = <<>> /\ header.func_count \in Nat
  BY DEF NextConst, IInv, TypeOK, Progress
<1>2. "tag" \in Records
  BY DEF Records, Layout
<1>3. CASE Len(consts) < header.const_count
  <2>1. Goto("tag") /\ phase' = "tag"
    BY <1>3 DEF NextConst, Goto
  <2>2. FuncsNamed' /\ Progress'
    BY <1>1, <1>3, <2>1 DEF FuncsNamed, Progress
  <2> QED BY <1>1, <1>2, <2>1, <2>2, GotoInv DEF IInv, TypeOK
<1>4. CASE ~(Len(consts) < header.const_count)
  <2>1. Goto("funcs") /\ phase' = "funcs"
    BY <1>4 DEF NextConst, Goto
  <2>2. FuncsNamed' /\ Progress'
    BY <1>1, <1>4, <2>1 DEF FuncsNamed, Progress
  <2> QED BY <1>1, <2>1, <2>2, GotoInv DEF IInv, TypeOK
<1> QED BY <1>3, <1>4

LEMMA NextFuncInv == ASSUME IInv, NextFunc PROVE IInv'
<1>1. /\ phase = "funcs" /\ UNCHANGED <<i, header, consts, funcs>>
      /\ Goto("func") /\ phase' = "func" /\ "func" \in Records
  BY DEF NextFunc, Goto, Records, Layout
<1>2. FuncsNamed' /\ Progress'
  BY <1>1 DEF NextFunc, IInv, FuncsNamed, Progress
<1> QED BY <1>1, <1>2, GotoInv DEF IInv, TypeOK

LEMMA FinishInv == ASSUME IInv, Finish PROVE IInv'
<1>1. CASE Fail
  BY <1>1, FailInv
<1>2. CASE ~Fail
  <2>1. /\ phase = "funcs" /\ UNCHANGED <<i, header, consts, funcs>>
        /\ Goto("ok") /\ phase' = "ok" /\ header.entry_func < Len(funcs)
        /\ Len(funcs) >= header.func_count
    <3>1. ~(header.entry_func >= Len(funcs))
      BY <1>2 DEF Finish
    <3>2. header.entry_func \in Nat /\ Len(funcs) \in Nat
      BY DEF IInv, TypeOK
    <3>3. header.entry_func < Len(funcs)
      BY <3>1, <3>2
    <3> QED BY <1>2, <3>3 DEF Finish, Goto
  <2>2. Len(funcs) = header.func_count
    <3>1. Len(funcs) \in Nat /\ header.func_count \in Nat /\ Len(funcs) <= header.func_count
      BY <2>1 DEF IInv, TypeOK, Progress
    <3> QED BY <2>1, <3>1
  <2>3. FuncsNamed' /\ Progress'
    BY <2>1, <2>2 DEF IInv, FuncsNamed, Progress
  <2> QED BY <2>1, <2>3, GotoInv DEF IInv, TypeOK
<1> QED BY <1>1, <1>2

\* One more constant, read with the cursor still in bounds.
LEMMA AddConstInv ==
  ASSUME IInv, phase \in {"tag", "Int", "Double", "Str", "Bool"},
         NEW t \in {"Int", "Double", "Str", "Nil", "Bool"}, NEW payload \in Seq(Byte),
         AddConst(t, payload), i' \in Nat, i' <= Len(data)
  PROVE  IInv'
<1> DEFINE c == [tag |-> t, payload |-> payload]
<1>1. /\ consts' = Append(consts, c) /\ UNCHANGED <<header, funcs, data, bad>>
      /\ Goto("consts") /\ phase' = "consts"
  BY DEF AddConst, Goto
<1>2. c \in Constant
  BY DEF Constant
<1> HIDE DEF c
<1>3. consts \in Seq(Constant) /\ Len(consts) < header.const_count /\ header.const_count \in Nat
  BY DEF IInv, TypeOK, Progress
<1>4. consts' \in Seq(Constant) /\ Len(consts') = Len(consts) + 1
  BY <1>1, <1>2, <1>3
<1>5. Len(consts') <= header.const_count
  BY <1>3, <1>4
<1>6. funcs = <<>>
  BY DEF IInv, Progress
<1>7. FieldsType'
  BY <1>1, Fresh
<1>8. TypeOK'
  BY <1>1, <1>4, <1>7 DEF IInv, TypeOK
<1>9. CursorInBounds' /\ FuncsNamed' /\ Progress'
  BY <1>1, <1>5, <1>6 DEF CursorInBounds, FuncsNamed, Progress
<1> QED BY <1>8, <1>9 DEF IInv

LEMMA TagInv == ASSUME IInv, Tag PROVE IInv'
<1>1. CASE Fail
  BY <1>1, FailInv
<1>2. CASE ~Fail
  <2>1. /\ phase = "tag" /\ Field(1) \in DOMAIN CTag
        /\ IF CTag[Field(1)] = "Nil" THEN AddConst("Nil", <<>>) /\ UNCHANGED i
           ELSE Goto(CTag[Field(1)]) /\ UNCHANGED <<i, header, consts, funcs>>
    BY <1>2 DEF Tag, Complete
  <2>2. CTag[Field(1)] \in {"Int", "Double", "Str", "Nil", "Bool"}
    BY <2>1 DEF CTag
  <2>3. CASE CTag[Field(1)] = "Nil"
    <3>1. i' \in Nat /\ i' <= Len(data)
      BY <2>1, <2>3 DEF IInv, TypeOK, CursorInBounds
    <3>2. <<>> \in Seq(Byte)
      OBVIOUS
    <3>3. AddConst("Nil", <<>>)
      BY <2>1, <2>3
    <3> QED BY <2>1, <3>1, <3>2, <3>3, AddConstInv
  <2>4. CASE CTag[Field(1)] # "Nil"
    <3> DEFINE p == CTag[Field(1)]
    <3>1. p \in {"Int", "Double", "Str", "Bool"}
      BY <2>2, <2>4
    <3>2. p \in Records
      BY <3>1 DEF Records, Layout
    <3>3. Goto(p) /\ UNCHANGED <<i, header, consts, funcs>> /\ phase' = p
      BY <2>1, <2>4 DEF Goto
    <3> HIDE DEF p
    <3>4. Len(consts) < header.const_count /\ funcs = <<>>
      BY <2>1 DEF IInv, Progress
    <3>5. FuncsNamed' /\ Progress'
      BY <3>1, <3>3, <3>4 DEF FuncsNamed, Progress
    <3> QED BY <3>2, <3>3, <3>5, GotoInv DEF IInv, TypeOK
  <2> QED BY <2>3, <2>4
<1> QED BY <1>1, <1>2

LEMMA NumberInv ==
  ASSUME IInv, NEW t \in {"Int", "Double"}, Number(t) PROVE IInv'
<1>1. CASE Fail
  BY <1>1, FailInv
<1>2. CASE ~Fail
  <2>1. /\ phase = t /\ Complete(t) /\ t \in Records /\ Layout[t] = <<8>>
        /\ AddConst(t, fields[1]) /\ UNCHANGED i
    BY <1>2 DEF Number, Complete, Records, Layout
  <2>2. fields[1] \in Seq(Byte)
    BY <2>1, FieldType DEF IInv
  <2>3. i' \in Nat /\ i' <= Len(data)
    BY <2>1 DEF IInv, TypeOK, CursorInBounds
  <2> QED BY <2>1, <2>2, <2>3, AddConstInv
<1> QED BY <1>1, <1>2

LEMMA BoolInv == ASSUME IInv, Bool PROVE IInv'
<1>1. CASE Fail
  BY <1>1, FailInv
<1>2. CASE ~Fail
  <2>1. PICK x \in {0, 1} : AddConst("Bool", <<x>>) /\ UNCHANGED i /\ phase = "Bool"
    BY <1>2 DEF Bool, Complete
  <2>2. x \in Byte
    BY DEF Byte
  <2>3. <<x>> \in Seq(Byte)
    BY <2>2
  <2>4. i' \in Nat /\ i' <= Len(data)
    BY <2>1 DEF IInv, TypeOK, CursorInBounds
  <2> QED BY <2>1, <2>3, <2>4, AddConstInv
<1> QED BY <1>1, <1>2

LEMMA StrInv == ASSUME IInv, Str PROVE IInv'
<1>1. CASE Fail
  BY <1>1, FailInv
<1>2. CASE ~Fail
  <2>1. /\ phase = "Str" /\ Complete("Str") /\ "Str" \in Records /\ Layout["Str"] = <<4>>
        /\ need(Field(1)) /\ AddConst("Str", Peek(Field(1))) /\ i' = i + Field(1)
    BY <1>2 DEF Str, Complete, Records, Layout
  <2>2. Field(1) \in Nat /\ data \in Seq(Byte) /\ i \in Nat
    <3>1. 1 \in 1 .. Len(Layout["Str"]) /\ Layout["Str"][1] = 4
      BY <2>1
    <3>2. Field(1) \in Nat
      BY <2>1, <3>1, FieldType DEF IInv
    <3> QED BY <3>2 DEF IInv, TypeOK
  <2>3. Peek(Field(1)) \in Seq(Byte)
    BY <2>2, PeekType
  <2>4. i' \in Nat /\ i' <= Len(data)
    BY <2>1, <2>2 DEF need
  <2> QED BY <2>1, <2>3, <2>4, AddConstInv
<1> QED BY <1>1, <1>2

LEMMA FuncInv == ASSUME IInv, Func PROVE IInv'
<1>1. CASE Fail
  BY <1>1, FailInv
<1>2. CASE ~Fail
  <2> DEFINE f == [name_const |-> Field(1), num_params |-> Field(2), num_regs |-> Field(3),
                   max_stack |-> Field(4), code |-> Peek(Field(5))]
  <2>1. /\ phase = "func" /\ Complete("func") /\ "func" \in Records
        /\ Layout["func"] = <<4, 1, 1, 2, 4>> /\ NameOk /\ need(Field(5)) /\ AddFunc
    BY <1>2 DEF Func, Complete, Records, Layout
  <2>2. /\ Field(1) \in Nat /\ Field(2) \in Byte /\ Field(3) \in Byte
        /\ Field(4) \in Nat /\ Field(5) \in Nat
    <3> DEFINE p == "func"
    <3>1. /\ 1 \in 1 .. Len(Layout[p]) /\ 2 \in 1 .. Len(Layout[p]) /\ 3 \in 1 .. Len(Layout[p])
          /\ 4 \in 1 .. Len(Layout[p]) /\ 5 \in 1 .. Len(Layout[p])
      BY <2>1
    <3>2. /\ Layout[p][1] = 4 /\ Layout[p][2] = 1 /\ Layout[p][3] = 1
          /\ Layout[p][4] = 2 /\ Layout[p][5] = 4
      BY <2>1
    <3>3. TypeOK /\ Complete(p) /\ p \in Records
      BY <2>1 DEF IInv
    <3> HIDE DEF p
    <3> QED BY <3>1, <3>2, <3>3, FieldType
  <2>3. data \in Seq(Byte) /\ i \in Nat
    BY DEF IInv, TypeOK
  <2>4. Peek(Field(5)) \in Seq(Byte)
    BY <2>2, <2>3, PeekType
  <2>5. f \in Function
    BY <2>2, <2>4 DEF Function
  <2>6. /\ funcs' = Append(funcs, f) /\ i' = i + Field(5) /\ Goto("funcs") /\ phase' = "funcs"
        /\ UNCHANGED <<header, consts, data, bad>>
    BY <2>1 DEF AddFunc, Goto
  <2>7. i' \in Nat /\ i' <= Len(data)
    BY <2>1, <2>2, <2>3, <2>6 DEF need
  <2>8. f.name_const < Len(consts) /\ consts[f.name_const + 1].tag = "Str"
    BY <2>1 DEF NameOk
  <2> HIDE DEF f
  <2>9. funcs \in Seq(Function) /\ header.func_count \in Nat /\ Len(funcs) < header.func_count
    BY <2>1 DEF IInv, TypeOK, Progress
  <2>10. /\ funcs' \in Seq(Function) /\ Len(funcs') = Len(funcs) + 1
         /\ funcs'[Len(funcs) + 1] = f
         /\ \A k \in 1 .. Len(funcs) : funcs'[k] = funcs[k]
    BY <2>5, <2>6, <2>9
  <2>11. FuncsNamed'
    <3> SUFFICES ASSUME NEW k \in 1 .. Len(funcs')
                 PROVE  /\ funcs'[k].name_const < Len(consts)
                        /\ consts[funcs'[k].name_const + 1].tag = "Str"
      BY <2>6 DEF FuncsNamed
    <3>1. CASE k = Len(funcs) + 1
      BY <3>1, <2>8, <2>10
    <3>2. CASE k # Len(funcs) + 1
      <4>1. k \in 1 .. Len(funcs)
        BY <3>2, <2>9, <2>10
      <4> QED BY <4>1, <2>10 DEF IInv, FuncsNamed
    <3> QED BY <3>1, <3>2
  <2>12. Len(funcs') <= header.func_count
    BY <2>9, <2>10
  <2>13. Progress'
    BY <2>1, <2>6, <2>12 DEF IInv, Progress
  <2>14. FieldsType'
    BY <2>6, Fresh
  <2>15. TypeOK' /\ CursorInBounds'
    BY <2>6, <2>7, <2>10, <2>14 DEF IInv, TypeOK, CursorInBounds
  <2> QED BY <2>11, <2>13, <2>15 DEF IInv
<1> QED BY <1>1, <1>2

LEMMA NextInv == IInv /\ [Next]_vars => IInv'
<1> SUFFICES ASSUME IInv, [Next]_vars PROVE IInv'
  OBVIOUS
<1>1. CASE ReadField
  BY <1>1, ReadFieldInv
<1>2. CASE Magic \/ Version \/ Counts
  BY <1>2, MagicInv, VersionInv, CountsInv
<1>3. CASE NextConst \/ NextFunc \/ Finish
  BY <1>3, NextConstInv, NextFuncInv, FinishInv
<1>4. CASE Tag \/ Number("Int") \/ Number("Double") \/ Bool \/ Str
  BY <1>4, TagInv, NumberInv, BoolInv, StrInv
<1>5. CASE Func
  BY <1>5, FuncInv
<1>6. CASE UNCHANGED vars
  BY <1>6 DEF IInv, TypeOK, FieldsType, CursorInBounds, FuncsNamed, Progress, vars
<1> QED BY <1>1, <1>2, <1>3, <1>4, <1>5, <1>6 DEF Next, Done

-----------------------------------------------------------------------------
(***************************************************************************)
(* The theorems.                                                           *)
(***************************************************************************)
\* Whatever bytes load_cbc is called on: the invariant holds at every step.
THEOREM Invariance == Spec => []IInv
<1> QED BY InitInv, NextInv, PTL DEF Spec

\* The reader's cursor never passes the end of the buffer, and every read starts
\* at it: load_cbc reads nothing outside its input.
THEOREM ReadsInBounds == Spec => []CursorInBounds
<1>1. IInv => CursorInBounds
  BY DEF IInv
<1> QED BY <1>1, Invariance, PTL

\* A module that loads has the counts its header declares, string names and an
\* entry function.
THEOREM LoadSound == Spec => []LoadedWellFormed
<1>1. IInv => LoadedWellFormed
  BY DEF IInv, Progress, LoadedWellFormed
<1> QED BY <1>1, Invariance, PTL

\* What the loader delivers is a module in the sense of the verifier and the
\* interpreter, whose proofs assume no more of their input.
THEOREM LoadDelivers == Spec => []LoadedIsModule
<1>1. ASSUME IInv PROVE LoadedIsModule
  <2>1. consts \in Seq(Constant) /\ funcs \in Seq(Function) /\ header.entry_func \in Nat
    BY <1>1 DEF IInv, TypeOK
  <2>2. ASSUME NEW k \in 1 .. Len(consts) PROVE AsBytecode.consts[k] \in Format!Constant
    <3>1. consts[k] \in Constant
      BY <2>1
    <3>2. AsBytecode.consts[k] =
            [tag |-> consts[k].tag, truthy |-> Truthy(consts[k]),
             s |-> IF consts[k].tag = "Str" THEN consts[k].payload ELSE <<>>]
      BY DEF AsBytecode
    <3>3. consts[k].tag \in Format!CTags
      BY <3>1 DEF Constant, Format!CTags
    <3>4. (IF consts[k].tag = "Str" THEN consts[k].payload ELSE <<>>) \in Seq(Byte)
      <4>1. consts[k].payload \in Seq(Byte)
        BY <3>1 DEF Constant
      <4> QED BY <4>1
    <3>5. Truthy(consts[k]) \in BOOLEAN
      BY DEF Truthy
    <3> QED BY <3>2, <3>3, <3>4, <3>5 DEF Format!Constant
  <2>3. ASSUME NEW k \in 1 .. Len(funcs) PROVE AsBytecode.funcs[k] \in Format!Function
    <3>1. funcs[k] \in Function
      BY <2>1
    <3>2. AsBytecode.funcs[k] =
            [name_const |-> funcs[k].name_const, num_params |-> funcs[k].num_params,
             num_regs |-> funcs[k].num_regs, code |-> funcs[k].code]
      BY DEF AsBytecode
    <3>3. Byte = Format!Byte
      BY DEF Byte, Format!Byte
    <3> QED BY <3>1, <3>2, <3>3 DEF Function, Format!Function
  <2>4. /\ AsBytecode.consts \in [1 .. Len(consts) -> Format!Constant]
        /\ AsBytecode.funcs \in [1 .. Len(funcs) -> Format!Function]
    BY <2>2, <2>3 DEF AsBytecode
  <2>5. AsBytecode.consts \in Seq(Format!Constant) /\ AsBytecode.funcs \in Seq(Format!Function)
    <3>1. Len(consts) \in Nat /\ Len(funcs) \in Nat
      BY <2>1
    <3>2. \A n \in Nat : [1 .. n -> Format!Constant] \subseteq Seq(Format!Constant)
      OBVIOUS
    <3>3. \A n \in Nat : [1 .. n -> Format!Function] \subseteq Seq(Format!Function)
      OBVIOUS
    <3> QED BY <2>4, <3>1, <3>2, <3>3
  <2>6. AsBytecode = [consts |-> AsBytecode.consts, funcs |-> AsBytecode.funcs,
                      entry_func |-> header.entry_func]
    BY DEF AsBytecode
  <2> QED BY <2>1, <2>5, <2>6 DEF LoadedIsModule, Format!Module
<1> QED BY <1>1, Invariance, PTL

-----------------------------------------------------------------------------
(***************************************************************************)
(* Sequences of bytes: flattened tables, beginnings, and numbers written   *)
(* and read again.                                                         *)
(***************************************************************************)

\* The recursion of FlattenSeq, up to k.
IsFlat(f, t, k) == f = [x \in 1 .. k |-> IF x = 1 THEN t[x] ELSE f[x - 1] \o t[x]]

LEMMA FlatExists ==
  ASSUME NEW t PROVE \A k \in Nat : \E f : IsFlat(f, t, k)
<1> DEFINE S == {k \in Nat : \E f : IsFlat(f, t, k)}
<1>1. 0 \in S
  <2> DEFINE f == [x \in 1 .. 0 |-> t[x]]
  <2>1. IsFlat(f, t, 0)
    BY DEF IsFlat
  <2> QED BY <2>1
<1>2. ASSUME NEW k \in Nat, k \in S PROVE k + 1 \in S
  <2>1. PICK f : IsFlat(f, t, k)
    BY <1>2
  <2> DEFINE g == [x \in 1 .. k + 1 |-> IF x <= k THEN f[x] ELSE IF x = 1 THEN t[x] ELSE f[x - 1] \o t[x]]
  <2>2. \A x \in 1 .. k + 1 : g[x] = IF x = 1 THEN t[x] ELSE g[x - 1] \o t[x]
    <3> SUFFICES ASSUME NEW x \in 1 .. k + 1
                 PROVE  g[x] = IF x = 1 THEN t[x] ELSE g[x - 1] \o t[x]
      OBVIOUS
    <3>1. x # 1 => x - 1 \in 1 .. k + 1 /\ x - 1 <= k
      OBVIOUS
    <3>2. x <= k => f[x] = IF x = 1 THEN t[x] ELSE f[x - 1] \o t[x]
      <4>1. f = [y \in 1 .. k |-> IF y = 1 THEN t[y] ELSE f[y - 1] \o t[y]]
        BY <2>1 DEF IsFlat
      <4>2. x <= k => x \in 1 .. k
        OBVIOUS
      <4> QED BY <4>1, <4>2
    <3> QED BY <3>1, <3>2
  <2>3. g = [x \in 1 .. k + 1 |-> g[x]]
    OBVIOUS
  <2> HIDE DEF g
  <2>4. IsFlat(g, t, k + 1)
    BY <2>2, <2>3 DEF IsFlat
  <2> QED BY <2>4
<1>3. \A k \in Nat : k \in S
  <2> HIDE DEF S
  <2> QED BY <1>1, <1>2, Induct
<1> QED BY <1>3

LEMMA FlatStep ==
  ASSUME NEW t, NEW k \in Nat, NEW f, IsFlat(f, t, k)
  PROVE  \A x \in 1 .. k : f[x] = IF x = 1 THEN t[x] ELSE f[x - 1] \o t[x]
<1>1. f = [x \in 1 .. k |-> IF x = 1 THEN t[x] ELSE f[x - 1] \o t[x]]
  BY DEF IsFlat
<1> QED BY ONLY <1>1, Zenon

LEMMA FlatIs ==
  ASSUME NEW t, Len(t) \in Nat, Len(t) # 0
  PROVE  \E f : IsFlat(f, t, Len(t)) /\ FlattenSeq(t) = f[Len(t)]
<1> DEFINE g == CHOOSE f : f = [x \in 1 .. Len(t) |-> IF x = 1 THEN t[x] ELSE f[x - 1] \o t[x]]
<1>1. \E f : f = [x \in 1 .. Len(t) |-> IF x = 1 THEN t[x] ELSE f[x - 1] \o t[x]]
  BY FlatExists DEF IsFlat
<1>2. IsFlat(g, t, Len(t))
  BY ONLY <1>1, Zenon DEF IsFlat
<1>3. FlattenSeq(t) = g[Len(t)]
  BY DEF FlattenSeq
<1> QED BY <1>2, <1>3

LEMMA Concat ==
  ASSUME NEW s \in Seq(Nat), NEW t \in Seq(Nat)
  PROVE  /\ s \o t \in Seq(Nat) /\ Len(s \o t) = Len(s) + Len(t)
         /\ \A k \in 1 .. Len(s) : (s \o t)[k] = s[k]
         /\ \A k \in 1 .. Len(t) : (s \o t)[Len(s) + k] = t[k]
OBVIOUS

LEMMA FlatEmpty == FlattenSeq(<<>>) = <<>>
BY DEF FlattenSeq

\* Flattening, one element at a time.
LEMMA FlatAppend ==
  ASSUME NEW t \in Seq(Seq(Nat)), NEW x \in Seq(Nat)
  PROVE  FlattenSeq(Append(t, x)) = FlattenSeq(t) \o x
<1> DEFINE u == Append(t, x)
           m == Len(t)
<1>1. m \in Nat /\ Len(u) = m + 1 /\ u[m + 1] = x /\ \A k \in 1 .. m : t[k] = u[k]
  OBVIOUS
<1> HIDE DEF u, m
<1>2. PICK g : IsFlat(g, u, m + 1) /\ FlattenSeq(u) = g[m + 1]
  BY <1>1, FlatIs
<1>3. g[m + 1] = IF m + 1 = 1 THEN u[m + 1] ELSE g[(m + 1) - 1] \o u[m + 1]
  BY <1>1, <1>2, FlatStep
<1>4. CASE m = 0
  <2>1. t = <<>>
    BY <1>4 DEF m
  <2> QED BY <1>1, <1>2, <1>3, <1>4, <2>1, FlatEmpty DEF u
<1>5. CASE m # 0
  <2>1. PICK f : IsFlat(f, t, m) /\ FlattenSeq(t) = f[m]
    BY <1>1, <1>5, FlatIs DEF m
  <2> DEFINE S == {k \in Nat : k \in 1 .. m => f[k] = g[k]}
  <2>2. ASSUME NEW k \in Nat, k \in S PROVE k + 1 \in S
    <3> SUFFICES ASSUME k + 1 \in 1 .. m PROVE f[k + 1] = g[k + 1]
      OBVIOUS
    <3>1. k + 1 \in 1 .. m + 1 /\ (k + 1) - 1 = k /\ (k + 1 # 1 => k \in 1 .. m) /\ m + 1 \in Nat
      BY <1>1
    <3>2. f[k + 1] = IF k + 1 = 1 THEN t[k + 1] ELSE f[(k + 1) - 1] \o t[k + 1]
      BY <1>1, <2>1, FlatStep
    <3>3. g[k + 1] = IF k + 1 = 1 THEN u[k + 1] ELSE g[(k + 1) - 1] \o u[k + 1]
      BY <1>2, <3>1, FlatStep
    <3>4. t[k + 1] = u[k + 1]
      BY <1>1
    <3>5. k + 1 # 1 => f[k] = g[k]
      BY <2>2, <3>1
    <3> QED BY <3>1, <3>2, <3>3, <3>4, <3>5
  <2>3. \A k \in 1 .. m : f[k] = g[k]
    <3>1. 0 \in S
      BY <1>1
    <3>2. \A k \in Nat : k \in S
      <4> HIDE DEF S
      <4> QED BY <2>2, <3>1, Induct
    <3> QED BY <1>1, <3>2
  <2>4. f[m] = g[m] /\ (m + 1) - 1 = m /\ m + 1 # 1
    BY <1>1, <1>5, <2>3
  <2> QED BY <1>1, <1>2, <1>3, <2>1, <2>4 DEF u
<1> QED BY <1>4, <1>5

\* t, up to its k-th element.
LEMMA Upto ==
  ASSUME NEW S, NEW t \in Seq(S), NEW k \in 0 .. Len(t)
  PROVE  /\ SubSeq(t, 1, k) \in Seq(S) /\ Len(SubSeq(t, 1, k)) = k
         /\ \A x \in 1 .. k : SubSeq(t, 1, k)[x] = t[x]
         /\ k < Len(t) => SubSeq(t, 1, k + 1) = Append(SubSeq(t, 1, k), t[k + 1])
OBVIOUS

\* A function on 1 .. n is a sequence of length n.
LEMMA AsSequence ==
  ASSUME NEW S, NEW n \in Nat, NEW f \in [1 .. n -> S]
  PROVE  f \in Seq(S) /\ Len(f) = n
OBVIOUS

\* Sequences with the same elements in the same places are one.
LEMMA SameElements ==
  ASSUME NEW S, NEW s \in Seq(S), NEW t \in Seq(S), Len(s) = Len(t),
         \A k \in 1 .. Len(s) : s[k] = t[k]
  PROVE  s = t
<1>1. s = [k \in 1 .. Len(s) |-> s[k]]
  OBVIOUS
<1>2. t = [k \in 1 .. Len(t) |-> t[k]]
  OBVIOUS
<1>3. [k \in 1 .. Len(s) |-> s[k]] = [k \in 1 .. Len(t) |-> t[k]]
  BY Zenon
<1> QED BY ONLY <1>1, <1>2, <1>3, Zenon

LEMMA FlatUpto ==
  ASSUME NEW t \in Seq(Seq(Nat)), NEW k \in 0 .. Len(t) - 1
  PROVE  FlattenSeq(SubSeq(t, 1, k + 1)) = FlattenSeq(SubSeq(t, 1, k)) \o t[k + 1]
<1>1. k \in 0 .. Len(t) /\ k < Len(t) /\ t[k + 1] \in Seq(Nat)
  OBVIOUS
<1>2. SubSeq(t, 1, k) \in Seq(Seq(Nat)) /\ SubSeq(t, 1, k + 1) = Append(SubSeq(t, 1, k), t[k + 1])
  BY <1>1, Upto, Zenon
<1> QED BY <1>1, <1>2, FlatAppend

LEMMA FlatType ==
  ASSUME NEW t \in Seq(Seq(Nat))
  PROVE  FlattenSeq(t) \in Seq(Nat)
<1> DEFINE S == {k \in Nat : k <= Len(t) => FlattenSeq(SubSeq(t, 1, k)) \in Seq(Nat)}
<1>1. 0 \in S
  <2>1. SubSeq(t, 1, 0) = <<>>
    OBVIOUS
  <2>2. <<>> \in Seq(Nat)
    OBVIOUS
  <2>3. FlattenSeq(SubSeq(t, 1, 0)) \in Seq(Nat)
    BY ONLY <2>1, <2>2, FlatEmpty, Zenon
  <2> QED BY <2>3
<1>2. ASSUME NEW k \in Nat, k \in S PROVE k + 1 \in S
  <2> SUFFICES ASSUME k + 1 <= Len(t) PROVE FlattenSeq(SubSeq(t, 1, k + 1)) \in Seq(Nat)
    OBVIOUS
  <2>1. k \in 0 .. Len(t) - 1 /\ t[k + 1] \in Seq(Nat)
    OBVIOUS
  <2>2. FlattenSeq(SubSeq(t, 1, k)) \in Seq(Nat)
    BY <1>2
  <2> QED BY <2>1, <2>2, FlatUpto, Concat
<1>3. \A k \in Nat : k \in S
  <2> HIDE DEF S
  <2> QED BY <1>1, <1>2, Induct
<1>4. Len(t) \in Nat /\ SubSeq(t, 1, Len(t)) = t
  OBVIOUS
<1>5. FlattenSeq(SubSeq(t, 1, Len(t))) \in Seq(Nat)
  BY <1>3, <1>4
<1> QED BY <1>4, <1>5

\* a begins b.
Begins(a, b) == Len(a) <= Len(b) /\ \A k \in 1 .. Len(a) : a[k] = b[k]

LEMMA FlatBegins ==
  ASSUME NEW t \in Seq(Seq(Nat)), NEW j \in 0 .. Len(t)
  PROVE  Begins(FlattenSeq(SubSeq(t, 1, j)), FlattenSeq(t))
<1> DEFINE F(k) == FlattenSeq(SubSeq(t, 1, k))
           S == {d \in Nat : j + d <= Len(t) => Begins(F(j), F(j + d))}
<1>1. 0 \in S
  BY DEF Begins
<1>2. ASSUME NEW d \in Nat, d \in S PROVE d + 1 \in S
  <2> SUFFICES ASSUME j + (d + 1) <= Len(t) PROVE Begins(F(j), F(j + (d + 1)))
    OBVIOUS
  <2>e. j + (d + 1) = j + d + 1
    OBVIOUS
  <2>1. j + d \in 0 .. Len(t) - 1 /\ t[j + d + 1] \in Seq(Nat) /\ j + d \in 0 .. Len(t)
    OBVIOUS
  <2>2. F(j + d + 1) = F(j + d) \o t[j + d + 1]
    BY <2>1, FlatUpto, Zenon
  <2>3. F(j) \in Seq(Nat) /\ F(j + d) \in Seq(Nat)
    BY <2>1, Upto, FlatType
  <2>4. Begins(F(j), F(j + d))
    BY <1>2, <2>1
  <2> HIDE DEF F
  <2>5. Begins(F(j), F(j + d) \o t[j + d + 1])
    <3> DEFINE a == F(j)
               b == F(j + d)
               c == t[j + d + 1]
    <3>1. a \in Seq(Nat) /\ b \in Seq(Nat) /\ c \in Seq(Nat) /\ Begins(a, b)
      BY <2>1, <2>3, <2>4
    <3> HIDE DEF a, b, c
    <3>2. Begins(a, b \o c)
      BY <3>1, Concat DEF Begins
    <3> QED BY <3>2 DEF a, b, c
  <2> QED BY <2>e, <2>2, <2>5
<1>3. \A d \in Nat : d \in S
  <2> HIDE DEF S
  <2> QED BY <1>1, <1>2, Induct
<1>4. Len(t) - j \in Nat /\ j + (Len(t) - j) = Len(t) /\ SubSeq(t, 1, Len(t)) = t
  OBVIOUS
<1>5. j + (Len(t) - j) <= Len(t)
  OBVIOUS
<1>6. Begins(F(j), F(j + (Len(t) - j)))
  <2> DEFINE d == Len(t) - j
  <2>1. d \in Nat /\ j + d <= Len(t)
    BY <1>4
  <2> HIDE DEF d
  <2>2. Begins(F(j), F(j + d))
    BY <1>3, <2>1
  <2> QED BY <2>2 DEF d
<1> QED BY <1>4, <1>6

\* The next element is where the ones before it end.
LEMMA FlatHolds ==
  ASSUME NEW t \in Seq(Seq(Nat)), NEW j \in 0 .. Len(t) - 1
  PROVE  Begins(FlattenSeq(SubSeq(t, 1, j)) \o t[j + 1], FlattenSeq(t))
<1>1. j + 1 \in 0 .. Len(t)
  OBVIOUS
<1> QED BY <1>1, FlatUpto, FlatBegins

LEMMA HoldsOnly ==
  ASSUME NEW S, NEW T, NEW s \in Seq(S), \A k \in 1 .. Len(s) : s[k] \in T
  PROVE  s \in Seq(T)
OBVIOUS

LEMMA Put16 == ASSUME NEW n \in Nat PROVE put16(n) \in Seq(Nat) /\ Len(put16(n)) = 2
<1>1. n % 256 \in Nat /\ n \div 256 \in Nat
  OBVIOUS
<1> QED BY <1>1 DEF put16

Low(n) == n % 65536
High(n) == n \div 65536

LEMMA Put32 ==
  ASSUME NEW n \in Nat
  PROVE  /\ put32(n) \in Seq(Nat) /\ Len(put32(n)) = 4
         /\ put32(n)[1] = Low(n) % 256 /\ put32(n)[2] = Low(n) \div 256
         /\ put32(n)[3] = High(n) % 256 /\ put32(n)[4] = High(n) \div 256
<1>1. Low(n) \in Nat /\ High(n) \in Nat
  BY DEF Low, High
<1> DEFINE lo == put16(Low(n))
           hi == put16(High(n))
<1>2. lo \in Seq(Nat) /\ Len(lo) = 2 /\ hi \in Seq(Nat) /\ Len(hi) = 2
  BY <1>1, Put16
<1>3. /\ lo[1] = Low(n) % 256 /\ lo[2] = Low(n) \div 256
      /\ hi[1] = High(n) % 256 /\ hi[2] = High(n) \div 256
  BY DEF put16
<1>4. put32(n) = lo \o hi
  BY DEF put32, Low, High
<1> HIDE DEF lo, hi
<1>5. /\ lo \o hi \in Seq(Nat) /\ Len(lo \o hi) = 4
      /\ (lo \o hi)[1] = lo[1] /\ (lo \o hi)[2] = lo[2]
      /\ (lo \o hi)[3] = hi[1] /\ (lo \o hi)[4] = hi[2]
  <2>1. 1 \in 1 .. Len(lo) /\ 2 \in 1 .. Len(lo) /\ 1 \in 1 .. Len(hi) /\ 2 \in 1 .. Len(hi)
    BY <1>2
  <2>2. /\ lo \o hi \in Seq(Nat) /\ Len(lo \o hi) = Len(lo) + Len(hi)
        /\ \A k \in 1 .. Len(lo) : (lo \o hi)[k] = lo[k]
        /\ \A k \in 1 .. Len(hi) : (lo \o hi)[Len(lo) + k] = hi[k]
    BY <1>2, Concat
  <2>3. (lo \o hi)[Len(lo) + 1] = hi[1] /\ (lo \o hi)[Len(lo) + 2] = hi[2]
    BY <2>1, <2>2
  <2>4. Len(lo) + 1 = 3 /\ Len(lo) + 2 = 4 /\ Len(lo) + Len(hi) = 4
    BY <1>2
  <2> QED BY <2>1, <2>2, <2>3, <2>4
<1> QED BY <1>3, <1>4, <1>5

LEMMA Bytes2 ==
  ASSUME NEW x \in Byte, NEW y \in Byte
  PROVE  LET n == x + 256 * y IN n \in Nat /\ n < 65536 /\ n % 256 = x /\ n \div 256 = y
BY DEF Byte

\* Reading a number and writing it again gives the bytes back.
LEMMA Rewrite16 ==
  ASSUME NEW b \in Seq(Byte), Len(b) = 2
  PROVE  put16(Num(b)) = b
<1>1. b[1] \in Byte /\ b[2] \in Byte /\ b = <<b[1], b[2]>>
  OBVIOUS
<1>2. Num(b) = b[1] + 256 * b[2]
  BY DEF Num
<1> QED BY <1>1, <1>2, Bytes2 DEF put16

LEMMA Rewrite32 ==
  ASSUME NEW b \in Seq(Byte), Len(b) = 4
  PROVE  put32(Num(b)) = b
<1>1. b[1] \in Byte /\ b[2] \in Byte /\ b[3] \in Byte /\ b[4] \in Byte
  <2>1. \A k \in 1 .. Len(b) : b[k] \in Byte
    BY Elements
  <2>2. 1 \in 1 .. Len(b) /\ 2 \in 1 .. Len(b) /\ 3 \in 1 .. Len(b) /\ 4 \in 1 .. Len(b)
    OBVIOUS
  <2> QED BY <2>1, <2>2
<1> DEFINE lo == b[1] + 256 * b[2]
           hi == b[3] + 256 * b[4]
<1>2. /\ lo \in Nat /\ lo < 65536 /\ lo % 256 = b[1] /\ lo \div 256 = b[2]
      /\ hi \in Nat /\ hi < 65536 /\ hi % 256 = b[3] /\ hi \div 256 = b[4]
  BY <1>1, Bytes2
<1>3. Num(b) = lo + 65536 * hi
  <2>1. Num(b) = b[1] + 256 * b[2] + 65536 * b[3] + 16777216 * b[4]
    BY DEF Num
  <2>2. ASSUME NEW x \in Byte, NEW y \in Byte, NEW z \in Byte, NEW w \in Byte
        PROVE  x + 256 * y + 65536 * z + 16777216 * w = (x + 256 * y) + 65536 * (z + 256 * w)
    BY DEF Byte
  <2> QED BY <1>1, <2>1, <2>2
<1> HIDE DEF lo, hi
<1>4. Num(b) \in Nat /\ Low(Num(b)) = lo /\ High(Num(b)) = hi
  BY <1>2, <1>3 DEF Low, High
<1>5. /\ put32(Num(b)) \in Seq(Nat) /\ Len(put32(Num(b))) = 4
      /\ put32(Num(b))[1] = b[1] /\ put32(Num(b))[2] = b[2]
      /\ put32(Num(b))[3] = b[3] /\ put32(Num(b))[4] = b[4]
  <2> DEFINE v == Num(b)
  <2> HIDE DEF v
  <2>1. v \in Nat /\ Low(v) = lo /\ High(v) = hi
    BY <1>4 DEF v
  <2>2. /\ put32(v) \in Seq(Nat) /\ Len(put32(v)) = 4
        /\ put32(v)[1] = Low(v) % 256 /\ put32(v)[2] = Low(v) \div 256
        /\ put32(v)[3] = High(v) % 256 /\ put32(v)[4] = High(v) \div 256
    BY ONLY <2>1, Put32, Zenon
  <2>3. /\ put32(v)[1] = b[1] /\ put32(v)[2] = b[2] /\ put32(v)[3] = b[3] /\ put32(v)[4] = b[4]
    BY ONLY <1>2, <2>1, <2>2
  <2> QED BY <2>2, <2>3 DEF v
<1> DEFINE p == put32(Num(b))
<1> HIDE DEF p
<1>6. p \in Seq(Nat) /\ Len(p) = 4 /\ p[1] = b[1] /\ p[2] = b[2] /\ p[3] = b[3] /\ p[4] = b[4]
  BY <1>5 DEF p
<1>7. \A k \in 1 .. 4 : p[k] = b[k]
  BY <1>6
<1>8. p = b
  BY <1>6, <1>7
<1> QED BY <1>8 DEF p

\* Writing a number of the field's width and reading it gives the number back.
LEMMA Reread16 ==
  ASSUME NEW n \in Nat, n < 65536
  PROVE  put16(n) \in Seq(Byte) /\ Num(put16(n)) = n
<1>1. n % 256 \in Byte /\ n \div 256 \in Byte /\ n = (n % 256) + 256 * (n \div 256)
  BY DEF Byte
<1>2. put16(n) = <<n % 256, n \div 256>>
  BY DEF put16
<1> QED BY <1>1, <1>2 DEF Num

LEMMA Reread32 ==
  ASSUME NEW n \in Nat, n < 65536 * 65536
  PROVE  put32(n) \in Seq(Byte) /\ Num(put32(n)) = n
<1> DEFINE lo == Low(n)
           hi == High(n)
<1>1. lo \in Nat /\ hi \in Nat /\ lo < 65536 /\ hi < 65536 /\ n = lo + 65536 * hi
  BY DEF Low, High
<1> HIDE DEF lo, hi
<1>2. /\ lo % 256 \in Byte /\ lo \div 256 \in Byte /\ lo = (lo % 256) + 256 * (lo \div 256)
      /\ hi % 256 \in Byte /\ hi \div 256 \in Byte /\ hi = (hi % 256) + 256 * (hi \div 256)
  BY <1>1 DEF Byte
<1> DEFINE p == put32(n)
<1>3. /\ p \in Seq(Nat) /\ Len(p) = 4
      /\ p[1] = lo % 256 /\ p[2] = lo \div 256 /\ p[3] = hi % 256 /\ p[4] = hi \div 256
  <2>1. /\ put32(n) \in Seq(Nat) /\ Len(put32(n)) = 4
        /\ put32(n)[1] = Low(n) % 256 /\ put32(n)[2] = Low(n) \div 256
        /\ put32(n)[3] = High(n) % 256 /\ put32(n)[4] = High(n) \div 256
    BY ONLY Put32, n \in Nat, Zenon
  <2> QED BY ONLY <2>1, Zenon DEF lo, hi
<1> HIDE DEF p
<1>4. \A k \in 1 .. 4 : p[k] \in Byte
  BY <1>2, <1>3
<1>5. p \in Seq(Byte)
  BY <1>3, <1>4, HoldsOnly
<1>6. Num(p) = p[1] + 256 * p[2] + 65536 * p[3] + 16777216 * p[4]
  BY <1>3 DEF Num
<1>7. Num(p) = n
  BY <1>1, <1>2, <1>3, <1>6 DEF Byte
<1> QED BY <1>5, <1>7 DEF p


-----------------------------------------------------------------------------
(***************************************************************************)
(* What a serializer writes, and where each piece of it lies.              *)
(***************************************************************************)

\* The bytes s lie in d behind the first `at`.
Lies(d, at, s) == \A k \in 1 .. Len(s) : d[at + k] = s[k]

LEMMA LieTogether ==
  ASSUME NEW d, NEW at \in Nat, NEW s \in Seq(Nat), NEW t \in Seq(Nat)
  PROVE  Lies(d, at, s \o t) <=> Lies(d, at, s) /\ Lies(d, at + Len(s), t)
<1> DEFINE u == s \o t
<1>1. /\ u \in Seq(Nat) /\ Len(u) = Len(s) + Len(t) /\ Len(s) \in Nat /\ Len(t) \in Nat
      /\ \A k \in 1 .. Len(s) : u[k] = s[k]
      /\ \A k \in 1 .. Len(t) : u[Len(s) + k] = t[k]
  BY Concat
<1> HIDE DEF u
<1>2. ASSUME Lies(d, at, u) PROVE Lies(d, at, s) /\ Lies(d, at + Len(s), t)
  <2>1. ASSUME NEW k \in 1 .. Len(s) PROVE d[at + k] = s[k]
    <3>1. k \in 1 .. Len(u)
      BY <1>1
    <3> QED BY <1>1, <1>2, <3>1 DEF Lies
  <2>2. ASSUME NEW k \in 1 .. Len(t) PROVE d[at + Len(s) + k] = t[k]
    <3>1. Len(s) + k \in 1 .. Len(u) /\ at + (Len(s) + k) = at + Len(s) + k
      BY <1>1
    <3>2. d[at + (Len(s) + k)] = u[Len(s) + k]
      BY <1>2, <3>1 DEF Lies
    <3> QED BY <1>1, <3>1, <3>2
  <2> QED BY <2>1, <2>2 DEF Lies
<1>3. ASSUME Lies(d, at, s), Lies(d, at + Len(s), t), NEW k \in 1 .. Len(u) PROVE d[at + k] = u[k]
  <2>1. CASE k \in 1 .. Len(s)
    BY <1>1, <1>3, <2>1 DEF Lies
  <2>2. CASE k \notin 1 .. Len(s)
    <3>1. PICK j \in 1 .. Len(t) : k = Len(s) + j
      <4>1. k - Len(s) \in 1 .. Len(t) /\ k = Len(s) + (k - Len(s))
        BY <1>1, <2>2
      <4> QED BY <4>1
    <3>2. at + k = at + Len(s) + j
      BY <1>1, <3>1
    <3> QED BY <1>1, <1>3, <3>1, <3>2 DEF Lies
  <2> QED BY <2>1, <2>2
<1>4. Lies(d, at, s) /\ Lies(d, at + Len(s), t) => Lies(d, at, u)
  BY <1>3 DEF Lies
<1> QED BY <1>2, <1>4 DEF u

\* Where the fields of a record begin, and where it ends.
StartAt ==
  [magic |-> <<0, 1, 2, 3, 4>>, version |-> <<0, 2, 4>>, counts |-> <<0, 4, 8, 12>>,
   tag |-> <<0, 1>>, Int |-> <<0, 8>>, Double |-> <<0, 8>>, Str |-> <<0, 4>>, Bool |-> <<0, 1>>,
   func |-> <<0, 4, 5, 6, 8, 12>>]

LEMMA Starts ==
  ASSUME NEW p \in Records
  PROVE  /\ StartAt[p][1] = 0
         /\ \A f \in 1 .. Len(Layout[p]) :
              StartAt[p][f] \in Nat /\ StartAt[p][f + 1] = StartAt[p][f] + Layout[p][f]
<1>1. p \in {"magic", "version", "counts", "tag", "Int", "Double", "Str", "Bool", "func"}
  BY DEF Records, Layout
<1>2. CASE p = "magic"
  BY <1>2 DEF Layout, StartAt
<1>3. CASE p = "version"
  BY <1>3 DEF Layout, StartAt
<1>4. CASE p = "counts"
  BY <1>4 DEF Layout, StartAt
<1>5. CASE p \in {"tag", "Int", "Double", "Str", "Bool"}
  BY <1>5 DEF Layout, StartAt
<1>6. CASE p = "func"
  BY <1>6 DEF Layout, StartAt
<1> QED BY <1>1, <1>2, <1>3, <1>4, <1>5, <1>6

\* A tag's byte is the one that CTag reads as that tag.
LEMMA Tags == \A b \in 0 .. 4 : TagByte(CTag[b]) = b
<1>1. DOMAIN CTag = 0 .. 4 /\ CTag[0] = "Int" /\ CTag[1] = "Double" /\ CTag[2] = "Str"
      /\ CTag[3] = "Nil" /\ CTag[4] = "Bool"
  BY DEF CTag
<1>2. \A b, c \in 0 .. 4 : CTag[b] = CTag[c] => b = c
  <2>1. \A b \in 0 .. 4 : b = 0 \/ b = 1 \/ b = 2 \/ b = 3 \/ b = 4
    OBVIOUS
  <2> QED BY <1>1, <2>1
<1> SUFFICES ASSUME NEW b \in 0 .. 4 PROVE TagByte(CTag[b]) = b
  OBVIOUS
<1>3. \A c \in DOMAIN CTag : CTag[c] = CTag[b] <=> c = b
  BY <1>1, <1>2
<1> HIDE DEF CTag
<1>4. b \in DOMAIN CTag
  BY <1>1
<1> QED BY ONLY <1>3, <1>4, Zenon DEF TagByte

LEMMA TagBytes ==
  /\ TagByte("Int") = 0 /\ TagByte("Double") = 1 /\ TagByte("Str") = 2
  /\ TagByte("Nil") = 3 /\ TagByte("Bool") = 4
<1>1. CTag[0] = "Int" /\ CTag[1] = "Double" /\ CTag[2] = "Str" /\ CTag[3] = "Nil" /\ CTag[4] = "Bool"
  BY DEF CTag
<1>2. 0 \in 0 .. 4 /\ 1 \in 0 .. 4 /\ 2 \in 0 .. 4 /\ 3 \in 0 .. 4 /\ 4 \in 0 .. 4
  OBVIOUS
<1> QED BY <1>1, <1>2, Tags

LEMMA NatBytes == ASSUME NEW s \in Seq(Byte) PROVE s \in Seq(Nat)
<1>1. \A k \in 1 .. Len(s) : s[k] \in Byte
  OBVIOUS
<1>2. \A b \in Byte : b \in Nat
  BY DEF Byte
<1>3. \A k \in 1 .. Len(s) : s[k] \in Nat
  BY <1>1, <1>2
<1> QED BY <1>3, HoldsOnly

\* A constant's bytes.
LEMMA ConstLies ==
  ASSUME NEW c \in Constant
  PROVE  /\ ConstBytes(c) \in Seq(Nat)
         /\ c.tag # "Str" => Len(ConstBytes(c)) = 1 + Len(c.payload)
         /\ c.tag = "Str" => Len(ConstBytes(c)) = 5 + Len(c.payload)
         /\ \A d : \A at \in Nat :
              /\ c.tag # "Str" => (Lies(d, at, ConstBytes(c)) <=>
                   d[at + 1] = TagByte(c.tag) /\ Lies(d, at + 1, c.payload))
              /\ c.tag = "Str" => (Lies(d, at, ConstBytes(c)) <=>
                   /\ d[at + 1] = TagByte(c.tag) /\ Lies(d, at + 1, put32(Len(c.payload)))
                   /\ Lies(d, at + 5, c.payload))
<1> DEFINE t == <<TagByte(c.tag)>>
           l == IF c.tag = "Str" THEN put32(Len(c.payload)) ELSE <<>>
           p == c.payload
<1>1. t \in Seq(Nat) /\ Len(t) = 1 /\ t[1] = TagByte(c.tag)
  <2>1. TagByte(c.tag) \in Nat
    BY TagBytes DEF Constant
  <2> QED BY <2>1
<1>2. p \in Seq(Nat)
  <2>1. p \in Seq(Byte)
    BY DEF Constant
  <2> HIDE DEF p
  <2> QED BY <2>1, NatBytes
<1>3. l \in Seq(Nat) /\ Len(l) = (IF c.tag = "Str" THEN 4 ELSE 0)
  <2>1. Len(p) \in Nat
    BY <1>2
  <2>2. put32(Len(p)) \in Seq(Nat) /\ Len(put32(Len(p))) = 4
    BY <2>1, Put32
  <2>3. <<>> \in Seq(Nat) /\ Len(<<>>) = 0
    OBVIOUS
  <2>4. CASE c.tag = "Str"
    BY <2>2, <2>4
  <2>5. CASE c.tag # "Str"
    BY <2>3, <2>5
  <2> QED BY <2>4, <2>5
<1>4. ConstBytes(c) = (t \o l) \o p
  BY DEF ConstBytes
<1>5. /\ c.tag = "Str" => l = put32(Len(p))
      /\ c.tag # "Str" => l = <<>>
  OBVIOUS
<1>p. p = c.payload
  OBVIOUS
<1> HIDE DEF t, l, p
<1>6. t \o l \in Seq(Nat) /\ Len(t \o l) = 1 + Len(l)
  <2>1. t \o l \in Seq(Nat) /\ Len(t \o l) = Len(t) + Len(l)
    BY <1>1, <1>3, Concat
  <2> QED BY <1>1, <2>1
<1>7. (t \o l) \o p \in Seq(Nat) /\ Len((t \o l) \o p) = 1 + Len(l) + Len(p)
  BY <1>2, <1>3, <1>6, Concat
<1>8. ASSUME NEW d, NEW at \in Nat
      PROVE  Lies(d, at, (t \o l) \o p) <=>
               d[at + 1] = TagByte(c.tag) /\ Lies(d, at + 1, l) /\ Lies(d, at + (1 + Len(l)), p)
  <2>1. Lies(d, at, t) <=> d[at + 1] = TagByte(c.tag)
    BY <1>1 DEF Lies
  <2>2. Lies(d, at, t \o l) <=> Lies(d, at, t) /\ Lies(d, at + 1, l)
    BY <1>1, <1>3, LieTogether
  <2>3. Lies(d, at, (t \o l) \o p) <=> Lies(d, at, t \o l) /\ Lies(d, at + (1 + Len(l)), p)
    BY <1>2, <1>6, LieTogether
  <2> QED BY <2>1, <2>2, <2>3
<1>9. ASSUME NEW d, NEW at \in Nat, c.tag # "Str"
      PROVE  Lies(d, at, ConstBytes(c)) <=> d[at + 1] = TagByte(c.tag) /\ Lies(d, at + 1, p)
  <2>1. Lies(d, at + 1, l) /\ at + (1 + Len(l)) = at + 1
    BY <1>3, <1>5, <1>9 DEF Lies
  <2> QED BY <1>4, <1>8, <2>1
<1>10. ASSUME NEW d, NEW at \in Nat, c.tag = "Str"
       PROVE  Lies(d, at, ConstBytes(c)) <=>
                d[at + 1] = TagByte(c.tag) /\ Lies(d, at + 1, put32(Len(p))) /\ Lies(d, at + 5, p)
  <2>1. l = put32(Len(p)) /\ at + (1 + Len(l)) = at + 5
    BY <1>3, <1>5, <1>10
  <2> QED BY <1>4, <1>8, <2>1
<1>11. /\ c.tag # "Str" => 1 + Len(l) + Len(p) = 1 + Len(p)
       /\ c.tag = "Str" => 1 + Len(l) + Len(p) = 5 + Len(p)
  <2>1. Len(p) \in Nat
    BY <1>2
  <2> QED BY <1>3, <2>1
<1> QED BY <1>4, <1>7, <1>9, <1>10, <1>11, <1>p

\* One more piece.
Joined(s, m, t) ==
  /\ s \o t \in Seq(Nat) /\ Len(s \o t) = m + Len(t)
  /\ \A d : \A at \in Nat : Lies(d, at, s \o t) <=> Lies(d, at, s) /\ Lies(d, at + m, t)

LEMMA LiesNext ==
  ASSUME NEW s \in Seq(Nat), NEW t \in Seq(Nat)
  PROVE  Joined(s, Len(s), t)
<1>1. s \o t \in Seq(Nat) /\ Len(s \o t) = Len(s) + Len(t)
  BY Concat
<1>2. ASSUME NEW d, NEW at \in Nat
      PROVE  Lies(d, at, s \o t) <=> Lies(d, at, s) /\ Lies(d, at + Len(s), t)
  BY LieTogether
<1> QED BY <1>1, <1>2 DEF Joined

\* A function's bytes.
LEMMA FuncLies ==
  ASSUME NEW f \in Function
  PROVE  /\ FuncBytes(f) \in Seq(Nat) /\ Len(FuncBytes(f)) = 12 + Len(f.code)
         /\ \A d : \A at \in Nat : Lies(d, at, FuncBytes(f)) <=>
              /\ Lies(d, at, put32(f.name_const))
              /\ d[at + 5] = f.num_params /\ d[at + 6] = f.num_regs
              /\ Lies(d, at + 6, put16(f.max_stack)) /\ Lies(d, at + 8, put32(Len(f.code)))
              /\ Lies(d, at + 12, f.code)
<1> DEFINE a == put32(f.name_const)
           b == <<f.num_params, f.num_regs>>
           c == put16(f.max_stack)
           l == put32(Len(f.code))
           p == f.code
<1>1. /\ f.name_const \in Nat /\ f.num_params \in Byte /\ f.num_regs \in Byte
      /\ f.max_stack \in Nat /\ f.code \in Seq(Byte)
  BY DEF Function
<1>2. a \in Seq(Nat) /\ Len(a) = 4
  BY <1>1, Put32
<1>3. b \in Seq(Nat) /\ Len(b) = 2 /\ b[1] = f.num_params /\ b[2] = f.num_regs
  <2>1. f.num_params \in Nat /\ f.num_regs \in Nat
    BY <1>1, Byte1
  <2> QED BY <2>1
<1>4. c \in Seq(Nat) /\ Len(c) = 2
  BY <1>1, Put16
<1>5. p \in Seq(Nat)
  BY <1>1, NatBytes
<1>6. l \in Seq(Nat) /\ Len(l) = 4
  <2>1. Len(f.code) \in Nat
    BY <1>1
  <2> QED BY <2>1, Put32
<1>7. FuncBytes(f) = (((a \o b) \o c) \o l) \o p
  BY DEF FuncBytes
<1>8. \A d : \A at \in Nat :
        Lies(d, at + 4, b) <=> d[at + 5] = f.num_params /\ d[at + 6] = f.num_regs
  <2> HIDE DEF b
  <2> SUFFICES ASSUME NEW d, NEW at \in Nat
               PROVE  Lies(d, at + 4, b) <=> d[at + 5] = f.num_params /\ d[at + 6] = f.num_regs
    OBVIOUS
  <2>1. \A k \in 1 .. 2 : k = 1 \/ k = 2
    OBVIOUS
  <2>2. at + 4 + 1 = at + 5 /\ at + 4 + 2 = at + 6
    OBVIOUS
  <2> QED BY <1>3, <2>1, <2>2 DEF Lies
<1> HIDE DEF a, b, c, l, p
<1>9. /\ a \o b \in Seq(Nat) /\ Len(a \o b) = 4 + Len(b)
      /\ \A d : \A at \in Nat : Lies(d, at, a \o b) <=> Lies(d, at, a) /\ Lies(d, at + 4, b)
  <2>1. Joined(a, Len(a), b)
    BY <1>2, <1>3, LiesNext
  <2>2. Joined(a, 4, b)
    BY ONLY <2>1, <1>2, <1>3, Zenon
  <2> QED BY ONLY <2>2, Zenon DEF Joined
<1> DEFINE u == a \o b
<1>10. u \in Seq(Nat) /\ Len(u) = 6
  BY <1>3, <1>9
<1> HIDE DEF u
<1>11. /\ u \o c \in Seq(Nat) /\ Len(u \o c) = 6 + Len(c)
       /\ \A d : \A at \in Nat : Lies(d, at, u \o c) <=> Lies(d, at, u) /\ Lies(d, at + 6, c)
  <2>1. Joined(u, Len(u), c)
    BY <1>10, <1>4, LiesNext
  <2>2. Joined(u, 6, c)
    BY ONLY <2>1, <1>10, <1>4, Zenon
  <2> QED BY ONLY <2>2, Zenon DEF Joined
<1> DEFINE v == u \o c
<1>12. v \in Seq(Nat) /\ Len(v) = 8
  BY <1>4, <1>11
<1> HIDE DEF v
<1>13. /\ v \o l \in Seq(Nat) /\ Len(v \o l) = 8 + Len(l)
       /\ \A d : \A at \in Nat : Lies(d, at, v \o l) <=> Lies(d, at, v) /\ Lies(d, at + 8, l)
  <2>1. Joined(v, Len(v), l)
    BY <1>12, <1>6, LiesNext
  <2>2. Joined(v, 8, l)
    BY ONLY <2>1, <1>12, <1>6, Zenon
  <2> QED BY ONLY <2>2, Zenon DEF Joined
<1> DEFINE w == v \o l
<1>14. w \in Seq(Nat) /\ Len(w) = 12
  BY <1>6, <1>13
<1> HIDE DEF w
<1>15. /\ w \o p \in Seq(Nat) /\ Len(w \o p) = 12 + Len(p)
       /\ \A d : \A at \in Nat : Lies(d, at, w \o p) <=> Lies(d, at, w) /\ Lies(d, at + 12, p)
  <2>1. Joined(w, Len(w), p)
    BY <1>14, <1>5, LiesNext
  <2>2. Joined(w, 12, p)
    BY ONLY <2>1, <1>14, <1>5, Zenon
  <2> QED BY ONLY <2>2, Zenon DEF Joined
<1>16. FuncBytes(f) = w \o p
  BY <1>7 DEF u, v, w
<1>17. ASSUME NEW d, NEW at \in Nat
       PROVE  Lies(d, at, w \o p) <=>
                /\ Lies(d, at, a) /\ Lies(d, at + 4, b) /\ Lies(d, at + 6, c)
                /\ Lies(d, at + 8, l) /\ Lies(d, at + 12, p)
  BY <1>9, <1>11, <1>13, <1>15 DEF u, v, w
<1> QED BY <1>8, <1>15, <1>16, <1>17 DEF a, c, l, p

Magics == <<67, 66, 67, 1>>
HeaderOf(const_count, func_count, entry_func) ==
  <<67, 66, 67, 1>> \o put16(1) \o put16(0)
    \o put32(const_count) \o put32(func_count) \o put32(entry_func)
Preamble == <<67, 66, 67, 1>> \o put16(1) \o put16(0)

\* The header's bytes.
LEMMA HeadLies ==
  ASSUME NEW x \in Nat, NEW y \in Nat, NEW z \in Nat
  PROVE  /\ Magics \in Seq(Nat) /\ Len(Magics) = 4
         /\ Preamble \in Seq(Nat) /\ Len(Preamble) = 8
         /\ HeaderOf(x, y, z) \in Seq(Nat) /\ Len(HeaderOf(x, y, z)) = 20
         /\ \A d : \A at \in Nat :
              /\ Lies(d, at, Preamble) <=>
                   Lies(d, at, Magics) /\ Lies(d, at + 4, put16(1)) /\ Lies(d, at + 6, put16(0))
              /\ Lies(d, at, HeaderOf(x, y, z)) <=>
                   /\ Lies(d, at, Preamble) /\ Lies(d, at + 8, put32(x))
                   /\ Lies(d, at + 12, put32(y)) /\ Lies(d, at + 16, put32(z))
<1> DEFINE a == Magics
           b == put16(1)
           c == put16(0)
           e == put32(x)
           f == put32(y)
           g == put32(z)
<1>1. a \in Seq(Nat) /\ Len(a) = 4
  BY DEF Magics
<1>2. b \in Seq(Nat) /\ Len(b) = 2 /\ c \in Seq(Nat) /\ Len(c) = 2
  BY Put16
<1>3. /\ e \in Seq(Nat) /\ Len(e) = 4 /\ f \in Seq(Nat) /\ Len(f) = 4
      /\ g \in Seq(Nat) /\ Len(g) = 4
  BY Put32
<1>4. HeaderOf(x, y, z) = ((Preamble \o e) \o f) \o g /\ Preamble = (a \o b) \o c
  BY DEF HeaderOf, Preamble, Magics
<1> HIDE DEF a, b, c, e, f, g
<1> DEFINE u == a \o b
<1>5. /\ u \in Seq(Nat) /\ Len(u) = 6
      /\ \A d : \A at \in Nat : Lies(d, at, u) <=> Lies(d, at, a) /\ Lies(d, at + 4, b)
  <2>1. Len(u) = 4 + Len(b) /\ u \in Seq(Nat)
        /\ \A d : \A at \in Nat : Lies(d, at, u) <=> Lies(d, at, a) /\ Lies(d, at + 4, b)
    <3>1. Joined(a, Len(a), b)
      BY <1>1, <1>2, LiesNext
    <3>2. Joined(a, 4, b)
      BY ONLY <3>1, <1>1, <1>2, Zenon
    <3> QED BY ONLY <3>2, Zenon DEF Joined, u
  <2> QED BY <1>2, <2>1
<1> HIDE DEF u
<1> DEFINE v == u \o c
<1>6. /\ v \in Seq(Nat) /\ Len(v) = 8
      /\ \A d : \A at \in Nat : Lies(d, at, v) <=> Lies(d, at, u) /\ Lies(d, at + 6, c)
  <2>1. Len(v) = 6 + Len(c) /\ v \in Seq(Nat)
        /\ \A d : \A at \in Nat : Lies(d, at, v) <=> Lies(d, at, u) /\ Lies(d, at + 6, c)
    <3>1. Joined(u, Len(u), c)
      BY <1>5, <1>2, LiesNext
    <3>2. Joined(u, 6, c)
      BY ONLY <3>1, <1>5, <1>2, Zenon
    <3> QED BY ONLY <3>2, Zenon DEF Joined, v
  <2> QED BY <1>2, <2>1
<1>7. v = Preamble
  BY <1>4 DEF u, v
<1> HIDE DEF v
<1> DEFINE w == v \o e
<1>8. /\ w \in Seq(Nat) /\ Len(w) = 12
      /\ \A d : \A at \in Nat : Lies(d, at, w) <=> Lies(d, at, v) /\ Lies(d, at + 8, e)
  <2>1. Len(w) = 8 + Len(e) /\ w \in Seq(Nat)
        /\ \A d : \A at \in Nat : Lies(d, at, w) <=> Lies(d, at, v) /\ Lies(d, at + 8, e)
    <3>1. Joined(v, Len(v), e)
      BY <1>6, <1>3, LiesNext
    <3>2. Joined(v, 8, e)
      BY ONLY <3>1, <1>6, <1>3, Zenon
    <3> QED BY ONLY <3>2, Zenon DEF Joined, w
  <2> QED BY <1>3, <2>1
<1>h. HeaderOf(x, y, z) = (w \o f) \o g
  BY <1>4, <1>7 DEF w
<1> HIDE DEF w
<1> DEFINE q == w \o f
<1>9. /\ q \in Seq(Nat) /\ Len(q) = 16
      /\ \A d : \A at \in Nat : Lies(d, at, q) <=> Lies(d, at, w) /\ Lies(d, at + 12, f)
  <2>1. Len(q) = 12 + Len(f) /\ q \in Seq(Nat)
        /\ \A d : \A at \in Nat : Lies(d, at, q) <=> Lies(d, at, w) /\ Lies(d, at + 12, f)
    <3>1. Joined(w, Len(w), f)
      BY <1>8, <1>3, LiesNext
    <3>2. Joined(w, 12, f)
      BY ONLY <3>1, <1>8, <1>3, Zenon
    <3> QED BY ONLY <3>2, Zenon DEF Joined, q
  <2> QED BY <1>3, <2>1
<1>k. HeaderOf(x, y, z) = q \o g
  BY <1>h
<1> HIDE DEF q
<1>10. /\ q \o g \in Seq(Nat) /\ Len(q \o g) = 20
       /\ \A d : \A at \in Nat : Lies(d, at, q \o g) <=> Lies(d, at, q) /\ Lies(d, at + 16, g)
  <2>1. Len(q \o g) = 16 + Len(g) /\ q \o g \in Seq(Nat)
        /\ \A d : \A at \in Nat : Lies(d, at, q \o g) <=> Lies(d, at, q) /\ Lies(d, at + 16, g)
    <3>1. Joined(q, Len(q), g)
      BY <1>9, <1>3, LiesNext
    <3>2. Joined(q, 16, g)
      BY ONLY <3>1, <1>9, <1>3, Zenon
    <3> QED BY ONLY <3>2, Zenon DEF Joined
  <2> QED BY <1>3, <2>1
<1>11. ASSUME NEW d, NEW at \in Nat
       PROVE  /\ Lies(d, at, v) <=> Lies(d, at, a) /\ Lies(d, at + 4, b) /\ Lies(d, at + 6, c)
              /\ Lies(d, at, q \o g) <=>
                   Lies(d, at, v) /\ Lies(d, at + 8, e) /\ Lies(d, at + 12, f) /\ Lies(d, at + 16, g)
  BY <1>5, <1>6, <1>8, <1>9, <1>10
<1> QED BY <1>1, <1>6, <1>7, <1>10, <1>11, <1>k DEF a, b, c, e, f, g

Consts(s) == Each(s, ConstBytes)
Funcs(s)  == Each(s, FuncBytes)

LEMMA IsAppend ==
  ASSUME NEW t \in Seq(Seq(Nat)), NEW b \in Seq(Nat), NEW v \in Seq(Seq(Nat)),
         Len(v) = Len(t) + 1, v[Len(t) + 1] = b, \A k \in 1 .. Len(t) : v[k] = t[k]
  PROVE  v = Append(t, b)
<1>1. /\ Append(t, b) \in Seq(Seq(Nat)) /\ Len(Append(t, b)) = Len(v)
      /\ \A k \in 1 .. Len(v) : Append(t, b)[k] = v[k]
  OBVIOUS
<1> DEFINE u == Append(t, b)
<1> HIDE DEF u
<1>2. u \in Seq(Seq(Nat)) /\ Len(u) = Len(v) /\ \A k \in 1 .. Len(v) : u[k] = v[k]
  BY <1>1 DEF u
<1>3. u = v
  BY <1>2
<1> QED BY <1>3 DEF u

LEMMA ConstsGrow ==
  ASSUME NEW s \in Seq(Constant), NEW c \in Constant
  PROVE  Consts(Append(s, c)) = Consts(s) \o ConstBytes(c)
<1> DEFINE u == Append(s, c)
           t == [k \in DOMAIN s |-> ConstBytes(s[k])]
           v == [k \in DOMAIN u |-> ConstBytes(u[k])]
<1>1. /\ Len(s) \in Nat /\ Len(u) = Len(s) + 1 /\ u[Len(s) + 1] = c
      /\ DOMAIN s = 1 .. Len(s) /\ DOMAIN u = 1 .. Len(u)
      /\ \A k \in 1 .. Len(s) : u[k] = s[k] /\ s[k] \in Constant
  OBVIOUS
<1>2. ConstBytes(c) \in Seq(Nat) /\ \A k \in 1 .. Len(s) : ConstBytes(s[k]) \in Seq(Nat)
  BY <1>1, ConstLies
<1> HIDE DEF u
<1>3. t \in Seq(Seq(Nat)) /\ Len(t) = Len(s) /\ \A k \in 1 .. Len(s) : t[k] = ConstBytes(s[k])
  BY <1>1, <1>2
<1>4. v = Append(t, ConstBytes(c))
  <2>1. \A k \in 1 .. Len(s) + 1 : ConstBytes(u[k]) \in Seq(Nat)
    <3>1. \A k \in 1 .. Len(s) + 1 : k \in 1 .. Len(s) \/ k = Len(s) + 1
      BY <1>1
    <3> QED BY <1>1, <1>2, <3>1
  <2>2. v \in Seq(Seq(Nat)) /\ Len(v) = Len(s) + 1 /\ \A k \in 1 .. Len(s) + 1 : v[k] = ConstBytes(u[k])
    BY <1>1, <2>1
  <2> HIDE DEF v, t
  <2>3. Len(s) + 1 \in 1 .. Len(s) + 1 /\ \A k \in 1 .. Len(s) : k \in 1 .. Len(s) + 1
    BY <1>1
  <2>4. v[Len(t) + 1] = ConstBytes(c) /\ \A k \in 1 .. Len(t) : v[k] = t[k]
    BY <1>1, <1>3, <2>2, <2>3
  <2> QED BY <1>2, <1>3, <2>2, <2>4, IsAppend
<1>5. FlattenSeq(v) = FlattenSeq(t) \o ConstBytes(c)
  <2> HIDE DEF v, t
  <2> QED BY <1>2, <1>3, <1>4, FlatAppend
<1> QED BY <1>5 DEF u, Consts, Each

LEMMA FuncsGrow ==
  ASSUME NEW s \in Seq(Function), NEW c \in Function
  PROVE  Funcs(Append(s, c)) = Funcs(s) \o FuncBytes(c)
<1> DEFINE u == Append(s, c)
           t == [k \in DOMAIN s |-> FuncBytes(s[k])]
           v == [k \in DOMAIN u |-> FuncBytes(u[k])]
<1>1. /\ Len(s) \in Nat /\ Len(u) = Len(s) + 1 /\ u[Len(s) + 1] = c
      /\ DOMAIN s = 1 .. Len(s) /\ DOMAIN u = 1 .. Len(u)
      /\ \A k \in 1 .. Len(s) : u[k] = s[k] /\ s[k] \in Function
  OBVIOUS
<1>2. FuncBytes(c) \in Seq(Nat) /\ \A k \in 1 .. Len(s) : FuncBytes(s[k]) \in Seq(Nat)
  BY <1>1, FuncLies
<1> HIDE DEF u
<1>3. t \in Seq(Seq(Nat)) /\ Len(t) = Len(s) /\ \A k \in 1 .. Len(s) : t[k] = FuncBytes(s[k])
  BY <1>1, <1>2
<1>4. v = Append(t, FuncBytes(c))
  <2>1. \A k \in 1 .. Len(s) + 1 : FuncBytes(u[k]) \in Seq(Nat)
    <3>1. \A k \in 1 .. Len(s) + 1 : k \in 1 .. Len(s) \/ k = Len(s) + 1
      BY <1>1
    <3> QED BY <1>1, <1>2, <3>1
  <2>2. v \in Seq(Seq(Nat)) /\ Len(v) = Len(s) + 1 /\ \A k \in 1 .. Len(s) + 1 : v[k] = FuncBytes(u[k])
    BY <1>1, <2>1
  <2> HIDE DEF v, t
  <2>3. Len(s) + 1 \in 1 .. Len(s) + 1 /\ \A k \in 1 .. Len(s) : k \in 1 .. Len(s) + 1
    BY <1>1
  <2>4. v[Len(t) + 1] = FuncBytes(c) /\ \A k \in 1 .. Len(t) : v[k] = t[k]
    BY <1>1, <1>3, <2>2, <2>3
  <2> QED BY <1>2, <1>3, <2>2, <2>4, IsAppend
<1>5. FlattenSeq(v) = FlattenSeq(t) \o FuncBytes(c)
  <2> HIDE DEF v, t
  <2> QED BY <1>2, <1>3, <1>4, FlatAppend
<1> QED BY <1>5 DEF u, Funcs, Each

LEMMA EachType ==
  /\ Consts(<<>>) = <<>> /\ Funcs(<<>>) = <<>>
  /\ \A s \in Seq(Constant) : Consts(s) \in Seq(Nat)
  /\ \A s \in Seq(Function) : Funcs(s) \in Seq(Nat)
<1>1. Consts(<<>>) = <<>> /\ Funcs(<<>>) = <<>>
  <2>1. [k \in DOMAIN <<>> |-> ConstBytes(<<>>[k])] = <<>>
        /\ [k \in DOMAIN <<>> |-> FuncBytes(<<>>[k])] = <<>>
    OBVIOUS
  <2> QED BY <2>1, FlatEmpty DEF Consts, Funcs, Each
<1>2. ASSUME NEW s \in Seq(Constant) PROVE Consts(s) \in Seq(Nat)
  <2> DEFINE t == [k \in DOMAIN s |-> ConstBytes(s[k])]
  <2>1. \A k \in 1 .. Len(s) : ConstBytes(s[k]) \in Seq(Nat)
    BY ConstLies
  <2>2. t \in Seq(Seq(Nat))
    BY <2>1
  <2> HIDE DEF t
  <2>3. FlattenSeq(t) \in Seq(Nat)
    BY <2>2, FlatType
  <2> QED BY <2>3 DEF Consts, Each, t
<1>3. ASSUME NEW s \in Seq(Function) PROVE Funcs(s) \in Seq(Nat)
  <2> DEFINE t == [k \in DOMAIN s |-> FuncBytes(s[k])]
  <2>1. \A k \in 1 .. Len(s) : FuncBytes(s[k]) \in Seq(Nat)
    BY FuncLies
  <2>2. t \in Seq(Seq(Nat))
    BY <2>1
  <2> HIDE DEF t
  <2>3. FlattenSeq(t) \in Seq(Nat)
    BY <2>2, FlatType
  <2> QED BY <2>3 DEF Funcs, Each, t
<1> QED BY <1>1, <1>2, <1>3

\* A module's bytes, with whatever counts its header declares.
WholeOf(x, y, z, cs, fs) == (HeaderOf(x, y, z) \o Consts(cs)) \o Funcs(fs)

LEMMA ConcatEmpty == ASSUME NEW s \in Seq(Nat) PROVE s \o <<>> = s
OBVIOUS

LEMMA ConcatTwice ==
  ASSUME NEW s \in Seq(Nat), NEW t \in Seq(Nat), NEW u \in Seq(Nat)
  PROVE  s \o (t \o u) = (s \o t) \o u
OBVIOUS

LEMMA WholeType ==
  ASSUME NEW x \in Nat, NEW y \in Nat, NEW z \in Nat,
         NEW cs \in Seq(Constant), NEW fs \in Seq(Function)
  PROVE  /\ WholeOf(x, y, z, cs, fs) \in Seq(Nat)
         /\ WholeOf(x, y, z, <<>>, <<>>) = HeaderOf(x, y, z)
<1> DEFINE h == HeaderOf(x, y, z)
           u == Consts(cs)
           v == Funcs(fs)
<1>1. h \in Seq(Nat) /\ u \in Seq(Nat) /\ v \in Seq(Nat)
  BY HeadLies, EachType
<1> HIDE DEF h, u, v
<1>2. h \o u \in Seq(Nat) /\ (h \o u) \o v \in Seq(Nat)
  BY <1>1, Concat
<1>3. WholeOf(x, y, z, <<>>, <<>>) = HeaderOf(x, y, z)
  <2>1. (h \o <<>>) \o <<>> = h
    BY <1>1, ConcatEmpty
  <2> QED BY <2>1, EachType DEF WholeOf, h
<1> QED BY <1>2, <1>3 DEF WholeOf, h, u, v


-----------------------------------------------------------------------------
(***************************************************************************)
(* WrittenInv: the bytes read so far are those that a serializer would     *)
(* have written of what has been loaded.                                   *)
(***************************************************************************)

\* What a serializer would have written of what is loaded.
Written ==
  IF phase = "magic" THEN <<>>
  ELSE IF phase = "version" THEN Magics
  ELSE IF phase = "counts" THEN Preamble
  ELSE WholeOf(header.const_count, header.func_count, header.entry_func, consts, funcs)

\* Where the record at hand begins: behind its tag, if it is a constant's payload.
Payloads == {"Int", "Double", "Str", "Bool"}
Base == Len(Written) + (IF phase \in Payloads THEN 1 ELSE 0)

\* The bytes w are those of the buffer, but that a true is any byte that is not 0.
Agrees(w) ==
  \A k \in 1 .. Len(w) :
    w[k] = data[k] \/ (k # 1 /\ w[k - 1] = 4 /\ w[k] = 1 /\ data[k] # 0)

Flagless == \A k \in {7, 8} : k <= Len(data) => data[k] = 0

RecordRead ==
  /\ i = Base + StartAt[phase][Len(fields) + 1]
  /\ \A f \in 1 .. Len(fields) : Lies(data, Base + StartAt[phase][f], fields[f])

WrittenInv ==
  /\ phase \in {"consts", "funcs", "ok"} => ~bad
  /\ Flagless /\ phase # "err" /\ ~bad =>
       /\ Agrees(Written)
       /\ phase \in Payloads => data[Base] = TagByte(phase)
       /\ IF phase \in Records THEN RecordRead ELSE i = Base

LEMMA Places ==
  ASSUME IInv
  PROVE  /\ Written \in Seq(Nat) /\ Len(Written) \in Nat /\ Base \in Nat
         /\ phase \in Payloads => Base = Len(Written) + 1
         /\ phase \notin Payloads => Base = Len(Written)
<1>1. /\ header.const_count \in Nat /\ header.func_count \in Nat /\ header.entry_func \in Nat
      /\ consts \in Seq(Constant) /\ funcs \in Seq(Function)
  BY DEF IInv, TypeOK
<1>2. WholeOf(header.const_count, header.func_count, header.entry_func, consts, funcs) \in Seq(Nat)
  BY <1>1, WholeType
<1>3. Magics \in Seq(Nat) /\ Preamble \in Seq(Nat)
  BY HeadLies
<1>4. Written \in Seq(Nat)
  <2>1. <<>> \in Seq(Nat)
    OBVIOUS
  <2> QED BY <1>2, <1>3, <2>1, Zenon DEF Written
<1>5. Len(Written) \in Nat
  BY <1>4
<1> QED BY <1>4, <1>5 DEF Base

\* Bytes that lie behind those that agree agree too, and a byte that is not 0
\* behind the tag of a Bool is a true.
LEMMA AgreesGrows ==
  ASSUME NEW w \in Seq(Nat), NEW u \in Seq(Nat), Agrees(w),
         \A k \in 1 .. Len(u) : \/ u[k] = data[Len(w) + k]
                                \/ k # 1 /\ u[k - 1] = 4 /\ u[k] = 1 /\ data[Len(w) + k] # 0
  PROVE  Agrees(w \o u)
<1> DEFINE v == w \o u
<1>1. /\ v \in Seq(Nat) /\ Len(v) = Len(w) + Len(u) /\ Len(w) \in Nat /\ Len(u) \in Nat
      /\ \A k \in 1 .. Len(w) : v[k] = w[k]
      /\ \A k \in 1 .. Len(u) : v[Len(w) + k] = u[k]
  BY Concat
<1> HIDE DEF v
<1>2. ASSUME NEW k \in 1 .. Len(v)
      PROVE  v[k] = data[k] \/ (k # 1 /\ v[k - 1] = 4 /\ v[k] = 1 /\ data[k] # 0)
  <2>1. CASE k \in 1 .. Len(w)
    <3>1. v[k] = w[k]
      BY <1>1, <2>1
    <3>2. ASSUME k # 1 PROVE v[k - 1] = w[k - 1]
      <4>1. k - 1 \in 1 .. Len(w)
        BY <2>1, <3>2
      <4> QED BY <1>1, <4>1
    <3>3. w[k] = data[k] \/ (k # 1 /\ w[k - 1] = 4 /\ w[k] = 1 /\ data[k] # 0)
      BY <2>1 DEF Agrees
    <3> QED BY ONLY <3>1, <3>2, <3>3
  <2>2. CASE k \notin 1 .. Len(w)
    <3>1. PICK j \in 1 .. Len(u) : k = Len(w) + j
      <4>1. k - Len(w) \in 1 .. Len(u) /\ k = Len(w) + (k - Len(w))
        BY <1>1, <2>2
      <4> QED BY <4>1
    <3>2. v[k] = u[j]
      BY <1>1, <3>1
    <3>3. j # 1 => v[k - 1] = u[j - 1]
      <4>1. j # 1 => j - 1 \in 1 .. Len(u) /\ k - 1 = Len(w) + (j - 1)
        BY <1>1, <3>1
      <4> QED BY <1>1, <4>1
    <3>5. /\ u[j] = data[k] \/ (j # 1 /\ u[j - 1] = 4 /\ u[j] = 1 /\ data[k] # 0)
          /\ j # 1 => k # 1
      BY <1>1, <3>1
    <3> QED BY <3>2, <3>3, <3>5
  <2> QED BY <2>1, <2>2
<1>3. Agrees(v)
  BY <1>2 DEF Agrees
<1> QED BY <1>3 DEF v

LEMMA AgreesLies ==
  ASSUME NEW w \in Seq(Nat), NEW u \in Seq(Nat), Agrees(w), Lies(data, Len(w), u)
  PROVE  Agrees(w \o u)
<1>1. \A k \in 1 .. Len(u) : u[k] = data[Len(w) + k]
  BY DEF Lies
<1> QED BY <1>1, AgreesGrows

LEMMA PlacesNext == (IInv => Written \in Seq(Nat) /\ Len(Written) \in Nat)'
<1>1. IInv => Written \in Seq(Nat) /\ Len(Written) \in Nat
  BY Places
<1> QED BY <1>1, PTL

LEMMA RecordNames == Records = {"magic", "version", "counts", "tag", "Int", "Double", "Str", "Bool", "func"}
BY DEF Records, Layout

LEMMA LiesAgree ==
  ASSUME NEW w \in Seq(Nat), Lies(data, 0, w)
  PROVE  Agrees(w)
<1>1. \A k \in 1 .. Len(w) : 0 + k = k
  OBVIOUS
<1> QED BY <1>1 DEF Agrees, Lies

\* A record that is complete lies where it began.
LEMMA Completed ==
  ASSUME IInv, WrittenInv, Flagless, ~bad, NEW p \in Records, Complete(p)
  PROVE  /\ phase = p /\ i = Base + StartAt[p][Len(Layout[p]) + 1] /\ Agrees(Written)
         /\ p \in Payloads => data[Base] = TagByte(p)
         /\ \A f \in 1 .. Len(Layout[p]) :
              /\ fields[f] \in Seq(Byte) /\ Len(fields[f]) = Layout[p][f]
              /\ Lies(data, Base + StartAt[p][f], fields[f])
<1>1. phase = p /\ Len(fields) = Len(Layout[p]) /\ phase # "err"
  BY RecordNames DEF Complete
<1>2. Agrees(Written) /\ RecordRead /\ (phase \in Payloads => data[Base] = TagByte(phase))
  BY <1>1 DEF WrittenInv
<1>3. \A f \in 1 .. Len(fields) : fields[f] \in Seq(Byte) /\ Len(fields[f]) = Layout[phase][f]
  BY <1>1 DEF IInv, TypeOK, FieldsType
<1> QED BY <1>1, <1>2, <1>3 DEF RecordRead

\* The next record or loop head, behind the bytes w.
LEMMA Enters ==
  ASSUME IInv', NEW p \in Records \cup {"consts", "funcs", "ok"}, Goto(p), ~bad,
         NEW w, Written' = w, Flagless => Agrees(w),
         Flagless /\ p \in Payloads => i' = Len(w) + 1 /\ data[i'] = TagByte(p),
         Flagless /\ p \notin Payloads => i' = Len(w)
  PROVE  WrittenInv'
<1>1. phase' = p /\ fields' = <<>> /\ data' = data /\ bad' = bad
  BY DEF Goto
<1>2. CASE ~Flagless
  BY <1>1, <1>2 DEF WrittenInv, Flagless
<1>3. CASE Flagless
  <2>1. Agrees(Written)'
    BY <1>1, <1>3 DEF Agrees
  <2>2. i' = Base' /\ Base' \in Nat
    <3>1. Len(w) \in Nat
      BY PlacesNext
    <3> QED BY <1>1, <1>3, <3>1 DEF Base
  <2>3. (phase \in Payloads => data[Base] = TagByte(phase))'
    BY <1>1, <1>3, <2>2 DEF Payloads, TagByte, CTag
  <2>4. (phase \in Records)' => RecordRead'
    <3>1. (phase \in Records)' => StartAt[p][1] = 0
      BY <1>1, Starts DEF Records, Layout
    <3>2. Len(fields') = 0
      BY <1>1
    <3> QED BY <1>1, <2>2, <3>1, <3>2 DEF RecordRead, Records, Layout, StartAt
  <2> QED BY <1>1, <2>1, <2>2, <2>3, <2>4 DEF WrittenInv
<1> QED BY <1>2, <1>3

LEMMA WrittenInit == Init => WrittenInv
<1> SUFFICES ASSUME Init PROVE WrittenInv
  OBVIOUS
<1>1. Written = <<>> /\ i = 0 /\ phase = "magic" /\ Len(fields) = 0 /\ "magic" \in Records
  BY RecordNames DEF Init, Written
<1>2. Base = 0 /\ StartAt["magic"][1] = 0 /\ Agrees(Written)
  BY <1>1 DEF Base, Payloads, StartAt, Agrees
<1> QED BY <1>1, <1>2 DEF WrittenInv, RecordRead, Payloads

LEMMA WrittenFail == ASSUME Fail PROVE WrittenInv'
BY DEF Fail, Goto, WrittenInv

LEMMA WrittenReadField == ASSUME IInv, WrittenInv, ReadField PROVE WrittenInv'
<1> DEFINE n == Len(fields)
           k == Layout[phase][n + 1]
<1>1. /\ phase \in Records /\ n < Len(Layout[phase]) /\ n \in Nat /\ fields \in Seq(Seq(Byte))
      /\ UNCHANGED <<data, phase, header, consts, funcs>> /\ i \in Nat /\ data \in Seq(Byte)
  BY DEF ReadField, Records, IInv, TypeOK, FieldsType
<1>2. /\ n + 1 \in 1 .. Len(Layout[phase]) /\ k \in Nat /\ Len(Layout[phase]) \in Nat
  BY <1>1, Widths
<1>3. Written' = Written /\ Base' = Base
  BY <1>1 DEF Written, WholeOf, Base
<1>4. phase \notin {"consts", "funcs", "ok", "err"}
  BY <1>1, RecordNames
<1>5. CASE ~need(k)
  <2>1. bad' = TRUE
    BY <1>5 DEF ReadField
  <2> QED BY <1>1, <1>4, <2>1 DEF WrittenInv
<1>6. CASE need(k)
  <2>1. fields' = Append(fields, Peek(k)) /\ i' = i + k /\ bad' = bad
    BY <1>6 DEF ReadField
  <2>2. Peek(k) \in Seq(Byte) /\ Len(Peek(k)) = k
    BY <1>1, <1>2, PeekType
  <2>3. Lies(data, i, Peek(k))
    BY <1>2, <1>1, <1>6, <2>2 DEF Lies, Peek, need
  <2>4. /\ Len(fields') = n + 1 /\ fields'[n + 1] = Peek(k)
        /\ \A f \in 1 .. n : fields'[f] = fields[f]
    BY <1>1, <2>1, <2>2
  <2> SUFFICES ASSUME Flagless, ~bad
               PROVE  /\ Agrees(Written)'
                      /\ (phase \in Payloads => data[Base] = TagByte(phase))'
                      /\ RecordRead'
    BY <1>1, <1>4, <2>1 DEF WrittenInv, Flagless
  <2>5. Agrees(Written) /\ (phase \in Payloads => data[Base] = TagByte(phase)) /\ RecordRead
    BY <1>1, <1>4 DEF WrittenInv
  <2>6. Agrees(Written)'
    BY <1>1, <1>3, <2>5 DEF Agrees
  <2>7. (phase \in Payloads => data[Base] = TagByte(phase))'
    BY <1>1, <1>3, <2>5
  <2>8. StartAt[phase][n + 1] \in Nat /\ StartAt[phase][n + 1 + 1] = StartAt[phase][n + 1] + k
    BY <1>1, <1>2, Starts
  <2>9. i = Base + StartAt[phase][n + 1] /\ Base \in Nat
    BY <2>5, Places DEF RecordRead
  <2>10. i' = Base + StartAt[phase][n + 1 + 1]
    <3> DEFINE a == StartAt[phase][n + 1]
               b == StartAt[phase][n + 1 + 1]
    <3>1. a \in Nat /\ b = a + k /\ i = Base + a /\ Base \in Nat /\ k \in Nat /\ i' = i + k
      BY <1>2, <2>1, <2>8, <2>9
    <3> HIDE DEF a, b, k
    <3>2. i' = Base + b
      BY <3>1
    <3> QED BY <3>2 DEF b
  <2>11. ASSUME NEW f \in 1 .. n + 1 PROVE Lies(data, Base + StartAt[phase][f], fields'[f])
    <3>1. CASE f = n + 1
      BY <2>3, <2>4, <2>9, <3>1
    <3>2. CASE f \in 1 .. n
      <4>1. Lies(data, Base + StartAt[phase][f], fields[f])
        BY <2>5, <3>2 DEF RecordRead
      <4> QED BY <2>4, <3>2, <4>1
    <3> QED BY <1>1, <3>1, <3>2
  <2>12. RecordRead'
    <3>1. \A d, at, s : Lies(d, at, s)' = Lies(d, at, s)
      BY DEF Lies
    <3>2. StartAt' = StartAt
      BY DEF StartAt
    <3>3. i' = Base' + StartAt[phase'][Len(fields') + 1]
      BY <1>1, <1>3, <2>4, <2>10
    <3>4. \A f \in 1 .. Len(fields') : Lies(data', Base' + StartAt[phase'][f], fields'[f])
      BY <1>1, <1>3, <2>4, <2>11
    <3> QED BY <3>3, <3>4 DEF RecordRead, Lies, StartAt
  <2> QED BY <2>6, <2>7, <2>12
<1> QED BY <1>5, <1>6

LEMMA MagicWritten == ASSUME IInv, IInv', WrittenInv, Magic PROVE WrittenInv'
<1>1. CASE Fail
  BY <1>1, WrittenFail
<1>2. CASE ~Fail
  <2>1. /\ Complete("magic") /\ ~bad /\ phase = "magic" /\ Goto("version") /\ i' = i
        /\ Field(1) = 67 /\ Field(2) = 66 /\ Field(3) = 67 /\ Field(4) = 1
    BY <1>2 DEF Magic, Complete
  <2>2. "magic" \in Records /\ "version" \in Records /\ "version" \notin Payloads
    BY RecordNames DEF Payloads
  <2>3. Written = <<>> /\ Base = 0 /\ Written' = Magics
    BY <2>1 DEF Written, Base, Payloads, Goto
  <2>4. Magics \in Seq(Nat) /\ Len(Magics) = 4
    BY HeadLies
  <2>5. ASSUME Flagless PROVE Agrees(Magics) /\ i' = Len(Magics)
    <3>1. /\ i = Base + StartAt["magic"][Len(Layout["magic"]) + 1]
          /\ \A f \in 1 .. Len(Layout["magic"]) :
               /\ fields[f] \in Seq(Byte) /\ Len(fields[f]) = Layout["magic"][f]
               /\ Lies(data, Base + StartAt["magic"][f], fields[f])
      BY <2>1, <2>2, <2>5, Completed
    <3>2. /\ Len(Layout["magic"]) = 4 /\ StartAt["magic"][5] = 4
          /\ \A f \in 1 .. 4 : Layout["magic"][f] = 1 /\ StartAt["magic"][f] = f - 1
      BY DEF Layout, StartAt
    <3>3. ASSUME NEW f \in 1 .. 4 PROVE data[f] = Field(f)
      <4>1. Len(fields[f]) = 1 /\ Lies(data, f - 1, fields[f])
        <5>1. f \in 1 .. Len(Layout["magic"]) /\ Base + StartAt["magic"][f] = f - 1
          BY <2>3, <3>2
        <5>2. Len(fields[f]) = Layout["magic"][f] /\ Lies(data, Base + StartAt["magic"][f], fields[f])
          BY <3>1, <5>1
        <5> QED BY <3>2, <5>1, <5>2
      <4>2. data[f - 1 + 1] = fields[f][1]
        BY <4>1 DEF Lies
      <4>3. f - 1 + 1 = f
        OBVIOUS
      <4>4. Field(f) = fields[f][1]
        BY <4>1 DEF Field, Num
      <4> QED BY <4>2, <4>3, <4>4
    <3>4. data[1] = 67 /\ data[2] = 66 /\ data[3] = 67 /\ data[4] = 1
      BY <2>1, <3>3
    <3>5. Lies(data, 0, Magics)
      BY <3>4 DEF Lies, Magics
    <3> QED BY <2>1, <2>3, <2>4, <3>1, <3>2, <3>5, LiesAgree
  <2> QED BY <2>1, <2>2, <2>3, <2>5, Enters
<1> QED BY <1>1, <1>2

LEMMA VersionWritten == ASSUME IInv, IInv', WrittenInv, Version PROVE WrittenInv'
<1>1. CASE Fail
  BY <1>1, WrittenFail
<1>2. CASE ~Fail
  <2>1. /\ Complete("version") /\ ~bad /\ phase = "version" /\ Goto("counts") /\ i' = i
        /\ Field(1) = 1
    BY <1>2 DEF Version, Complete
  <2>2. "version" \in Records /\ "counts" \in Records /\ "counts" \notin Payloads
    BY RecordNames DEF Payloads
  <2>3. Written = Magics /\ Base = Len(Magics) /\ Written' = Preamble
    BY <2>1, Places DEF Written, Payloads, Goto
  <2>4. /\ Magics \in Seq(Nat) /\ Len(Magics) = 4 /\ Preamble \in Seq(Nat) /\ Len(Preamble) = 8
        /\ Preamble = (Magics \o put16(1)) \o put16(0)
    BY HeadLies DEF Preamble, Magics
  <2>5. ASSUME Flagless PROVE Agrees(Preamble) /\ i' = Len(Preamble)
    <3>1. /\ i = Base + StartAt["version"][Len(Layout["version"]) + 1] /\ Agrees(Written)
          /\ \A f \in 1 .. Len(Layout["version"]) :
               /\ fields[f] \in Seq(Byte) /\ Len(fields[f]) = Layout["version"][f]
               /\ Lies(data, Base + StartAt["version"][f], fields[f])
      BY <2>1, <2>2, <2>5, Completed
    <3>2. /\ Len(Layout["version"]) = 2 /\ StartAt["version"][3] = 4 /\ StartAt["version"][1] = 0
          /\ Layout["version"][1] = 2
      BY DEF Layout, StartAt
    <3>3. i = 8 /\ 8 <= Len(data) /\ data \in Seq(Byte)
      <4>1. i = 4 + 4
        <5>1. Base = 4 /\ Len(Layout["version"]) + 1 = 3
          BY <2>3, <2>4, <3>2
        <5>2. StartAt["version"][Len(Layout["version"]) + 1] = 4
          BY <3>2, <5>1
        <5> QED BY ONLY <3>1, <5>1, <5>2
      <4>2. i <= Len(data) /\ data \in Seq(Byte)
        BY DEF IInv, TypeOK, CursorInBounds
      <4> QED BY <4>1, <4>2
    <3>4. put16(1) = fields[1] /\ Lies(data, 4, fields[1])
      <4>1. 1 \in 1 .. Len(Layout["version"]) /\ Base + StartAt["version"][1] = 4
        BY <2>3, <2>4, <3>2
      <4>2. /\ fields[1] \in Seq(Byte) /\ Len(fields[1]) = Layout["version"][1]
            /\ Lies(data, Base + StartAt["version"][1], fields[1])
        BY <3>1, <4>1
      <4>3. fields[1] \in Seq(Byte) /\ Len(fields[1]) = 2 /\ Num(fields[1]) = 1
        BY <2>1, <3>2, <4>2 DEF Field
      <4>4. put16(Num(fields[1])) = fields[1]
        BY <4>3, Rewrite16
      <4> QED BY <4>1, <4>2, <4>3, <4>4
    <3>5. put16(1) \in Seq(Nat) /\ Len(put16(1)) = 2 /\ put16(0) \in Seq(Nat) /\ Len(put16(0)) = 2
      BY Put16
    <3> DEFINE u == Magics \o put16(1)
    <3>6. Agrees(u) /\ u \in Seq(Nat) /\ Len(u) = 6
      <4>1. Agrees(u)
        BY <2>3, <2>4, <3>1, <3>4, <3>5, AgreesLies
      <4>2. u \in Seq(Nat) /\ Len(u) = Len(Magics) + Len(put16(1))
        BY <2>4, <3>5, Concat
      <4> QED BY <2>4, <3>5, <4>1, <4>2
    <3>7. Lies(data, 6, put16(0))
      <4>1. put16(0) = <<0, 0>>
        BY DEF put16
      <4>2. data[7] = 0 /\ data[8] = 0
        BY <2>5, <3>3 DEF Flagless
      <4> QED BY <4>1, <4>2 DEF Lies
    <3>8. Agrees(Preamble)
      <4> HIDE DEF u
      <4>1. Agrees(u \o put16(0))
        BY <3>5, <3>6, <3>7, AgreesLies
      <4> QED BY <2>4, <4>1 DEF u
    <3> QED BY <2>1, <2>4, <3>3, <3>8
  <2> QED BY <2>1, <2>2, <2>3, <2>5, Enters
<1> QED BY <1>1, <1>2

\* The three counts, as they were read.
LEMMA CountsRead ==
  ASSUME IInv, Complete("counts")
  PROVE  /\ Field(1) \in Nat /\ Field(2) \in Nat /\ Field(3) \in Nat
         /\ \A f \in 1 .. 3 : put32(Field(f)) = fields[f]
<1>1. /\ "counts" \in Records /\ Len(Layout["counts"]) = 3 /\ phase = "counts" /\ Len(fields) = 3
      /\ \A f \in 1 .. 3 : Layout["counts"][f] = 4
  BY RecordNames DEF Layout, Complete
<1>2. ASSUME NEW f \in 1 .. 3 PROVE Field(f) \in Nat /\ put32(Field(f)) = fields[f]
  <2>1. fields[f] \in Seq(Byte) /\ Len(fields[f]) = 4
    <3>1. /\ fields \in Seq(Seq(Byte))
          /\ \A n \in 1 .. Len(fields) : Len(fields[n]) = Layout[phase][n]
      BY <1>1 DEF IInv, TypeOK, FieldsType
    <3>2. f \in 1 .. Len(fields)
      BY <1>1
    <3>3. fields[f] \in Seq(Byte)
      BY <3>1, <3>2
    <3>4. Len(fields[f]) = Layout[phase][f] /\ Layout[phase][f] = 4
      BY ONLY <1>1, <3>1, <3>2, Zenon
    <3> QED BY <3>3, <3>4
  <2> QED BY <2>1, Num4, Rewrite32 DEF Field
<1> QED BY <1>2

LEMMA CountsWritten == ASSUME IInv, IInv', WrittenInv, Counts PROVE WrittenInv'
<1>1. CASE Fail
  BY <1>1, WrittenFail
<1>2. CASE ~Fail
  <2> DEFINE x == Field(1)
             y == Field(2)
             z == Field(3)
  <2>1. /\ Complete("counts") /\ ~bad /\ phase = "counts" /\ Goto("consts") /\ i' = i
        /\ header' = [const_count |-> x, func_count |-> y, entry_func |-> z]
        /\ consts' = consts /\ funcs' = funcs
    BY <1>2 DEF Counts, Complete
  <2>2. "counts" \in Records /\ "counts" \notin Payloads /\ "consts" \notin Records \cup Payloads
    BY RecordNames DEF Payloads
  <2>3. consts = <<>> /\ funcs = <<>>
    BY <2>1 DEF IInv, Progress
  <2>4. x \in Nat /\ y \in Nat /\ z \in Nat /\ \A f \in 1 .. 3 : put32(Field(f)) = fields[f]
    BY <2>1, CountsRead
  <2> HIDE DEF x, y, z
  <2> DEFINE e == put32(x)
             f == put32(y)
             g == put32(z)
             w == HeaderOf(x, y, z)
  <2>5. w = ((Preamble \o e) \o f) \o g /\ Preamble \in Seq(Nat) /\ Len(Preamble) = 8
        /\ Len(w) = 20
    <3>1. w = ((Preamble \o e) \o f) \o g
      BY DEF HeaderOf, Preamble, Magics
    <3>2. Preamble \in Seq(Nat) /\ Len(Preamble) = 8 /\ Len(w) = 20
      BY <2>4, HeadLies
    <3> QED BY <3>1, <3>2
  <2>6. Written = Preamble /\ Base = 8 /\ Written' = w
    <3>1. Written' = WholeOf(x, y, z, <<>>, <<>>)
      BY <2>1, <2>3 DEF Written, Goto
    <3>2. <<>> \in Seq(Constant) /\ <<>> \in Seq(Function)
      OBVIOUS
    <3>3. WholeOf(x, y, z, <<>>, <<>>) = w
      BY <2>4, <3>2, WholeType
    <3>4. Written = Preamble
      BY <2>1 DEF Written
    <3>5. Base = Len(Preamble)
      BY <2>1, <2>2, <3>4, Places
    <3> QED BY <2>5, <3>1, <3>3, <3>4, <3>5
  <2> HIDE DEF w
  <2>7. /\ e \in Seq(Nat) /\ Len(e) = 4 /\ f \in Seq(Nat) /\ Len(f) = 4
        /\ g \in Seq(Nat) /\ Len(g) = 4
    BY <2>4, Put32
  <2>8. e = fields[1] /\ f = fields[2] /\ g = fields[3]
    BY <2>4 DEF x, y, z
  <2> HIDE DEF e, f, g
  <2>9. ASSUME Flagless PROVE Agrees(w) /\ i' = Len(w)
    <3>1. /\ i = Base + StartAt["counts"][Len(Layout["counts"]) + 1] /\ Agrees(Written)
          /\ \A n \in 1 .. Len(Layout["counts"]) :
               Lies(data, Base + StartAt["counts"][n], fields[n])
      BY <2>1, <2>2, <2>9, Completed
    <3>2. /\ Len(Layout["counts"]) = 3 /\ StartAt["counts"][4] = 12 /\ StartAt["counts"][1] = 0
          /\ StartAt["counts"][2] = 4 /\ StartAt["counts"][3] = 8
      BY DEF Layout, StartAt
    <3>3. i = 20 /\ Lies(data, 8, e) /\ Lies(data, 12, f) /\ Lies(data, 16, g)
      BY <2>6, <2>8, <3>1, <3>2
    <3> DEFINE u == Preamble \o e
    <3>4. u \in Seq(Nat) /\ Len(u) = 12 /\ Agrees(u)
      <4>1. u \in Seq(Nat) /\ Len(u) = Len(Preamble) + Len(e)
        BY <2>5, <2>7, Concat
      <4> QED BY <2>5, <2>6, <2>7, <3>1, <3>3, <4>1, AgreesLies
    <3>5. w = (u \o f) \o g
      BY <2>5
    <3> HIDE DEF u
    <3> DEFINE v == u \o f
    <3>6. v \in Seq(Nat) /\ Len(v) = 16 /\ Agrees(v)
      <4>1. v \in Seq(Nat) /\ Len(v) = Len(u) + Len(f)
        BY <2>7, <3>4, Concat
      <4>2. Len(v) = 16
        BY <2>7, <3>4, <4>1
      <4>3. Agrees(u \o f)
        <5>1. Lies(data, Len(u), f)
          BY <3>3, <3>4
        <5> QED BY <2>7, <3>4, <5>1, AgreesLies
      <4> QED BY ONLY <4>1, <4>2, <4>3, Zenon DEF v
    <3>7. w = v \o g
      BY <3>5
    <3> HIDE DEF v
    <3>8. Agrees(v \o g)
      BY <2>7, <3>3, <3>6, AgreesLies
    <3> QED BY <2>1, <2>5, <3>3, <3>7, <3>8
  <2> QED BY <2>1, <2>2, <2>6, <2>9, Enters
<1> QED BY <1>1, <1>2

\* Whole(..) once the counts are read.
LEMMA WrittenWhole ==
  ASSUME phase \notin {"magic", "version", "counts"}
  PROVE  Written = WholeOf(header.const_count, header.func_count, header.entry_func, consts, funcs)
BY DEF Written

\* A loop head, or the end: nothing is added.
LEMMA Turns ==
  ASSUME IInv, IInv', WrittenInv, phase \in {"consts", "funcs"},
         NEW p \in {"consts", "funcs", "tag", "func", "ok"}, Goto(p),
         UNCHANGED <<i, header, consts, funcs>>
  PROVE  WrittenInv'
<1>1. p \in Records \cup {"consts", "funcs", "ok"} /\ p \notin Payloads
  BY RecordNames DEF Payloads
<1>2. ~bad /\ phase' = p /\ phase \notin Records /\ phase \notin Payloads
  BY RecordNames DEF WrittenInv, Goto, Payloads
<1>3. Written' = Written
  BY <1>2 DEF Written, WholeOf
<1>4. Flagless => Agrees(Written) /\ i' = Len(Written)
  <2>1. Base = Len(Written)
    BY <1>2, Places
  <2> QED BY <1>2, <2>1 DEF WrittenInv
<1> QED BY <1>1, <1>2, <1>3, <1>4, Enters

LEMMA WholeConst ==
  ASSUME NEW x \in Nat, NEW y \in Nat, NEW z \in Nat,
         NEW cs \in Seq(Constant), NEW c \in Constant
  PROVE  WholeOf(x, y, z, Append(cs, c), <<>>) = WholeOf(x, y, z, cs, <<>>) \o ConstBytes(c)
<1> DEFINE h == HeaderOf(x, y, z)
           u == Consts(cs)
           b == ConstBytes(c)
<1>1. h \in Seq(Nat) /\ u \in Seq(Nat) /\ b \in Seq(Nat) /\ Consts(Append(cs, c)) = u \o b
  BY HeadLies, EachType, ConstLies, ConstsGrow
<1>2. WholeOf(x, y, z, Append(cs, c), <<>>) = (h \o (u \o b)) \o <<>>
      /\ WholeOf(x, y, z, cs, <<>>) = (h \o u) \o <<>>
  BY <1>1, EachType DEF WholeOf
<1> HIDE DEF h, u, b
<1>3. h \o u \in Seq(Nat)
  BY <1>1, Concat
<1>4. h \o (u \o b) = (h \o u) \o b /\ (h \o u) \o b \in Seq(Nat)
  <2>1. h \o (u \o b) = (h \o u) \o b
    BY <1>1, ConcatTwice, Zenon
  <2>2. (h \o u) \o b \in Seq(Nat)
    BY <1>1, <1>3, Concat, Zenon
  <2> QED BY <2>1, <2>2
<1>5. (h \o (u \o b)) \o <<>> = ((h \o u) \o <<>>) \o b
  BY <1>3, <1>4, ConcatEmpty
<1> QED BY <1>2, <1>5 DEF b

\* A constant is added behind those that are written.
LEMMA ConstAdded ==
  ASSUME IInv, IInv', ~bad, phase \in {"tag", "Int", "Double", "Str", "Bool"},
         NEW c \in Constant, consts' = Append(consts, c), Goto("consts"), UNCHANGED <<header, funcs>>,
         Flagless => Agrees(Written \o ConstBytes(c)) /\ i' = Len(Written) + Len(ConstBytes(c))
  PROVE  WrittenInv'
<1>1. /\ header.const_count \in Nat /\ header.func_count \in Nat /\ header.entry_func \in Nat
      /\ consts \in Seq(Constant) /\ funcs = <<>> /\ <<>> \in Seq(Function)
  BY DEF IInv, TypeOK, Progress
<1> DEFINE x == header.const_count
           y == header.func_count
           z == header.entry_func
           w == Written \o ConstBytes(c)
<1>2. Written = WholeOf(x, y, z, consts, <<>>)
  BY <1>1, WrittenWhole
<1>3. Written' = WholeOf(x, y, z, Append(consts, c), <<>>)
  BY <1>1 DEF Written, Goto
<1>4. Written' = w
  <2>1. x \in Nat /\ y \in Nat /\ z \in Nat /\ consts \in Seq(Constant) /\ <<>> \in Seq(Function)
    BY <1>1
  <2> HIDE DEF x, y, z
  <2>2. WholeOf(x, y, z, Append(consts, c), <<>>) = WholeOf(x, y, z, consts, <<>>) \o ConstBytes(c)
    BY <2>1, WholeConst
  <2> QED BY <1>2, <1>3, <2>2
<1>5. Len(w) = Len(Written) + Len(ConstBytes(c))
  BY Places, ConstLies, Concat
<1>6. "consts" \in Records \cup {"consts", "funcs", "ok"} /\ "consts" \notin Payloads
  BY DEF Payloads
<1> HIDE DEF w
<1>7. Flagless => Agrees(w) /\ i' = Len(w)
  BY <1>5 DEF w
<1> QED BY <1>4, <1>6, <1>7, Enters

LEMMA NextWritten ==
  ASSUME IInv, IInv', WrittenInv, NextConst \/ NextFunc \/ Finish PROVE WrittenInv'
<1>1. CASE Fail
  BY <1>1, WrittenFail
<1>2. CASE ~Fail
  <2>1. PICK p \in {"funcs", "tag", "func", "ok"} :
          phase \in {"consts", "funcs"} /\ Goto(p) /\ UNCHANGED <<i, header, consts, funcs>>
    BY <1>2 DEF NextConst, NextFunc, Finish
  <2> QED BY <2>1, Turns
<1> QED BY <1>1, <1>2

LEMMA TagWritten == ASSUME IInv, IInv', WrittenInv, Tag PROVE WrittenInv'
<1>1. CASE Fail
  BY <1>1, WrittenFail
<1>2. CASE ~Fail
  <2> DEFINE b == Field(1)
  <2>1. /\ Complete("tag") /\ ~bad /\ phase = "tag" /\ b \in DOMAIN CTag /\ i' = i
        /\ IF CTag[b] = "Nil" THEN AddConst("Nil", <<>>)
           ELSE Goto(CTag[b]) /\ UNCHANGED <<header, consts, funcs>>
    BY <1>2 DEF Tag, Complete
  <2>2. b \in 0 .. 4 /\ TagByte(CTag[b]) = b
        /\ CTag[b] \in {"Int", "Double", "Str", "Nil", "Bool"}
    <3>1. DOMAIN CTag = 0 .. 4 /\ CTag[0] = "Int" /\ CTag[1] = "Double" /\ CTag[2] = "Str"
          /\ CTag[3] = "Nil" /\ CTag[4] = "Bool"
      BY DEF CTag
    <3>2. b \in 0 .. 4
      BY <2>1, <3>1
    <3> HIDE DEF b
    <3>3. b = 0 \/ b = 1 \/ b = 2 \/ b = 3 \/ b = 4
      BY <3>2
    <3>4. CTag[b] \in {"Int", "Double", "Str", "Nil", "Bool"}
      BY ONLY <3>1, <3>3, Zenon
    <3> QED BY <3>2, <3>4, Tags
  <2>3. "tag" \in Records /\ "tag" \notin Payloads
    BY RecordNames DEF Payloads
  <2>4. Written \in Seq(Nat) /\ Len(Written) \in Nat /\ Base = Len(Written)
    BY <2>1, <2>3, Places
  <2>5. ASSUME Flagless
        PROVE  Agrees(Written) /\ i = Len(Written) + 1 /\ data[Len(Written) + 1] = b
    <3>1. /\ i = Base + StartAt["tag"][Len(Layout["tag"]) + 1] /\ Agrees(Written)
          /\ \A f \in 1 .. Len(Layout["tag"]) :
               /\ fields[f] \in Seq(Byte) /\ Len(fields[f]) = Layout["tag"][f]
               /\ Lies(data, Base + StartAt["tag"][f], fields[f])
      BY <2>1, <2>3, <2>5, Completed
    <3>2. /\ Len(Layout["tag"]) = 1 /\ StartAt["tag"][2] = 1 /\ StartAt["tag"][1] = 0
          /\ Layout["tag"][1] = 1 /\ Len(Layout["tag"]) + 1 = 2 /\ 1 \in 1 .. Len(Layout["tag"])
      BY DEF Layout, StartAt
    <3>3. i = Len(Written) + 1
      <4>1. StartAt["tag"][Len(Layout["tag"]) + 1] = 1
        BY <3>2
      <4> QED BY <3>1, <2>4, <4>1
    <3>4. Len(fields[1]) = 1 /\ Lies(data, Len(Written), fields[1])
      <4>1. Base + StartAt["tag"][1] = Len(Written)
        BY <2>4, <3>2
      <4>2. Len(fields[1]) = Layout["tag"][1] /\ Lies(data, Base + StartAt["tag"][1], fields[1])
        BY <3>1, <3>2
      <4> QED BY <3>2, <4>1, <4>2
    <3>5. data[Len(Written) + 1] = fields[1][1]
      BY <3>4 DEF Lies
    <3>6. Field(1) = fields[1][1]
      BY <3>4 DEF Field, Num
    <3> QED BY <3>1, <3>3, <3>5, <3>6
  <2> HIDE DEF b
  <2>6. CASE CTag[b] = "Nil"
    <3> DEFINE c == [tag |-> "Nil", payload |-> <<>>]
    <3>1. c \in Constant /\ c.tag = "Nil" /\ c.tag # "Str" /\ c.payload = <<>> /\ Len(c.payload) = 0
      BY DEF Constant
    <3>2. consts' = Append(consts, c) /\ Goto("consts") /\ UNCHANGED <<header, funcs>>
      BY <2>1, <2>6 DEF AddConst
    <3> HIDE DEF c
    <3>3. /\ ConstBytes(c) \in Seq(Nat) /\ Len(ConstBytes(c)) = 1
          /\ Lies(data, Len(Written), ConstBytes(c)) <=>
               data[Len(Written) + 1] = TagByte(c.tag) /\ Lies(data, Len(Written) + 1, c.payload)
      <4>1. ConstBytes(c) \in Seq(Nat) /\ Len(ConstBytes(c)) = 1 + Len(c.payload)
        BY <3>1, ConstLies, Zenon
      <4>2. Lies(data, Len(Written), ConstBytes(c)) <=>
              data[Len(Written) + 1] = TagByte(c.tag) /\ Lies(data, Len(Written) + 1, c.payload)
        BY ONLY <2>4, <3>1, ConstLies, Zenon
      <4> QED BY <3>1, <4>1, <4>2
    <3>4. ASSUME Flagless
          PROVE  Agrees(Written \o ConstBytes(c)) /\ i' = Len(Written) + Len(ConstBytes(c))
      <4>1. Lies(data, Len(Written) + 1, c.payload)
        BY <3>1 DEF Lies
      <4>2. Lies(data, Len(Written), ConstBytes(c))
        BY <2>2, <2>5, <2>6, <3>1, <3>3, <3>4, <4>1
      <4> QED BY <2>1, <2>4, <2>5, <3>3, <3>4, <4>2, AgreesLies
    <3> QED BY <2>1, <3>1, <3>2, <3>4, ConstAdded
  <2>7. CASE CTag[b] # "Nil"
    <3> DEFINE p == CTag[b]
    <3>1. /\ p \in Payloads /\ p \in Records /\ Goto(p) /\ UNCHANGED <<header, consts, funcs>>
          /\ TagByte(p) = b
      BY <2>1, <2>2, <2>7, RecordNames DEF Payloads
    <3> HIDE DEF p
    <3>2. Written' = Written
      <4>1. phase' = p /\ p \notin {"magic", "version", "counts"}
        BY <3>1 DEF Goto, Payloads
      <4> QED BY <2>1, <3>1, <4>1 DEF Written, WholeOf
    <3>3. Flagless => i' = Len(Written) + 1 /\ data[i'] = TagByte(p) /\ Agrees(Written)
      BY <2>1, <2>5, <3>1
    <3> QED BY <2>1, <3>1, <3>2, <3>3, Enters
  <2> QED BY <2>6, <2>7
<1> QED BY <1>1, <1>2

\* The payload of a constant that is not a string lies behind its tag.
LEMMA PayloadRead ==
  ASSUME IInv, WrittenInv, Flagless, ~bad, NEW p \in {"Int", "Double", "Str", "Bool"}, Complete(p)
  PROVE  /\ Base = Len(Written) + 1 /\ Agrees(Written) /\ data[Len(Written) + 1] = TagByte(p)
         /\ Lies(data, Len(Written) + 1, fields[1])
         /\ i = Len(Written) + 1 + Layout[p][1]
<1>1. p \in Records /\ p \in Payloads /\ phase = p
  BY RecordNames DEF Payloads, Complete
<1>2. Base = Len(Written) + 1 /\ Len(Written) \in Nat
  BY <1>1, Places
<1>3. Len(Layout[p]) = 1 /\ StartAt[p][1] = 0 /\ StartAt[p][1 + 1] = 0 + Layout[p][1]
      /\ Layout[p][1] \in Nat
  BY DEF Layout, StartAt
<1>4. /\ i = Base + StartAt[p][Len(Layout[p]) + 1] /\ Agrees(Written) /\ data[Base] = TagByte(p)
      /\ \A f \in 1 .. Len(Layout[p]) : Lies(data, Base + StartAt[p][f], fields[f])
  BY <1>1, Completed
<1>5. 1 \in 1 .. Len(Layout[p])
  BY <1>3
<1>6. Lies(data, Base + StartAt[p][1], fields[1])
  BY <1>4, <1>5
<1>7. Base + StartAt[p][1] = Len(Written) + 1
  BY <1>2, <1>3
<1>8. StartAt[p][Len(Layout[p]) + 1] = Layout[p][1]
  BY <1>3
<1>9. i = Len(Written) + 1 + Layout[p][1]
  BY <1>2, <1>3, <1>4, <1>8
<1> QED BY <1>2, <1>4, <1>6, <1>7, <1>9

LEMMA NumberWritten ==
  ASSUME IInv, IInv', WrittenInv, NEW t \in {"Int", "Double"}, Number(t) PROVE WrittenInv'
<1>1. CASE Fail
  BY <1>1, WrittenFail
<1>2. CASE ~Fail
  <2> DEFINE c == [tag |-> t, payload |-> fields[1]]
  <2>1. /\ Complete(t) /\ ~bad /\ phase = t /\ i' = i
        /\ consts' = Append(consts, c) /\ Goto("consts") /\ UNCHANGED <<header, funcs>>
    BY <1>2 DEF Number, Complete, AddConst
  <2>2. t \in Records /\ Layout[t][1] = 8 /\ Len(Layout[t]) = 1 /\ 1 \in 1 .. Len(Layout[t])
    BY RecordNames DEF Layout
  <2>3. fields[1] \in Seq(Byte) /\ Len(fields[1]) = 8
    <3>1. 1 \in 1 .. Len(fields) /\ fields \in Seq(Seq(Byte)) /\ phase \in Records
          /\ \A n \in 1 .. Len(fields) : Len(fields[n]) = Layout[phase][n]
      BY <2>1, <2>2 DEF IInv, TypeOK, FieldsType, Complete
    <3>2. fields[1] \in Seq(Byte)
      BY <3>1
    <3> QED BY <2>1, <2>2, <3>1, <3>2
  <2>4. c \in Constant /\ c.tag = t /\ c.payload = fields[1]
    BY <2>3 DEF Constant
  <2> HIDE DEF c
  <2>5. /\ ConstBytes(c) \in Seq(Nat) /\ Len(ConstBytes(c)) = 9
        /\ \A at \in Nat : Lies(data, at, ConstBytes(c)) <=>
             data[at + 1] = TagByte(c.tag) /\ Lies(data, at + 1, c.payload)
    <3>1. c.tag # "Str"
      BY <2>4
    <3>2. ConstBytes(c) \in Seq(Nat) /\ Len(ConstBytes(c)) = 1 + Len(c.payload)
      BY <2>4, <3>1, ConstLies, Zenon
    <3>3. \A at \in Nat : Lies(data, at, ConstBytes(c)) <=>
             data[at + 1] = TagByte(c.tag) /\ Lies(data, at + 1, c.payload)
      BY ONLY <2>4, <3>1, ConstLies, Zenon
    <3> QED BY <2>3, <2>4, <3>2, <3>3
  <2>6. ASSUME Flagless
        PROVE  Agrees(Written \o ConstBytes(c)) /\ i' = Len(Written) + Len(ConstBytes(c))
    <3>1. /\ Agrees(Written) /\ data[Len(Written) + 1] = TagByte(t)
          /\ Lies(data, Len(Written) + 1, fields[1]) /\ i = Len(Written) + 1 + 8
      BY <2>1, <2>2, <2>6, PayloadRead
    <3>2. Written \in Seq(Nat) /\ Len(Written) \in Nat
      BY Places
    <3>3. Lies(data, Len(Written), ConstBytes(c))
      BY <2>4, <2>5, <3>1, <3>2
    <3> QED BY <2>1, <2>5, <3>1, <3>2, <3>3, AgreesLies
  <2> QED BY <2>1, <2>4, <2>6, ConstAdded
<1> QED BY <1>1, <1>2

LEMMA BoolWritten == ASSUME IInv, IInv', WrittenInv, Bool PROVE WrittenInv'
<1>1. CASE Fail
  BY <1>1, WrittenFail
<1>2. CASE ~Fail
  <2> DEFINE v == IF Field(1) # 0 THEN 1 ELSE 0
             c == [tag |-> "Bool", payload |-> <<v>>]
  <2>1. /\ Complete("Bool") /\ ~bad /\ phase = "Bool" /\ i' = i
        /\ consts' = Append(consts, c) /\ Goto("consts") /\ UNCHANGED <<header, funcs>>
    BY <1>2 DEF Bool, Complete, AddConst
  <2>2. "Bool" \in Records /\ Layout["Bool"][1] = 1 /\ Len(Layout["Bool"]) = 1
    BY RecordNames DEF Layout
  <2>3. fields[1] \in Seq(Byte) /\ Len(fields[1]) = 1
    <3>1. 1 \in 1 .. Len(fields) /\ fields \in Seq(Seq(Byte)) /\ phase \in Records
          /\ \A n \in 1 .. Len(fields) : Len(fields[n]) = Layout[phase][n]
      BY <2>1, <2>2 DEF IInv, TypeOK, FieldsType, Complete
    <3>2. fields[1] \in Seq(Byte)
      BY <3>1
    <3> QED BY <2>1, <2>2, <3>1, <3>2
  <2>4. v \in {0, 1} /\ (v = 0 => fields[1][1] = 0) /\ (v = 1 => fields[1][1] # 0)
    BY <2>3 DEF Field, Num
  <2> HIDE DEF v
  <2>5. c \in Constant /\ c.tag = "Bool" /\ c.payload = <<v>> /\ <<v>> \in Seq(Byte)
    BY <2>4 DEF Constant, Byte
  <2> DEFINE u == ConstBytes(c)
  <2>6. u \in Seq(Nat) /\ Len(u) = 2 /\ u[1] = 4 /\ u[2] = v
    <3>1. u = (<<TagByte("Bool")>> \o <<>>) \o <<v>>
      BY DEF ConstBytes
    <3>2. u = <<4, v>>
      BY <2>4, <3>1, TagBytes
    <3> HIDE DEF u
    <3> QED BY <2>4, <3>2
  <2> HIDE DEF u
  <2>7. ASSUME Flagless
        PROVE  Agrees(Written \o u) /\ i' = Len(Written) + Len(u)
    <3>1. /\ Agrees(Written) /\ data[Len(Written) + 1] = 4
          /\ Lies(data, Len(Written) + 1, fields[1]) /\ i = Len(Written) + 1 + 1
      BY <2>1, <2>2, <2>7, PayloadRead, TagBytes
    <3>2. Written \in Seq(Nat) /\ Len(Written) \in Nat
      BY Places
    <3>3. data[Len(Written) + 1 + 1] = fields[1][1]
      BY <2>3, <3>1 DEF Lies
    <3>4. Len(Written) + 1 + 1 = Len(Written) + 2
      BY <3>2
    <3>5. ASSUME NEW k \in 1 .. Len(u)
          PROVE  \/ u[k] = data[Len(Written) + k]
                 \/ k # 1 /\ u[k - 1] = 4 /\ u[k] = 1 /\ data[Len(Written) + k] # 0
      <4>1. k = 1 \/ k = 2
        BY <2>6
      <4>2. CASE k = 1
        BY <2>6, <3>1, <4>2
      <4>3. CASE k = 2
        <5>1. k - 1 = 1 /\ data[Len(Written) + k] = fields[1][1]
          BY <3>3, <3>4, <4>3
        <5> QED BY <2>4, <2>6, <4>3, <5>1
      <4> QED BY <4>1, <4>2, <4>3
    <3>6. Agrees(Written \o u)
      BY <2>6, <3>1, <3>2, <3>5, AgreesGrows
    <3> QED BY <2>1, <2>6, <3>1, <3>2, <3>6
  <2> QED BY <2>1, <2>5, <2>7, ConstAdded DEF u
<1> QED BY <1>1, <1>2

LEMMA PeekLies ==
  ASSUME IInv, NEW k \in Nat, need(k)
  PROVE  Lies(data, i, Peek(k)) /\ Peek(k) \in Seq(Byte) /\ Len(Peek(k)) = k
<1>1. data \in Seq(Byte) /\ i \in Nat
  BY DEF IInv, TypeOK
<1>2. Peek(k) \in Seq(Byte) /\ Len(Peek(k)) = k
  BY <1>1, PeekType
<1>3. Lies(data, i, Peek(k))
  BY <1>1, <1>2 DEF Lies, Peek, need
<1> QED BY <1>2, <1>3

LEMMA StrWritten == ASSUME IInv, IInv', WrittenInv, Str PROVE WrittenInv'
<1>1. CASE Fail
  BY <1>1, WrittenFail
<1>2. CASE ~Fail
  <2> DEFINE n == Field(1)
             c == [tag |-> "Str", payload |-> Peek(n)]
  <2>1. /\ Complete("Str") /\ ~bad /\ phase = "Str" /\ i' = i + n /\ need(n)
        /\ consts' = Append(consts, c) /\ Goto("consts") /\ UNCHANGED <<header, funcs>>
    BY <1>2 DEF Str, Complete, AddConst
  <2>2. "Str" \in Records /\ Layout["Str"][1] = 4 /\ Len(Layout["Str"]) = 1
    BY RecordNames DEF Layout
  <2>3. fields[1] \in Seq(Byte) /\ Len(fields[1]) = 4
    <3>1. 1 \in 1 .. Len(fields) /\ fields \in Seq(Seq(Byte)) /\ phase \in Records
          /\ \A k \in 1 .. Len(fields) : Len(fields[k]) = Layout[phase][k]
      BY <2>1, <2>2 DEF IInv, TypeOK, FieldsType, Complete
    <3>2. fields[1] \in Seq(Byte)
      BY <3>1
    <3> QED BY <2>1, <2>2, <3>1, <3>2
  <2>4. n \in Nat /\ put32(n) = fields[1]
    BY <2>3, Num4, Rewrite32 DEF Field
  <2> HIDE DEF n
  <2>5. Lies(data, i, Peek(n)) /\ Peek(n) \in Seq(Byte) /\ Len(Peek(n)) = n
    BY <2>1, <2>4, PeekLies
  <2>6. c \in Constant /\ c.tag = "Str" /\ c.payload = Peek(n)
    BY <2>5 DEF Constant
  <2> HIDE DEF c
  <2>7. /\ ConstBytes(c) \in Seq(Nat) /\ Len(ConstBytes(c)) = 5 + n
        /\ \A at \in Nat : Lies(data, at, ConstBytes(c)) <=>
             /\ data[at + 1] = TagByte(c.tag) /\ Lies(data, at + 1, put32(n))
             /\ Lies(data, at + 5, c.payload)
    <3>1. ConstBytes(c) \in Seq(Nat) /\ Len(ConstBytes(c)) = 5 + Len(c.payload)
      BY <2>6, ConstLies, Zenon
    <3>2. \A at \in Nat : Lies(data, at, ConstBytes(c)) <=>
             /\ data[at + 1] = TagByte(c.tag) /\ Lies(data, at + 1, put32(Len(c.payload)))
             /\ Lies(data, at + 5, c.payload)
      BY ONLY <2>6, ConstLies, Zenon
    <3> QED BY <2>5, <2>6, <3>1, <3>2
  <2>8. ASSUME Flagless
        PROVE  Agrees(Written \o ConstBytes(c)) /\ i' = Len(Written) + Len(ConstBytes(c))
    <3>1. /\ Agrees(Written) /\ data[Len(Written) + 1] = TagByte("Str")
          /\ Lies(data, Len(Written) + 1, fields[1]) /\ i = Len(Written) + 1 + 4
      BY <2>1, <2>2, <2>8, PayloadRead
    <3>2. Written \in Seq(Nat) /\ Len(Written) \in Nat
      BY Places
    <3>3. i = Len(Written) + 5
      BY <3>1, <3>2
    <3>4. Lies(data, Len(Written) + 5, c.payload)
      BY <2>5, <2>6, <3>3
    <3>5. Lies(data, Len(Written), ConstBytes(c))
      BY <2>4, <2>6, <2>7, <3>1, <3>2, <3>4
    <3> QED BY <2>1, <2>4, <2>7, <3>1, <3>2, <3>3, <3>5, AgreesLies
  <2> QED BY <2>1, <2>6, <2>8, ConstAdded
<1> QED BY <1>1, <1>2

LEMMA WholeFunc ==
  ASSUME IInv, NEW f \in Function, phase = "func"
  PROVE  WholeOf(header.const_count, header.func_count, header.entry_func, consts, Append(funcs, f))
           = Written \o FuncBytes(f)
<1> DEFINE x == header.const_count
           y == header.func_count
           z == header.entry_func
           h == HeaderOf(x, y, z) \o Consts(consts)
           v == Funcs(funcs)
           b == FuncBytes(f)
<1>1. x \in Nat /\ y \in Nat /\ z \in Nat /\ consts \in Seq(Constant) /\ funcs \in Seq(Function)
  BY DEF IInv, TypeOK
<1>2. Written = h \o v /\ WholeOf(x, y, z, consts, Append(funcs, f)) = h \o Funcs(Append(funcs, f))
  BY WrittenWhole DEF WholeOf
<1> HIDE DEF x, y, z
<1>3. h \in Seq(Nat) /\ v \in Seq(Nat) /\ b \in Seq(Nat) /\ Funcs(Append(funcs, f)) = v \o b
  <2>1. HeaderOf(x, y, z) \in Seq(Nat) /\ Consts(consts) \in Seq(Nat)
    BY <1>1, HeadLies, EachType
  <2>2. h \in Seq(Nat)
    BY <2>1, Concat
  <2> QED BY <1>1, <2>2, EachType, FuncLies, FuncsGrow
<1> HIDE DEF h, v, b
<1>4. h \o (v \o b) = (h \o v) \o b
  BY <1>3, ConcatTwice, Zenon
<1> QED BY <1>2, <1>3, <1>4 DEF x, y, z, b

\* The fields of a function, as numbers and as bytes.
LEMMA FuncFields ==
  ASSUME IInv, Complete("func")
  PROVE  /\ Field(1) \in Nat /\ Field(2) \in Byte /\ Field(3) \in Byte /\ Field(4) \in Nat
         /\ Field(5) \in Nat
         /\ put32(Field(1)) = fields[1] /\ put16(Field(4)) = fields[4] /\ put32(Field(5)) = fields[5]
         /\ Len(fields[2]) = 1 /\ fields[2][1] = Field(2)
         /\ Len(fields[3]) = 1 /\ fields[3][1] = Field(3)
<1>1. /\ "func" \in Records /\ Len(Layout["func"]) = 5 /\ phase = "func" /\ Len(fields) = 5
      /\ Layout["func"][1] = 4 /\ Layout["func"][2] = 1 /\ Layout["func"][3] = 1
      /\ Layout["func"][4] = 2 /\ Layout["func"][5] = 4
  BY RecordNames DEF Layout, Complete
<1>2. /\ fields \in Seq(Seq(Byte))
      /\ \A n \in 1 .. Len(fields) : Len(fields[n]) = Layout[phase][n]
  BY <1>1 DEF IInv, TypeOK, FieldsType
<1>3. ASSUME NEW f \in 1 .. 5 PROVE fields[f] \in Seq(Byte) /\ Len(fields[f]) = Layout["func"][f]
  <2>1. f \in 1 .. Len(fields)
    BY <1>1
  <2>2. fields[f] \in Seq(Byte)
    BY <1>2, <2>1
  <2>3. Len(fields[f]) = Layout["func"][f]
    BY ONLY <1>1, <1>2, <2>1, Zenon
  <2> QED BY <2>2, <2>3
<1>4. /\ 1 \in 1 .. 5 /\ 2 \in 1 .. 5 /\ 3 \in 1 .. 5 /\ 4 \in 1 .. 5 /\ 5 \in 1 .. 5
  OBVIOUS
<1>5. /\ fields[1] \in Seq(Byte) /\ Len(fields[1]) = 4 /\ fields[2] \in Seq(Byte) /\ Len(fields[2]) = 1
      /\ fields[3] \in Seq(Byte) /\ Len(fields[3]) = 1 /\ fields[4] \in Seq(Byte) /\ Len(fields[4]) = 2
      /\ fields[5] \in Seq(Byte) /\ Len(fields[5]) = 4
  BY ONLY <1>1, <1>3, <1>4, Zenon
<1>6. Field(1) \in Nat /\ Field(5) \in Nat /\ put32(Field(1)) = fields[1] /\ put32(Field(5)) = fields[5]
  BY <1>5, Num4, Rewrite32 DEF Field
<1>7. Field(4) \in Nat /\ put16(Field(4)) = fields[4]
  BY <1>5, Num2, Rewrite16 DEF Field
<1>8. Field(2) \in Byte /\ Field(3) \in Byte
  BY <1>5, Num1 DEF Field
<1>9. Field(2) = fields[2][1] /\ Field(3) = fields[3][1]
  BY <1>5 DEF Field, Num
<1> QED BY <1>5, <1>6, <1>7, <1>8, <1>9

\* Where they lie.
LEMMA FuncRead ==
  ASSUME IInv, WrittenInv, Flagless, ~bad, Complete("func")
  PROVE  /\ Agrees(Written) /\ Len(Written) \in Nat /\ i = Len(Written) + 12
         /\ Lies(data, Len(Written), fields[1])
         /\ Lies(data, Len(Written) + 4, fields[2]) /\ Lies(data, Len(Written) + 5, fields[3])
         /\ Lies(data, Len(Written) + 6, fields[4]) /\ Lies(data, Len(Written) + 8, fields[5])
<1>1. "func" \in Records /\ phase = "func" /\ "func" \notin Payloads
  BY RecordNames DEF Payloads, Complete
<1>2. Base = Len(Written) /\ Len(Written) \in Nat
  BY <1>1, Places
<1>3. /\ Len(Layout["func"]) = 5 /\ StartAt["func"][1] = 0 /\ StartAt["func"][2] = 4
      /\ StartAt["func"][3] = 5 /\ StartAt["func"][4] = 6 /\ StartAt["func"][5] = 8
      /\ StartAt["func"][6] = 12
  BY DEF Layout, StartAt
<1>4. /\ i = Base + StartAt["func"][Len(Layout["func"]) + 1] /\ Agrees(Written)
      /\ \A f \in 1 .. Len(Layout["func"]) : Lies(data, Base + StartAt["func"][f], fields[f])
  BY <1>1, Completed
<1>5. Len(Layout["func"]) + 1 = 6 /\ \A f \in {1, 2, 3, 4, 5} : f \in 1 .. Len(Layout["func"])
  BY <1>3
<1>6. \A f \in {1, 2, 3, 4, 5} : Lies(data, Base + StartAt["func"][f], fields[f])
  BY <1>4, <1>5
<1>7. i = Len(Written) + 12
  <2>1. StartAt["func"][Len(Layout["func"]) + 1] = 12
    BY <1>3, <1>5
  <2> QED BY <1>2, <1>4, <2>1
<1>8. Base + 0 = Len(Written)
  BY <1>2
<1>9. Lies(data, Len(Written), fields[1])
  BY ONLY <1>3, <1>6, <1>8, Zenon
<1>10. /\ Lies(data, Len(Written) + 4, fields[2]) /\ Lies(data, Len(Written) + 5, fields[3])
       /\ Lies(data, Len(Written) + 6, fields[4]) /\ Lies(data, Len(Written) + 8, fields[5])
  BY ONLY <1>2, <1>3, <1>6, Zenon
<1> QED BY <1>2, <1>4, <1>7, <1>9, <1>10

LEMMA FuncWritten == ASSUME IInv, IInv', WrittenInv, Func PROVE WrittenInv'
<1>1. CASE Fail
  BY <1>1, WrittenFail
<1>2. CASE ~Fail
  <2> DEFINE n == Field(5)
             f == [name_const |-> Field(1), num_params |-> Field(2), num_regs |-> Field(3),
                   max_stack |-> Field(4), code |-> Peek(n)]
             w == Written
             u == FuncBytes(f)
  <2>1. /\ Complete("func") /\ ~bad /\ phase = "func" /\ i' = i + n /\ need(n)
        /\ funcs' = Append(funcs, f) /\ Goto("funcs") /\ UNCHANGED <<header, consts>>
    BY <1>2 DEF Func, Complete, AddFunc
  <2>2. /\ Field(1) \in Nat /\ Field(2) \in Byte /\ Field(3) \in Byte /\ Field(4) \in Nat /\ n \in Nat
        /\ put32(Field(1)) = fields[1] /\ put16(Field(4)) = fields[4] /\ put32(n) = fields[5]
        /\ Len(fields[2]) = 1 /\ fields[2][1] = Field(2)
        /\ Len(fields[3]) = 1 /\ fields[3][1] = Field(3)
    BY <2>1, FuncFields
  <2> HIDE DEF n
  <2>3. Lies(data, i, Peek(n)) /\ Peek(n) \in Seq(Byte) /\ Len(Peek(n)) = n
    BY <2>1, <2>2, PeekLies
  <2>4. /\ f \in Function /\ f.name_const = Field(1) /\ f.num_params = Field(2)
        /\ f.num_regs = Field(3) /\ f.max_stack = Field(4) /\ f.code = Peek(n)
    BY <2>2, <2>3 DEF Function
  <2> HIDE DEF f
  <2>5. u \in Seq(Nat) /\ Len(u) = 12 + n
    BY <2>3, <2>4, FuncLies
  <2>6. \A at \in Nat : Lies(data, at, u) <=>
          /\ Lies(data, at, fields[1]) /\ data[at + 5] = Field(2) /\ data[at + 6] = Field(3)
          /\ Lies(data, at + 6, fields[4]) /\ Lies(data, at + 8, fields[5])
          /\ Lies(data, at + 12, Peek(n))
    <3>1. \A at \in Nat : Lies(data, at, FuncBytes(f)) <=>
              /\ Lies(data, at, put32(f.name_const))
              /\ data[at + 5] = f.num_params /\ data[at + 6] = f.num_regs
              /\ Lies(data, at + 6, put16(f.max_stack)) /\ Lies(data, at + 8, put32(Len(f.code)))
              /\ Lies(data, at + 12, f.code)
      BY ONLY <2>4, FuncLies, Zenon
    <3> QED BY <2>2, <2>3, <2>4, <3>1
  <2> HIDE DEF u
  <2>7. w \in Seq(Nat) /\ Len(w) \in Nat
    BY Places
  <2>8. ASSUME Flagless PROVE Agrees(w \o u) /\ i' = Len(w) + Len(u)
    <3>1. /\ Agrees(w) /\ i = Len(w) + 12 /\ Lies(data, Len(w), fields[1])
          /\ Lies(data, Len(w) + 4, fields[2]) /\ Lies(data, Len(w) + 5, fields[3])
          /\ Lies(data, Len(w) + 6, fields[4]) /\ Lies(data, Len(w) + 8, fields[5])
      BY <2>1, <2>8, FuncRead
    <3> HIDE DEF w
    <3>2. data[Len(w) + 5] = Field(2) /\ data[Len(w) + 6] = Field(3)
      <4>1. data[Len(w) + 4 + 1] = fields[2][1] /\ data[Len(w) + 5 + 1] = fields[3][1]
        BY <2>2, <3>1 DEF Lies
      <4>2. Len(w) + 4 + 1 = Len(w) + 5 /\ Len(w) + 5 + 1 = Len(w) + 6
        BY <2>7
      <4> QED BY <2>2, <4>1, <4>2
    <3>3. Lies(data, Len(w) + 12, Peek(n))
      BY <2>3, <3>1
    <3>4. Lies(data, Len(w), u)
      BY <2>6, <2>7, <3>1, <3>2, <3>3
    <3> QED BY <2>1, <2>2, <2>5, <2>7, <3>1, <3>4, AgreesLies
  <2>9. Written' = w \o u
    <3>1. Written' = WholeOf(header.const_count, header.func_count, header.entry_func,
                             consts, Append(funcs, f))
      BY <2>1 DEF Written, Goto
    <3> QED BY <2>1, <2>4, <3>1, WholeFunc DEF u
  <2>10. "funcs" \in Records \cup {"consts", "funcs", "ok"} /\ "funcs" \notin Payloads
    BY DEF Payloads
  <2>11. Len(w \o u) = Len(w) + Len(u)
    BY <2>5, <2>7, Concat
  <2> DEFINE v == w \o u
  <2>12. Flagless => Agrees(v) /\ i' = Len(v)
    BY <2>8, <2>11
  <2>13. Written' = v
    BY <2>9
  <2> HIDE DEF v, w
  <2> QED BY <2>1, <2>10, <2>12, <2>13, Enters
<1> QED BY <1>1, <1>2

LEMMA WrittenNext == IInv /\ IInv' /\ WrittenInv /\ [Next]_vars => WrittenInv'
<1> SUFFICES ASSUME IInv, IInv', WrittenInv, [Next]_vars PROVE WrittenInv'
  OBVIOUS
<1>1. CASE ReadField
  BY <1>1, WrittenReadField
<1>2. CASE Magic \/ Version \/ Counts
  BY <1>2, MagicWritten, VersionWritten, CountsWritten
<1>3. CASE NextConst \/ NextFunc \/ Finish
  BY <1>3, NextWritten
<1>4. CASE Tag \/ Number("Int") \/ Number("Double") \/ Bool \/ Str
  BY <1>4, TagWritten, NumberWritten, BoolWritten, StrWritten
<1>5. CASE Func
  BY <1>5, FuncWritten
<1>6. CASE Done \/ UNCHANGED vars
  <2>1. UNCHANGED vars
    BY <1>6 DEF Done
  <2>2. UNCHANGED <<data, i, bad, phase, fields, header, consts, funcs>>
    BY <2>1 DEF vars
  <2>3. Written' = Written
    BY <2>2 DEF Written, WholeOf
  <2>4. Base' = Base /\ (Agrees(Written))' = Agrees(Written) /\ Flagless' = Flagless
    BY <2>2, <2>3 DEF Base, Agrees, Flagless
  <2>5. RecordRead' = RecordRead
    BY <2>2, <2>4 DEF RecordRead, Lies, StartAt
  <2> QED BY <2>2, <2>4, <2>5 DEF WrittenInv
<1> QED BY <1>1, <1>2, <1>3, <1>4, <1>5, <1>6 DEF Next

\* The bytes in hand are always those a serializer would have written of what has
\* been loaded.
LEMMA AlwaysWritten == Spec => []WrittenInv
<1>1. IInv /\ IInv' /\ WrittenInv /\ [Next]_vars => WrittenInv'
  BY WrittenNext
<1> QED BY <1>1, WrittenInit, Invariance, PTL DEF Spec

\* The serialization of what is loaded is what was written.
LEMMA LoadedWritten ==
  ASSUME IInv, phase = "ok"
  PROVE  serialize(Loaded) = Written
<1>1. Len(consts) = header.const_count /\ Len(funcs) = header.func_count
  BY DEF IInv, Progress
<1>2. Written = WholeOf(Len(consts), Len(funcs), header.entry_func, consts, funcs)
  BY <1>1 DEF Written
<1>3. Loaded.consts = consts /\ Loaded.funcs = funcs /\ Loaded.entry_func = header.entry_func
  BY DEF Loaded
<1> QED BY <1>2, <1>3 DEF serialize, WholeOf, HeaderOf, Consts, Funcs, Each

\* Whatever load_cbc accepts, well-formed or damaged, is what serialize gives for
\* the module it delivered, followed by bytes it never looked at: two inputs that
\* load as the same module differ at most in those, in the reserved flags and in
\* the nonzero bytes read as true.
THEOREM LoadedAsWritten == Spec => []Canonical
<1>1. ASSUME IInv, WrittenInv PROVE Canonical
  <2> SUFFICES ASSUME phase = "ok", data[7] = 0, data[8] = 0
               PROVE  /\ Len(Written) = i
                      /\ \A k \in 1 .. i : \/ Written[k] = data[k]
                                           \/ Written[k - 1] = 4 /\ Written[k] = 1 /\ data[k] # 0
    BY <1>1, LoadedWritten DEF Canonical
  <2>1. Flagless
    BY DEF Flagless
  <2>2. "ok" \notin Records /\ "ok" \notin Payloads
    BY RecordNames DEF Payloads
  <2>3. ~bad /\ Agrees(Written) /\ i = Base /\ Base = Len(Written)
    BY <1>1, <2>1, <2>2, Places DEF WrittenInv
  <2> QED BY <2>3 DEF Agrees
<1> QED BY <1>1, AlwaysWritten, Invariance, PTL


-----------------------------------------------------------------------------
(***************************************************************************)
(* FollowsInv: an input that begins what was written of a module is read   *)
(* as that module says.                                                    *)
(***************************************************************************)

LEMMA BeginsBehind ==
  ASSUME NEW h \in Seq(Nat), NEW a \in Seq(Nat), NEW b \in Seq(Nat), Begins(a, b)
  PROVE  Begins(h \o a, h \o b)
<1>1. /\ h \o a \in Seq(Nat) /\ Len(h \o a) = Len(h) + Len(a)
      /\ \A k \in 1 .. Len(h) : (h \o a)[k] = h[k]
      /\ \A k \in 1 .. Len(a) : (h \o a)[Len(h) + k] = a[k]
  BY Concat
<1>2. /\ h \o b \in Seq(Nat) /\ Len(h \o b) = Len(h) + Len(b)
      /\ \A k \in 1 .. Len(h) : (h \o b)[k] = h[k]
      /\ \A k \in 1 .. Len(b) : (h \o b)[Len(h) + k] = b[k]
  BY Concat
<1> DEFINE u == h \o a
           v == h \o b
<1>3. Len(h) \in Nat /\ Len(a) \in Nat /\ Len(b) \in Nat /\ Len(a) <= Len(b)
  BY DEF Begins
<1> HIDE DEF u, v
<1>4. ASSUME NEW k \in 1 .. Len(h) + Len(a) PROVE u[k] = v[k]
  <2>1. CASE k \in 1 .. Len(h)
    BY <1>1, <1>2, <2>1 DEF u, v
  <2>2. CASE k \notin 1 .. Len(h)
    <3>1. PICK j \in 1 .. Len(a) : k = Len(h) + j
      <4>1. k - Len(h) \in 1 .. Len(a) /\ k = Len(h) + (k - Len(h))
        BY <1>3, <2>2
      <4> QED BY <4>1
    <3>2. j \in 1 .. Len(b) /\ a[j] = b[j]
      BY <1>3, <3>1 DEF Begins
    <3>3. u[Len(h) + j] = a[j] /\ v[Len(h) + j] = b[j]
      BY <1>1, <1>2, <3>1, <3>2 DEF u, v
    <3> QED BY <3>1, <3>2, <3>3
  <2> QED BY <2>1, <2>2
<1>5. Len(u) = Len(h) + Len(a) /\ Len(u) <= Len(v)
  BY <1>1, <1>2, <1>3 DEF u, v
<1> QED BY <1>4, <1>5 DEF Begins, u, v

LEMMA BeginsLonger ==
  ASSUME NEW a \in Seq(Nat), NEW b \in Seq(Nat), NEW c \in Seq(Nat), Begins(a, b)
  PROVE  Begins(a, b \o c)
BY Concat DEF Begins

\* What lies behind a beginning lies in the whole.
LEMMA BeginsLies ==
  ASSUME NEW w \in Seq(Nat), NEW u \in Seq(Nat), NEW d, Begins(w \o u, d)
  PROVE  Lies(d, Len(w), u) /\ Len(w) + Len(u) <= Len(d)
<1> DEFINE v == w \o u
<1>1. /\ Len(v) = Len(w) + Len(u) /\ \A k \in 1 .. Len(u) : v[Len(w) + k] = u[k]
      /\ Len(w) \in Nat /\ Len(u) \in Nat
  BY Concat
<1> HIDE DEF v
<1>2. ASSUME NEW k \in 1 .. Len(u) PROVE d[Len(w) + k] = u[k]
  <2>1. Len(w) + k \in 1 .. Len(v)
    BY <1>1
  <2>2. v[Len(w) + k] = d[Len(w) + k]
    BY <2>1 DEF Begins, v
  <2> QED BY <1>1, <2>2
<1>3. Len(v) <= Len(d)
  BY DEF Begins, v
<1> QED BY <1>1, <1>2, <1>3 DEF Lies

\* As many bytes as elements, at least.
LEMMA FlatLong ==
  ASSUME NEW t \in Seq(Seq(Nat)), \A k \in 1 .. Len(t) : Len(t[k]) >= 1
  PROVE  Len(FlattenSeq(t)) >= Len(t)
<1> DEFINE S == {k \in Nat : k <= Len(t) => Len(FlattenSeq(SubSeq(t, 1, k))) >= k}
<1>1. 0 \in S
  <2>1. SubSeq(t, 1, 0) = <<>>
    OBVIOUS
  <2>2. <<>> \in Seq(Nat) /\ Len(<<>>) = 0
    OBVIOUS
  <2>3. Len(FlattenSeq(SubSeq(t, 1, 0))) = 0
    BY ONLY <2>1, <2>2, FlatEmpty, Zenon
  <2> QED BY <2>3
<1>2. ASSUME NEW k \in Nat, k \in S PROVE k + 1 \in S
  <2> SUFFICES ASSUME k + 1 <= Len(t) PROVE Len(FlattenSeq(SubSeq(t, 1, k + 1))) >= k + 1
    OBVIOUS
  <2>1. k \in 0 .. Len(t) - 1 /\ t[k + 1] \in Seq(Nat) /\ Len(t[k + 1]) >= 1 /\ k \in 0 .. Len(t)
    OBVIOUS
  <2> DEFINE a == FlattenSeq(SubSeq(t, 1, k))
  <2>2. Len(a) >= k
    BY <1>2, <2>1
  <2>3. a \in Seq(Nat)
    BY <2>1, Upto, FlatType
  <2>4. FlattenSeq(SubSeq(t, 1, k + 1)) = a \o t[k + 1]
    BY <2>1, FlatUpto
  <2> HIDE DEF a
  <2>5. Len(a \o t[k + 1]) = Len(a) + Len(t[k + 1]) /\ Len(a) \in Nat /\ Len(t[k + 1]) \in Nat
    BY <2>1, <2>3, Concat
  <2> QED BY <2>1, <2>2, <2>4, <2>5
<1>3. \A k \in Nat : k \in S
  <2> HIDE DEF S
  <2> QED BY <1>1, <1>2, Induct
<1>4. Len(t) \in Nat /\ SubSeq(t, 1, Len(t)) = t
  OBVIOUS
<1>5. Len(FlattenSeq(SubSeq(t, 1, Len(t)))) >= Len(t)
  BY <1>3, <1>4
<1> QED BY <1>4, <1>5

\* The next constant's bytes are where those before it end; no constant is written
\* as nothing.
LEMMA ConstsHold ==
  ASSUME NEW s \in Seq(Constant)
  PROVE  /\ Len(Consts(s)) >= Len(s)
         /\ \A n \in 0 .. Len(s) - 1 :
              Begins(Consts(SubSeq(s, 1, n)) \o ConstBytes(s[n + 1]), Consts(s))
<1> DEFINE t == [k \in DOMAIN s |-> ConstBytes(s[k])]
<1>1. \A k \in 1 .. Len(s) : s[k] \in Constant /\ ConstBytes(s[k]) \in Seq(Nat)
  BY ConstLies
<1>2. DOMAIN s = 1 .. Len(s) /\ Len(s) \in Nat
  OBVIOUS
<1>3. t \in Seq(Seq(Nat)) /\ Len(t) = Len(s) /\ \A k \in 1 .. Len(s) : t[k] = ConstBytes(s[k])
  BY <1>1, <1>2
<1>4. Consts(s) = FlattenSeq(t)
  BY DEF Consts, Each
<1>5. ASSUME NEW k \in 1 .. Len(s) PROVE Len(t[k]) >= 1
  <2>1. Len(s[k].payload) \in Nat
    BY <1>1 DEF Constant
  <2>2. Len(ConstBytes(s[k])) \in {1 + Len(s[k].payload), 5 + Len(s[k].payload)}
    BY <1>1, ConstLies
  <2>3. t[k] = ConstBytes(s[k])
    BY <1>3
  <2> HIDE DEF t
  <2> QED BY <2>1, <2>2, <2>3
<1>6. ASSUME NEW n \in 0 .. Len(s) - 1
      PROVE  /\ Consts(SubSeq(s, 1, n)) = FlattenSeq(SubSeq(t, 1, n))
             /\ ConstBytes(s[n + 1]) = t[n + 1]
  <2> DEFINE u == SubSeq(s, 1, n)
             v == [k \in DOMAIN u |-> ConstBytes(u[k])]
  <2>1. n \in 0 .. Len(s) /\ n + 1 \in 1 .. Len(s) /\ \A k \in 1 .. n : k \in 1 .. Len(s)
    BY <1>2
  <2>2. u \in Seq(Constant) /\ Len(u) = n /\ \A k \in 1 .. n : u[k] = s[k]
    BY <2>1, Upto
  <2> HIDE DEF u
  <2>3. DOMAIN u = 1 .. n
    BY <2>2
  <2>4. v \in Seq(Seq(Nat)) /\ Len(v) = n /\ \A k \in 1 .. n : v[k] = ConstBytes(s[k])
    <3>1. \A k \in 1 .. n : ConstBytes(u[k]) \in Seq(Nat) /\ u[k] = s[k]
      BY <1>1, <2>1, <2>2
    <3>2. n \in Nat /\ v = [k \in 1 .. n |-> ConstBytes(u[k])]
      BY <2>1, <2>3
    <3>3. v \in [1 .. n -> Seq(Nat)]
      BY <3>1, <3>2
    <3>4. \A k \in 1 .. n : v[k] = ConstBytes(s[k])
      BY <3>1, <3>2
    <3> HIDE DEF v
    <3>5. v \in Seq(Seq(Nat)) /\ Len(v) = n
      BY ONLY <3>2, <3>3, AsSequence
    <3> QED BY <3>4, <3>5
  <2> HIDE DEF v, t
  <2>5. /\ SubSeq(t, 1, n) \in Seq(Seq(Nat)) /\ Len(SubSeq(t, 1, n)) = n
        /\ \A k \in 1 .. n : SubSeq(t, 1, n)[k] = t[k]
    BY <1>3, <2>1, Upto
  <2> DEFINE w == SubSeq(t, 1, n)
  <2>6. w \in Seq(Seq(Nat)) /\ Len(w) = n /\ \A k \in 1 .. n : w[k] = v[k]
    BY <1>3, <2>1, <2>4, <2>5
  <2> HIDE DEF w
  <2>7. v = w
    BY <2>4, <2>6
  <2> QED BY <1>3, <2>1, <2>7 DEF Consts, Each, u, v, w
<1> HIDE DEF t
<1>7. Len(FlattenSeq(t)) >= Len(t)
  BY <1>3, <1>5, FlatLong
<1>8. \A n \in 0 .. Len(s) - 1 : Begins(FlattenSeq(SubSeq(t, 1, n)) \o t[n + 1], FlattenSeq(t))
  BY <1>3, FlatHolds
<1> QED BY <1>3, <1>4, <1>6, <1>7, <1>8

LEMMA FuncsHold ==
  ASSUME NEW s \in Seq(Function)
  PROVE  /\ Len(Funcs(s)) >= Len(s)
         /\ \A n \in 0 .. Len(s) - 1 :
              Begins(Funcs(SubSeq(s, 1, n)) \o FuncBytes(s[n + 1]), Funcs(s))
<1> DEFINE t == [k \in DOMAIN s |-> FuncBytes(s[k])]
<1>1. \A k \in 1 .. Len(s) : s[k] \in Function /\ FuncBytes(s[k]) \in Seq(Nat)
  BY FuncLies
<1>2. DOMAIN s = 1 .. Len(s) /\ Len(s) \in Nat
  OBVIOUS
<1>3. t \in Seq(Seq(Nat)) /\ Len(t) = Len(s) /\ \A k \in 1 .. Len(s) : t[k] = FuncBytes(s[k])
  BY <1>1, <1>2
<1>4. Funcs(s) = FlattenSeq(t)
  BY DEF Funcs, Each
<1>5. ASSUME NEW k \in 1 .. Len(s) PROVE Len(t[k]) >= 1
  <2>1. Len(s[k].code) \in Nat
    BY <1>1 DEF Function
  <2>2. Len(FuncBytes(s[k])) = 12 + Len(s[k].code)
    BY <1>1, FuncLies
  <2>3. t[k] = FuncBytes(s[k])
    BY <1>3
  <2> HIDE DEF t
  <2> QED BY <2>1, <2>2, <2>3
<1>6. ASSUME NEW n \in 0 .. Len(s) - 1
      PROVE  /\ Funcs(SubSeq(s, 1, n)) = FlattenSeq(SubSeq(t, 1, n))
             /\ FuncBytes(s[n + 1]) = t[n + 1]
  <2> DEFINE u == SubSeq(s, 1, n)
             v == [k \in DOMAIN u |-> FuncBytes(u[k])]
  <2>1. n \in 0 .. Len(s) /\ n + 1 \in 1 .. Len(s) /\ \A k \in 1 .. n : k \in 1 .. Len(s)
    BY <1>2
  <2>2. u \in Seq(Function) /\ Len(u) = n /\ \A k \in 1 .. n : u[k] = s[k]
    BY <2>1, Upto
  <2> HIDE DEF u
  <2>3. DOMAIN u = 1 .. n
    BY <2>2
  <2>4. v \in Seq(Seq(Nat)) /\ Len(v) = n /\ \A k \in 1 .. n : v[k] = FuncBytes(s[k])
    <3>1. \A k \in 1 .. n : FuncBytes(u[k]) \in Seq(Nat) /\ u[k] = s[k]
      BY <1>1, <2>1, <2>2
    <3> QED BY <2>1, <2>3, <3>1
  <2> HIDE DEF v, t
  <2>5. /\ SubSeq(t, 1, n) \in Seq(Seq(Nat)) /\ Len(SubSeq(t, 1, n)) = n
        /\ \A k \in 1 .. n : SubSeq(t, 1, n)[k] = t[k]
    BY <1>3, <2>1, Upto
  <2> DEFINE w == SubSeq(t, 1, n)
  <2>6. w \in Seq(Seq(Nat)) /\ Len(w) = n /\ \A k \in 1 .. n : w[k] = v[k]
    BY <1>3, <2>1, <2>4, <2>5
  <2> HIDE DEF w
  <2>7. v = w
    BY <2>4, <2>6
  <2> QED BY <1>3, <2>1, <2>7 DEF Funcs, Each, u, v, w
<1> HIDE DEF t
<1>7. Len(FlattenSeq(t)) >= Len(t)
  BY <1>3, <1>5, FlatLong
<1>8. \A n \in 0 .. Len(s) - 1 : Begins(FlattenSeq(SubSeq(t, 1, n)) \o t[n + 1], FlattenSeq(t))
  BY <1>3, FlatHolds
<1> QED BY <1>3, <1>4, <1>6, <1>7, <1>8

LEMMA Fits == ASSUME NEW n \in Nat, Fits32(n) PROVE n < 65536 * 65536
BY DEF Fits32

\* What a module's bytes are.
LEMMA ModuleBytes ==
  ASSUME NEW m \in Modules
  PROVE  /\ m.consts \in Seq(Constant) /\ m.funcs \in Seq(Function) /\ m.entry_func \in Nat
         /\ Len(m.consts) \in Nat /\ Len(m.funcs) \in Nat
         /\ serialize(m) = WholeOf(Len(m.consts), Len(m.funcs), m.entry_func, m.consts, m.funcs)
         /\ serialize(m) \in Seq(Nat)
<1>1. m \in [consts : Seq(Constant), funcs : Seq(Function), entry_func : Nat]
  BY ModulesAssumption DEF Serializable
<1>2. m.consts \in Seq(Constant) /\ m.funcs \in Seq(Function) /\ m.entry_func \in Nat
  BY <1>1
<1>3. Len(m.consts) \in Nat /\ Len(m.funcs) \in Nat
  BY <1>2
<1>4. serialize(m) = WholeOf(Len(m.consts), Len(m.funcs), m.entry_func, m.consts, m.funcs)
  BY DEF serialize, WholeOf, HeaderOf, Consts, Funcs, Each
<1>5. WholeOf(Len(m.consts), Len(m.funcs), m.entry_func, m.consts, m.funcs) \in Seq(Nat)
  BY <1>2, <1>3, WholeType
<1> QED BY <1>2, <1>3, <1>4, <1>5

\* The header lies in front, and the tables are at least as long as their counts.
LEMMA ModuleHeader ==
  ASSUME NEW m \in Modules
  PROVE  LET d == serialize(m) IN
         /\ Lies(d, 0, Magics) /\ Lies(d, 4, put16(1)) /\ Lies(d, 6, put16(0))
         /\ Lies(d, 8, put32(Len(m.consts))) /\ Lies(d, 12, put32(Len(m.funcs)))
         /\ Lies(d, 16, put32(m.entry_func))
         /\ Len(d) >= 20 + Len(m.consts) /\ Len(d) >= 20 + Len(m.funcs) /\ Len(d) \in Nat
<1> DEFINE x == Len(m.consts)
           y == Len(m.funcs)
           z == m.entry_func
           h == HeaderOf(x, y, z)
           c == Consts(m.consts)
           f == Funcs(m.funcs)
           d == serialize(m)
<1>1. x \in Nat /\ y \in Nat /\ z \in Nat /\ m.consts \in Seq(Constant) /\ m.funcs \in Seq(Function)
      /\ d = (h \o c) \o f
  BY ModuleBytes DEF WholeOf
<1>2. Len(c) >= x /\ Len(f) >= y /\ c \in Seq(Nat) /\ f \in Seq(Nat)
  BY <1>1, ConstsHold, FuncsHold, EachType
<1> HIDE DEF x, y, z, c, f, d
<1>3. /\ h \in Seq(Nat) /\ Len(h) = 20
      /\ \A e : Lies(e, 0, h) <=>
                   /\ Lies(e, 0, Magics) /\ Lies(e, 4, put16(1)) /\ Lies(e, 6, put16(0))
                   /\ Lies(e, 8, put32(x)) /\ Lies(e, 12, put32(y)) /\ Lies(e, 16, put32(z))
  <2>1. h \in Seq(Nat) /\ Len(h) = 20
    BY <1>1, HeadLies
  <2>2. ASSUME NEW e
        PROVE  Lies(e, 0, h) <=>
                   /\ Lies(e, 0, Magics) /\ Lies(e, 0 + 4, put16(1)) /\ Lies(e, 0 + 6, put16(0))
                   /\ Lies(e, 0 + 8, put32(x)) /\ Lies(e, 0 + 12, put32(y))
                   /\ Lies(e, 0 + 16, put32(z))
    BY <1>1, HeadLies
  <2>3. 0 + 4 = 4 /\ 0 + 6 = 6 /\ 0 + 8 = 8 /\ 0 + 12 = 12 /\ 0 + 16 = 16
    OBVIOUS
  <2> QED BY ONLY <2>1, <2>2, <2>3, Zenon
<1> HIDE DEF h
<1>4. Lies((h \o c) \o f, 0, h) /\ Len((h \o c) \o f) = 20 + Len(c) + Len(f)
  <2> DEFINE u == h \o c
  <2>1. u \in Seq(Nat) /\ Len(u) = 20 + Len(c) /\ \A k \in 1 .. Len(h) : u[k] = h[k]
    <3>1. u \in Seq(Nat) /\ Len(u) = Len(h) + Len(c) /\ \A k \in 1 .. Len(h) : u[k] = h[k]
      BY <1>2, <1>3, Concat
    <3> HIDE DEF u
    <3> QED BY <1>3, <3>1
  <2> HIDE DEF u
  <2>2. Len(u \o f) = Len(u) + Len(f) /\ \A k \in 1 .. Len(u) : (u \o f)[k] = u[k]
    BY <1>2, <2>1, Concat
  <2>3. Len(c) \in Nat /\ Len(f) \in Nat
    BY <1>2
  <2>4. \A k \in 1 .. Len(h) : k \in 1 .. Len(u) /\ 0 + k = k
    BY <1>3, <2>1, <2>3
  <2>5. Lies(u \o f, 0, h)
    BY <2>1, <2>2, <2>4 DEF Lies
  <2> QED BY <2>1, <2>2, <2>5 DEF u
<1>5. Len(c) \in Nat /\ Len(f) \in Nat /\ Len(d) = 20 + Len(c) + Len(f) /\ Lies(d, 0, h)
  BY <1>1, <1>2, <1>4
<1>6. /\ Lies(d, 0, Magics) /\ Lies(d, 4, put16(1)) /\ Lies(d, 6, put16(0))
      /\ Lies(d, 8, put32(x)) /\ Lies(d, 12, put32(y)) /\ Lies(d, 16, put32(z))
  BY <1>3, <1>5
<1>7. Len(d) >= 20 + x /\ Len(d) >= 20 + y /\ Len(d) \in Nat
  BY <1>1, <1>2, <1>5
<1> QED BY ONLY <1>6, <1>7, Zenon DEF x, y, z, d

\* Which sequence begins another, and so which tables have been read.
LEMMA BeginsSub ==
  ASSUME NEW S, NEW a \in Seq(S), NEW b \in Seq(S), Begins(a, b)
  PROVE  /\ Len(a) \in 0 .. Len(b) /\ a = SubSeq(b, 1, Len(a))
         /\ Len(a) = Len(b) => a = b
<1>1. Len(a) \in 0 .. Len(b) /\ \A k \in 1 .. Len(a) : a[k] = b[k]
  BY DEF Begins
<1> DEFINE c == SubSeq(b, 1, Len(a))
<1>2. c \in Seq(S) /\ Len(c) = Len(a) /\ \A k \in 1 .. Len(a) : c[k] = b[k]
  BY <1>1, Upto
<1> HIDE DEF c
<1>3. a = c
  BY <1>1, <1>2
<1>4. Len(a) = Len(b) => a = b
  BY <1>1
<1> QED BY <1>1, <1>3, <1>4 DEF c

\* The table of the module m, as far as it is loaded.
Underway(m) ==
  /\ header = [const_count |-> Len(m.consts), func_count |-> Len(m.funcs),
               entry_func |-> m.entry_func]
  /\ Begins(consts, m.consts) /\ Begins(funcs, m.funcs)
  /\ phase \notin {"magic", "version", "counts"}

\* The constant being read.
LEMMA ConstPlace ==
  ASSUME IInv, NEW m \in Modules, Underway(m), phase \in {"tag", "Int", "Double", "Str", "Bool"}
  PROVE  LET n == Len(consts)
             c == m.consts[n + 1]
         IN /\ n \in Nat /\ n < Len(m.consts) /\ c \in Constant
            /\ Begins(Written \o ConstBytes(c), serialize(m))
<1> DEFINE x == Len(m.consts)
           y == Len(m.funcs)
           z == m.entry_func
           h == HeaderOf(x, y, z)
           n == Len(consts)
           c == m.consts[n + 1]
           a == Consts(consts)
           e == Consts(m.consts)
           f == Funcs(m.funcs)
           b == ConstBytes(c)
<1>1. /\ x \in Nat /\ y \in Nat /\ z \in Nat /\ m.consts \in Seq(Constant) /\ m.funcs \in Seq(Function)
      /\ serialize(m) = (h \o e) \o f
  BY ModuleBytes DEF WholeOf
<1>2. /\ consts \in Seq(Constant) /\ funcs = <<>> /\ n \in Nat /\ n < x
      /\ header.const_count = x /\ header.func_count = y /\ header.entry_func = z
  BY DEF IInv, TypeOK, Progress, Underway
<1>3. n \in 0 .. x - 1 /\ c \in Constant
  BY <1>1, <1>2
<1>4. consts = SubSeq(m.consts, 1, n)
  BY <1>1, <1>2, BeginsSub DEF Underway
<1>5. Begins(a \o b, e)
  <2>1. Begins(Consts(SubSeq(m.consts, 1, n)) \o b, e)
    BY <1>1, <1>3, ConstsHold
  <2> QED BY <1>4, <2>1
<1>6. Written = (h \o a) \o <<>>
  BY <1>2, WrittenWhole, EachType DEF WholeOf
<1>7. h \in Seq(Nat) /\ a \in Seq(Nat) /\ b \in Seq(Nat) /\ e \in Seq(Nat) /\ f \in Seq(Nat)
  BY <1>1, <1>2, <1>3, HeadLies, EachType, ConstLies
<1> HIDE DEF h, a, b, e, f
<1>8. h \o a \in Seq(Nat) /\ a \o b \in Seq(Nat) /\ h \o e \in Seq(Nat) /\ h \o (a \o b) \in Seq(Nat)
  <2>1. h \o a \in Seq(Nat) /\ a \o b \in Seq(Nat) /\ h \o e \in Seq(Nat)
    BY <1>7, Concat
  <2> DEFINE u == a \o b
  <2>2. u \in Seq(Nat)
    BY <2>1
  <2> HIDE DEF u
  <2>3. h \o u \in Seq(Nat)
    BY <1>7, <2>2, Concat
  <2> QED BY <2>1, <2>3 DEF u
<1>9. Begins(h \o (a \o b), h \o e)
  BY <1>5, <1>7, <1>8, BeginsBehind, Zenon
<1>10. Begins(h \o (a \o b), (h \o e) \o f)
  BY <1>7, <1>8, <1>9, BeginsLonger, Zenon
<1>11. h \o (a \o b) = Written \o b
  <2>1. h \o (a \o b) = (h \o a) \o b
    BY <1>7, ConcatTwice, Zenon
  <2>2. (h \o a) \o <<>> = h \o a
    BY <1>8, ConcatEmpty, Zenon
  <2> QED BY <1>6, <2>1, <2>2
<1> QED BY <1>1, <1>2, <1>3, <1>10, <1>11 DEF b

\* The function being read: all constants are.
LEMMA FuncPlace ==
  ASSUME IInv, NEW m \in Modules, Underway(m), phase = "func"
  PROVE  LET n == Len(funcs)
             c == m.funcs[n + 1]
         IN /\ n \in Nat /\ n < Len(m.funcs) /\ c \in Function /\ consts = m.consts
            /\ Begins(Written \o FuncBytes(c), serialize(m))
<1> DEFINE x == Len(m.consts)
           y == Len(m.funcs)
           z == m.entry_func
           h == HeaderOf(x, y, z) \o Consts(m.consts)
           n == Len(funcs)
           c == m.funcs[n + 1]
           a == Funcs(funcs)
           e == Funcs(m.funcs)
           b == FuncBytes(c)
<1>1. /\ x \in Nat /\ y \in Nat /\ z \in Nat /\ m.consts \in Seq(Constant) /\ m.funcs \in Seq(Function)
      /\ serialize(m) = h \o e
  BY ModuleBytes DEF WholeOf
<1>2. /\ consts \in Seq(Constant) /\ funcs \in Seq(Function) /\ n \in Nat /\ n < y
      /\ Len(consts) = x
      /\ header.const_count = x /\ header.func_count = y /\ header.entry_func = z
  BY DEF IInv, TypeOK, Progress, Underway
<1>3. n \in 0 .. y - 1 /\ c \in Function
  BY <1>1, <1>2
<1>4. funcs = SubSeq(m.funcs, 1, n)
  BY <1>1, <1>2, BeginsSub DEF Underway
<1>c. consts = m.consts
  BY <1>1, <1>2, BeginsSub DEF Underway
<1>5. Begins(a \o b, e)
  <2>1. Begins(Funcs(SubSeq(m.funcs, 1, n)) \o b, e)
    BY <1>1, <1>3, FuncsHold
  <2> QED BY <1>4, <2>1
<1>6. Written = h \o a
  BY <1>2, <1>c, WrittenWhole DEF WholeOf
<1>7. h \in Seq(Nat) /\ a \in Seq(Nat) /\ b \in Seq(Nat) /\ e \in Seq(Nat)
  <2>1. HeaderOf(x, y, z) \in Seq(Nat) /\ Consts(m.consts) \in Seq(Nat)
    BY <1>1, HeadLies, EachType
  <2>2. h \in Seq(Nat)
    BY <2>1, Concat
  <2> QED BY <1>1, <1>2, <1>3, <2>2, EachType, FuncLies
<1> HIDE DEF h, a, b, e
<1>8. a \o b \in Seq(Nat)
  BY <1>7, Concat
<1>9. Begins(h \o (a \o b), h \o e)
  BY <1>5, <1>7, <1>8, BeginsBehind, Zenon
<1>11. h \o (a \o b) = Written \o b
  <2>1. h \o (a \o b) = (h \o a) \o b
    BY <1>7, ConcatTwice, Zenon
  <2> QED BY <1>6, <2>1
<1> QED BY <1>1, <1>2, <1>3, <1>c, <1>9, <1>11 DEF b

\* An input that begins a module's bytes is read as they say.
Follows(m) ==
  /\ phase = "err" \/ bad => Len(data) < Len(serialize(m))
  /\ phase \notin {"magic", "version", "counts", "err"} /\ ~bad =>
       /\ Underway(m)
       /\ phase \in Payloads => m.consts[Len(consts) + 1].tag = phase

FollowsInv == \A m \in Modules : Begins(data, serialize(m)) => Follows(m)

LEMMA StartsUp ==
  ASSUME NEW p \in Records, NEW f \in 1 .. Len(Layout[p])
  PROVE  /\ StartAt[p][f] \in Nat /\ StartAt[p][Len(Layout[p]) + 1] \in Nat /\ Layout[p][f] \in Nat
         /\ StartAt[p][f] + Layout[p][f] <= StartAt[p][Len(Layout[p]) + 1]
<1>1. CASE p = "magic"
  <2>1. f = 1 \/ f = 2 \/ f = 3 \/ f = 4
    BY <1>1 DEF Layout
  <2> QED BY <1>1, <2>1 DEF Layout, StartAt
<1>2. CASE p = "version"
  <2>1. f = 1 \/ f = 2
    BY <1>2 DEF Layout
  <2> QED BY <1>2, <2>1 DEF Layout, StartAt
<1>3. CASE p = "counts"
  <2>1. f = 1 \/ f = 2 \/ f = 3
    BY <1>3 DEF Layout
  <2> QED BY <1>3, <2>1 DEF Layout, StartAt
<1>4. CASE p \in {"tag", "Int", "Double", "Str", "Bool"}
  <2>1. f = 1
    BY <1>4 DEF Layout
  <2> QED BY <1>4, <2>1 DEF Layout, StartAt
<1>5. CASE p = "func"
  <2>1. f = 1 \/ f = 2 \/ f = 3 \/ f = 4 \/ f = 5
    BY <1>5 DEF Layout
  <2> QED BY <1>5, <2>1 DEF Layout, StartAt
<1> QED BY <1>1, <1>2, <1>3, <1>4, <1>5, RecordNames

\* Bytes of the input are those of what it begins.
LEMMA SameBytes ==
  ASSUME NEW d, Begins(data, d), NEW at \in Nat, NEW s \in Seq(Nat), NEW t \in Seq(Nat),
         Len(s) = Len(t), Lies(data, at, s), Lies(d, at, t), at + Len(s) <= Len(data)
  PROVE  s = t
<1>1. ASSUME NEW k \in 1 .. Len(s) PROVE s[k] = t[k]
  <2>1. at + k \in 1 .. Len(data)
    OBVIOUS
  <2>2. data[at + k] = s[k] /\ d[at + k] = t[k]
    BY DEF Lies
  <2> QED BY <2>1, <2>2 DEF Begins
<1>2. s \in Seq(Nat) /\ t \in Seq(Nat) /\ Len(s) = Len(t) /\ \A k \in 1 .. Len(s) : s[k] = t[k]
  BY <1>1
<1> QED BY ONLY <1>2, SameElements, Zenon

LEMMA BeginsFlagless ==
  ASSUME IInv, NEW m \in Modules, Begins(data, serialize(m)) PROVE Flagless
<1>1. Lies(serialize(m), 6, put16(0))
  BY ModuleHeader
<1>2. put16(0) = <<0, 0>>
  BY DEF put16
<1>3. serialize(m)[7] = 0 /\ serialize(m)[8] = 0
  <2> DEFINE d == serialize(m)
  <2> HIDE DEF d
  <2>1. Lies(d, 6, <<0, 0>>)
    BY <1>1, <1>2 DEF d
  <2>2. d[6 + 1] = 0 /\ d[6 + 2] = 0
    BY <2>1 DEF Lies
  <2> QED BY <2>2 DEF d
<1>4. ASSUME NEW k \in {7, 8}, k <= Len(data) PROVE data[k] = serialize(m)[k]
  <2>1. data \in Seq(Byte)
    BY DEF IInv, TypeOK
  <2>2. k \in 1 .. Len(data)
    BY <1>4, <2>1
  <2> QED BY <2>2 DEF Begins
<1> QED BY <1>3, <1>4 DEF Flagless

\* A field that was read is the one that was written there.
LEMMA FieldIs ==
  ASSUME IInv, WrittenInv, ~bad, NEW m \in Modules, Begins(data, serialize(m)),
         NEW p \in Records, Complete(p), NEW f \in 1 .. Len(Layout[p]),
         NEW s \in Seq(Nat), Len(s) = Layout[p][f], Lies(serialize(m), Base + StartAt[p][f], s)
  PROVE  fields[f] = s
<1>1. /\ i = Base + StartAt[p][Len(Layout[p]) + 1]
      /\ fields[f] \in Seq(Byte) /\ Len(fields[f]) = Layout[p][f]
      /\ Lies(data, Base + StartAt[p][f], fields[f])
  BY BeginsFlagless, Completed
<1>2. /\ StartAt[p][f] \in Nat /\ StartAt[p][Len(Layout[p]) + 1] \in Nat /\ Layout[p][f] \in Nat
      /\ StartAt[p][f] + Layout[p][f] <= StartAt[p][Len(Layout[p]) + 1]
  BY StartsUp
<1>3. Base \in Nat /\ i <= Len(data) /\ data \in Seq(Byte)
  BY Places DEF IInv, TypeOK, CursorInBounds
<1> DEFINE a == StartAt[p][f]
           e == StartAt[p][Len(Layout[p]) + 1]
           l == Layout[p][f]
           r == fields[f]
<1>4. /\ i = Base + e /\ Len(r) = l /\ Len(s) = l /\ Lies(data, Base + a, r)
      /\ Lies(serialize(m), Base + a, s) /\ a \in Nat /\ e \in Nat /\ l \in Nat /\ a + l <= e
  BY <1>1, <1>2
<1>5. r \in Seq(Nat)
  BY <1>1, NatBytes
<1> HIDE DEF a, e, l, r
<1>6. Base + a \in Nat /\ Base + a + Len(r) <= Len(data)
  BY <1>3, <1>4
<1> DEFINE at == Base + a
<1>7. at \in Nat /\ at + Len(r) <= Len(data) /\ Lies(data, at, r) /\ Lies(serialize(m), at, s)
  BY <1>4, <1>6
<1> HIDE DEF at
<1>8. r = s
  BY <1>4, <1>5, <1>7, SameBytes
<1> QED BY <1>8 DEF r

LEMMA Refused ==
  ASSUME NEW m \in Modules, Fail, Len(data) < Len(serialize(m)) PROVE Follows(m)'
<1>1. phase' = "err" /\ data' = data
  BY DEF Fail, Goto
<1>2. serialize(m)' = serialize(m)
  BY DEF serialize, Each
<1> QED BY <1>1, <1>2 DEF Follows

LEMMA GoesOn ==
  ASSUME NEW m \in Modules, ~bad, NEW p, p # "err", Goto(p),
         p \notin {"magic", "version", "counts"} =>
           /\ header' = [const_count |-> Len(m.consts), func_count |-> Len(m.funcs),
                         entry_func |-> m.entry_func]
           /\ Begins(consts', m.consts) /\ Begins(funcs', m.funcs)
           /\ p \in Payloads => m.consts[Len(consts') + 1].tag = p
  PROVE  Follows(m)'
<1>1. phase' = p /\ ~bad'
  BY DEF Goto
<1>2. \A a, b : Begins(a, b)' <=> Begins(a, b)
  BY DEF Begins
<1>3. p \notin {"magic", "version", "counts"} => Underway(m)'
  BY <1>1 DEF Underway, Begins
<1> QED BY <1>1, <1>3 DEF Follows, Payloads

\* The payload lengths of a module's constants.
LEMMA PayloadLengths ==
  ASSUME NEW m \in Modules, NEW k \in 1 .. Len(m.consts)
  PROVE  /\ m.consts[k] \in Constant
         /\ m.consts[k].tag \in {"Int", "Double"} => Len(m.consts[k].payload) = 8
         /\ m.consts[k].tag = "Str" => Fits32(Len(m.consts[k].payload))
         /\ m.consts[k].tag = "Nil" => m.consts[k].payload = <<>>
         /\ m.consts[k].tag = "Bool" => m.consts[k].payload \in {<<0>>, <<1>>}
<1>1. Serializable(m)
  BY ModulesAssumption
<1>2. m.consts[k] \in Constant
  BY ModuleBytes
<1>3. /\ m.consts[k].tag \in {"Int", "Double"} => Len(m.consts[k].payload) = 8
      /\ m.consts[k].tag = "Str" => Fits32(Len(m.consts[k].payload))
      /\ m.consts[k].tag = "Nil" => m.consts[k].payload = <<>>
      /\ m.consts[k].tag = "Bool" => m.consts[k].payload \in {<<0>>, <<1>>}
  <2>1. \A n \in 1 .. Len(m.consts) :
          /\ m.consts[n].tag \in {"Int", "Double"} => Len(m.consts[n].payload) = 8
          /\ m.consts[n].tag = "Str" => Fits32(Len(m.consts[n].payload))
          /\ m.consts[n].tag = "Nil" => m.consts[n].payload = <<>>
          /\ m.consts[n].tag = "Bool" => m.consts[n].payload \in {<<0>>, <<1>>}
    BY ONLY <1>1 DEF Serializable
  <2> QED BY <2>1
<1> QED BY <1>2, <1>3

\* Where each record ends.
LEMMA EndsAt ==
  /\ StartAt["magic"][Len(Layout["magic"]) + 1] = 4
  /\ StartAt["version"][Len(Layout["version"]) + 1] = 4
  /\ StartAt["counts"][Len(Layout["counts"]) + 1] = 12
  /\ StartAt["tag"][Len(Layout["tag"]) + 1] = 1
  /\ StartAt["Int"][Len(Layout["Int"]) + 1] = 8
  /\ StartAt["Double"][Len(Layout["Double"]) + 1] = 8
  /\ StartAt["Str"][Len(Layout["Str"]) + 1] = 4
  /\ StartAt["Bool"][Len(Layout["Bool"]) + 1] = 1
  /\ StartAt["func"][Len(Layout["func"]) + 1] = 12
BY DEF StartAt, Layout

LEMMA AtMost ==
  ASSUME NEW at \in Nat, NEW k \in Nat, NEW l \in Nat, NEW b, NEW e \in Nat,
         b = k + l, at + b <= e
  PROVE  at + k + l <= e
OBVIOUS

\* The constant at hand, its tag and its payload, where they are written.
LEMMA ConstThere ==
  ASSUME IInv, NEW m \in Modules, Underway(m), phase \in {"tag", "Int", "Double", "Str", "Bool"}
  PROVE  LET n == Len(consts)
             c == m.consts[n + 1]
             at == Len(Written)
         IN /\ n + 1 \in 1 .. Len(m.consts) /\ c \in Constant /\ at \in Nat
            /\ c.tag \in {"Int", "Double", "Str", "Nil", "Bool"} /\ c.payload \in Seq(Byte)
            /\ Lies(serialize(m), at, <<TagByte(c.tag)>>)
            /\ at + 1 <= Len(serialize(m))
            /\ c.tag # "Str" =>
                 /\ Lies(serialize(m), at + 1, c.payload)
                 /\ at + 1 + Len(c.payload) <= Len(serialize(m))
            /\ c.tag = "Str" =>
                 /\ Lies(serialize(m), at + 1, put32(Len(c.payload)))
                 /\ Lies(serialize(m), at + 5, c.payload)
                 /\ at + 5 + Len(c.payload) <= Len(serialize(m))
            /\ Len(serialize(m)) \in Nat
<1> DEFINE n == Len(consts)
           c == m.consts[n + 1]
           at == Len(Written)
           d == serialize(m)
           b == ConstBytes(c)
<1>1. n \in Nat /\ n < Len(m.consts) /\ c \in Constant /\ Begins(Written \o b, d)
  BY ConstPlace
<1>2. Written \in Seq(Nat) /\ at \in Nat /\ Len(d) \in Nat /\ Len(m.consts) \in Nat
  BY Places, ModuleBytes, ModuleHeader
<1>3. n + 1 \in 1 .. Len(m.consts)
  BY <1>1, <1>2
<1>4. c.tag \in {"Int", "Double", "Str", "Nil", "Bool"} /\ c.payload \in Seq(Byte)
      /\ Len(c.payload) \in Nat
  BY <1>1 DEF Constant
<1> HIDE DEF c, d
<1>5. b \in Seq(Nat)
  BY <1>1, ConstLies
<1>6. Lies(d, at, b) /\ at + Len(b) <= Len(d)
  BY <1>1, <1>2, <1>5, BeginsLies
<1>7. ASSUME c.tag # "Str"
      PROVE  /\ Len(b) = 1 + Len(c.payload) /\ d[at + 1] = TagByte(c.tag)
             /\ Lies(d, at + 1, c.payload)
  <2>1. Len(b) = 1 + Len(c.payload)
    BY <1>1, <1>7, ConstLies, Zenon
  <2>2. Lies(d, at, b) <=> d[at + 1] = TagByte(c.tag) /\ Lies(d, at + 1, c.payload)
    BY ONLY <1>1, <1>2, <1>7, ConstLies, Zenon
  <2> QED BY <1>6, <2>1, <2>2
<1>8. ASSUME c.tag = "Str"
      PROVE  /\ Len(b) = 5 + Len(c.payload) /\ d[at + 1] = TagByte(c.tag)
             /\ Lies(d, at + 1, put32(Len(c.payload))) /\ Lies(d, at + 5, c.payload)
  <2>1. Len(b) = 5 + Len(c.payload)
    BY <1>1, <1>8, ConstLies, Zenon
  <2>2. Lies(d, at, b) <=> d[at + 1] = TagByte(c.tag) /\ Lies(d, at + 1, put32(Len(c.payload)))
                           /\ Lies(d, at + 5, c.payload)
    BY ONLY <1>1, <1>2, <1>8, ConstLies, Zenon
  <2> QED BY <1>6, <2>1, <2>2
<1>9. Lies(d, at, <<TagByte(c.tag)>>)
  <2>1. d[at + 1] = TagByte(c.tag)
    BY <1>7, <1>8
  <2> QED BY <2>1 DEF Lies
<1> HIDE DEF b, at
<1>10. at + 1 <= Len(d)
  BY <1>2, <1>4, <1>6, <1>7, <1>8
<1>11. c.tag # "Str" => at + 1 + Len(c.payload) <= Len(d)
  BY <1>2, <1>4, <1>6, <1>7, AtMost
<1>12. c.tag = "Str" => at + 5 + Len(c.payload) <= Len(d)
  BY <1>2, <1>4, <1>6, <1>8, AtMost
<1>13. /\ n + 1 \in 1 .. Len(m.consts) /\ c \in Constant /\ at \in Nat
       /\ c.tag \in {"Int", "Double", "Str", "Nil", "Bool"} /\ c.payload \in Seq(Byte)
       /\ Lies(d, at, <<TagByte(c.tag)>>)
       /\ at + 1 <= Len(d)
       /\ c.tag # "Str" => Lies(d, at + 1, c.payload) /\ at + 1 + Len(c.payload) <= Len(d)
       /\ c.tag = "Str" =>
            /\ Lies(d, at + 1, put32(Len(c.payload))) /\ Lies(d, at + 5, c.payload)
            /\ at + 5 + Len(c.payload) <= Len(d)
       /\ Len(d) \in Nat
  BY <1>1, <1>2, <1>3, <1>4, <1>7, <1>8, <1>9, <1>10, <1>11, <1>12
<1> QED BY ONLY <1>13, Zenon DEF n, c, d, at

\* The function at hand, likewise.
LEMMA FuncThere ==
  ASSUME IInv, NEW m \in Modules, Underway(m), phase = "func"
  PROVE  LET f == m.funcs[Len(funcs) + 1]
             at == Len(Written)
             d == serialize(m)
         IN /\ Len(funcs) + 1 \in 1 .. Len(m.funcs) /\ f \in Function /\ at \in Nat
            /\ consts = m.consts
            /\ Lies(d, at, put32(f.name_const)) /\ Lies(d, at + 4, <<f.num_params>>)
            /\ Lies(d, at + 5, <<f.num_regs>>) /\ Lies(d, at + 6, put16(f.max_stack))
            /\ Lies(d, at + 8, put32(Len(f.code))) /\ Lies(d, at + 12, f.code)
            /\ at + 12 + Len(f.code) <= Len(d) /\ Len(d) \in Nat
<1> DEFINE n == Len(funcs)
           f == m.funcs[n + 1]
           at == Len(Written)
           d == serialize(m)
           b == FuncBytes(f)
<1>1. /\ n \in Nat /\ n < Len(m.funcs) /\ f \in Function /\ Begins(Written \o b, d)
      /\ consts = m.consts
  BY FuncPlace
<1>2. Written \in Seq(Nat) /\ at \in Nat /\ Len(d) \in Nat /\ Len(m.funcs) \in Nat
  BY Places, ModuleBytes, ModuleHeader
<1>3. n + 1 \in 1 .. Len(m.funcs)
  BY <1>1, <1>2
<1>4. Len(f.code) \in Nat
  BY <1>1 DEF Function
<1> HIDE DEF f, d
<1>5. b \in Seq(Nat) /\ Len(b) = 12 + Len(f.code)
  BY <1>1, FuncLies, Zenon
<1>6. Lies(d, at, b) /\ at + Len(b) <= Len(d)
  BY <1>1, <1>2, <1>5, BeginsLies
<1>7. Lies(d, at, b) <=>
        /\ Lies(d, at, put32(f.name_const)) /\ d[at + 5] = f.num_params /\ d[at + 6] = f.num_regs
        /\ Lies(d, at + 6, put16(f.max_stack)) /\ Lies(d, at + 8, put32(Len(f.code)))
        /\ Lies(d, at + 12, f.code)
  BY ONLY <1>1, <1>2, FuncLies, Zenon
<1> HIDE DEF b, at
<1>8. Lies(d, at + 4, <<f.num_params>>) /\ Lies(d, at + 5, <<f.num_regs>>)
  <2>1. at + 4 + 1 = at + 5 /\ at + 5 + 1 = at + 6
    BY <1>2
  <2>2. d[at + 4 + 1] = f.num_params /\ d[at + 5 + 1] = f.num_regs
    BY <1>6, <1>7, <2>1
  <2> QED BY <2>2 DEF Lies
<1>9. at + 12 + Len(f.code) <= Len(d)
  BY <1>2, <1>4, <1>5, <1>6, AtMost
<1> QED BY ONLY <1>1, <1>2, <1>3, <1>6, <1>7, <1>8, <1>9, Zenon DEF n, f, d, at

\* The record at hand lies within the module's bytes.
LEMMA RecordInside ==
  ASSUME IInv, NEW m \in Modules, Follows(m), ~bad, phase \in Records
  PROVE  Base + StartAt[phase][Len(Layout[phase]) + 1] <= Len(serialize(m))
<1> DEFINE d == serialize(m)
           w == Len(Written)
<1>1. /\ w \in Nat /\ Len(d) \in Nat /\ Len(d) >= 20
      /\ phase \in Payloads => Base = w + 1
      /\ phase \notin Payloads => Base = w
  <2>1. Len(m.consts) \in Nat /\ Len(d) >= 20 + Len(m.consts) /\ Len(d) \in Nat
    BY ModuleBytes, ModuleHeader
  <2> QED BY <2>1, Places
<1>2. CASE phase \in {"magic", "version", "counts"}
  <2>1. phase \notin Payloads /\ Base = w
    BY <1>1, <1>2 DEF Payloads
  <2>2. /\ phase = "magic" => w = 0
        /\ phase = "version" => w = 4
        /\ phase = "counts" => w = 8
    <3>1. Len(<<>>) = 0 /\ Len(Magics) = 4 /\ Len(Preamble) = 8
      BY HeadLies
    <3> QED BY <3>1 DEF Written
  <2>3. /\ phase = "magic" => StartAt[phase][Len(Layout[phase]) + 1] = 4
        /\ phase = "version" => StartAt[phase][Len(Layout[phase]) + 1] = 4
        /\ phase = "counts" => StartAt[phase][Len(Layout[phase]) + 1] = 12
    BY EndsAt
  <2> HIDE DEF d, w
  <2>4. Base + StartAt[phase][Len(Layout[phase]) + 1] <= Len(d)
    BY <1>1, <1>2, <2>1, <2>2, <2>3
  <2> QED BY <2>4 DEF d
<1>3. CASE phase \in {"tag", "Int", "Double", "Str", "Bool"}
  <2> DEFINE c == m.consts[Len(consts) + 1]
  <2>1. Underway(m) /\ (phase \in Payloads => c.tag = phase)
    BY <1>3 DEF Follows
  <2>2. /\ Len(consts) + 1 \in 1 .. Len(m.consts) /\ c.payload \in Seq(Byte) /\ w + 1 <= Len(d)
        /\ c.tag # "Str" => w + 1 + Len(c.payload) <= Len(d)
        /\ c.tag = "Str" => w + 5 + Len(c.payload) <= Len(d)
    BY <1>3, <2>1, ConstThere
  <2>3. /\ c.tag \in {"Int", "Double"} => Len(c.payload) = 8
        /\ c.tag = "Bool" => Len(c.payload) = 1
    <3>1. /\ c.tag \in {"Int", "Double"} => Len(c.payload) = 8
          /\ c.tag = "Bool" => c.payload \in {<<0>>, <<1>>}
      BY <2>2, PayloadLengths
    <3> HIDE DEF c
    <3> QED BY <3>1
  <2>4. /\ phase = "tag" => StartAt[phase][Len(Layout[phase]) + 1] = 1
        /\ phase \in {"Int", "Double"} => StartAt[phase][Len(Layout[phase]) + 1] = 8
        /\ phase = "Str" => StartAt[phase][Len(Layout[phase]) + 1] = 4
        /\ phase = "Bool" => StartAt[phase][Len(Layout[phase]) + 1] = 1
    BY EndsAt
  <2>5. Len(c.payload) \in Nat
    BY <2>2
  <2> HIDE DEF c, d, w
  <2> DEFINE e == StartAt[phase][Len(Layout[phase]) + 1]
             l == Len(c.payload)
  <2>6. e \in Nat /\ l \in Nat
    BY <1>3, <2>4, <2>5
  <2>7. CASE phase = "tag"
    <3>1. Base = w /\ e = 1
      BY <1>1, <2>4, <2>7 DEF Payloads
    <3> QED BY <1>1, <2>2, <3>1 DEF d
  <2>8. CASE phase \in {"Int", "Double", "Bool"}
    <3>1. Base = w + 1 /\ e = l /\ w + 1 + l <= Len(d)
      BY <1>1, <2>1, <2>2, <2>3, <2>4, <2>8 DEF Payloads
    <3> HIDE DEF e, l
    <3>2. Base + e <= Len(d)
      BY <3>1
    <3> QED BY <3>2 DEF e, d
  <2>9. CASE phase = "Str"
    <3>1. Base = w + 1 /\ e = 4 /\ w + 5 + l <= Len(d)
      BY <1>1, <2>1, <2>2, <2>4, <2>9 DEF Payloads
    <3> HIDE DEF e, l
    <3>2. Base + e <= Len(d)
      BY <1>1, <2>6, <3>1
    <3> QED BY <3>2 DEF e, d
  <2> QED BY <1>3, <2>7, <2>8, <2>9
<1>4. CASE phase = "func"
  <2> DEFINE l == Len(m.funcs[Len(funcs) + 1].code)
  <2>1. Underway(m) /\ phase \notin Payloads
    BY <1>4 DEF Follows, Payloads
  <2>2. w + 12 + l <= Len(d) /\ l \in Nat
    <3>1. w + 12 + l <= Len(d) /\ m.funcs[Len(funcs) + 1] \in Function
      BY ONLY IInv, m \in Modules, <1>4, <2>1, FuncThere, Zenon
    <3>2. m.funcs[Len(funcs) + 1].code \in Seq(Byte)
      BY <3>1 DEF Function
    <3>3. Len(m.funcs[Len(funcs) + 1].code) \in Nat
      BY <3>2
    <3> QED BY ONLY <3>1, <3>3, Zenon
  <2>3. StartAt[phase][Len(Layout[phase]) + 1] = 12
    BY <1>4 DEF StartAt, Layout
  <2> HIDE DEF l, d, w
  <2>4. Base + StartAt[phase][Len(Layout[phase]) + 1] <= Len(d)
    BY <1>1, <2>1, <2>2, <2>3
  <2> QED BY <2>4 DEF d
<1> QED BY <1>2, <1>3, <1>4, RecordNames

LEMMA FollowsInit == Init => FollowsInv
<1> SUFFICES ASSUME Init, NEW m \in Modules PROVE Follows(m)
  BY DEF FollowsInv
<1> QED BY DEF Init, Follows

LEMMA ReadFieldFollows ==
  ASSUME IInv, WrittenInv, NEW m \in Modules, Begins(data, serialize(m)), Follows(m), ReadField
  PROVE  Follows(m)'
<1> DEFINE f == Len(fields) + 1
           k == Layout[phase][f]
<1>1. /\ phase \in Records /\ Len(fields) < Len(Layout[phase]) /\ fields \in Seq(Seq(Byte))
      /\ UNCHANGED <<data, phase, header, consts, funcs>> /\ i \in Nat /\ data \in Seq(Byte)
      /\ phase # "err"
  BY RecordNames DEF ReadField, Records, IInv, TypeOK, FieldsType
<1>2. /\ Underway(m)' <=> Underway(m)
      /\ m.consts[Len(consts') + 1].tag = m.consts[Len(consts) + 1].tag
      /\ serialize(m)' = serialize(m)
  BY <1>1 DEF Underway, Begins, serialize, Each
<1>3. CASE Len(data) < Len(serialize(m))
  <2>1. ~bad' => ~bad
    BY DEF ReadField
  <2> QED BY <1>1, <1>2, <1>3, <2>1 DEF Follows, Payloads
<1>4. CASE ~(Len(data) < Len(serialize(m)))
  <2>1. ~bad
    BY <1>4 DEF Follows
  <2>2. f \in 1 .. Len(Layout[phase])
    <3>1. Len(fields) \in Nat /\ Len(Layout[phase]) \in Nat
      BY <1>1, Widths
    <3> QED BY <1>1, <3>1
  <2> HIDE DEF f
  <2>3. /\ StartAt[phase][f] \in Nat /\ StartAt[phase][Len(Layout[phase]) + 1] \in Nat /\ k \in Nat
        /\ StartAt[phase][f] + k <= StartAt[phase][Len(Layout[phase]) + 1]
    BY <1>1, <2>2, StartsUp
  <2>4. Base + StartAt[phase][Len(Layout[phase]) + 1] <= Len(serialize(m)) /\ Base \in Nat
    BY <1>1, <2>1, RecordInside, Places
  <2>5. i = Base + StartAt[phase][f]
    BY <1>1, <2>1, BeginsFlagless DEF WrittenInv, RecordRead, f
  <2>6. Len(serialize(m)) \in Nat /\ Len(data) \in Nat
    BY <1>1, ModuleHeader
  <2>7. need(k)
    <3> DEFINE a == StartAt[phase][f]
               e == StartAt[phase][Len(Layout[phase]) + 1]
               d == serialize(m)
    <3>1. a \in Nat /\ e \in Nat /\ k \in Nat /\ a + k <= e /\ Base + e <= Len(d) /\ Base \in Nat
          /\ i = Base + a /\ Len(d) \in Nat /\ Len(data) \in Nat /\ ~(Len(data) < Len(d))
      BY <1>4, <2>3, <2>4, <2>5, <2>6
    <3> HIDE DEF a, e, d, k
    <3>2. i + k <= Len(data)
      BY <3>1
    <3> QED BY <3>2 DEF need
  <2>8. bad' = bad
    BY <2>7 DEF ReadField, f
  <2> QED BY <1>1, <1>2, <2>8 DEF Follows, Payloads
<1> QED BY <1>3, <1>4

LEMMA MagicFollows ==
  ASSUME IInv, WrittenInv, NEW m \in Modules, Begins(data, serialize(m)), Follows(m), Magic
  PROVE  Follows(m)'
<1>1. CASE bad
  BY <1>1, Refused DEF Magic, Follows
<1>2. CASE ~bad
  <2>1. Complete("magic") /\ phase = "magic" /\ "magic" \in Records /\ "magic" \notin Payloads
    BY RecordNames DEF Magic, Complete, Payloads
  <2>2. Base = 0
    <3>1. Len(<<>>) = 0
      OBVIOUS
    <3> QED BY <2>1, <3>1, Places DEF Written
  <2>3. /\ 1 \in 1 .. Len(Layout["magic"]) /\ 2 \in 1 .. Len(Layout["magic"])
        /\ 3 \in 1 .. Len(Layout["magic"]) /\ 4 \in 1 .. Len(Layout["magic"])
        /\ Layout["magic"][1] = 1 /\ Layout["magic"][2] = 1 /\ Layout["magic"][3] = 1
        /\ Layout["magic"][4] = 1 /\ StartAt["magic"][1] = 0 /\ StartAt["magic"][2] = 1
        /\ StartAt["magic"][3] = 2 /\ StartAt["magic"][4] = 3
    BY DEF Layout, StartAt
  <2>4. /\ Lies(serialize(m), Base + 0, <<67>>) /\ Lies(serialize(m), Base + 1, <<66>>)
        /\ Lies(serialize(m), Base + 2, <<67>>) /\ Lies(serialize(m), Base + 3, <<1>>)
    <3> DEFINE d == serialize(m)
    <3>1. Lies(d, 0, Magics)
      BY ModuleHeader
    <3> HIDE DEF d
    <3>2. d[0 + 1] = 67 /\ d[0 + 2] = 66 /\ d[0 + 3] = 67 /\ d[0 + 4] = 1
      BY <3>1 DEF Lies, Magics
    <3>3. Lies(d, 0, <<67>>) /\ Lies(d, 1, <<66>>) /\ Lies(d, 2, <<67>>) /\ Lies(d, 3, <<1>>)
      BY <3>2 DEF Lies
    <3>4. Base + 0 = 0 /\ Base + 1 = 1 /\ Base + 2 = 2 /\ Base + 3 = 3
      BY <2>2
    <3> QED BY ONLY <3>3, <3>4, Zenon DEF d
  <2>5. /\ <<67>> \in Seq(Nat) /\ Len(<<67>>) = 1 /\ <<66>> \in Seq(Nat) /\ Len(<<66>>) = 1
        /\ <<1>> \in Seq(Nat) /\ Len(<<1>>) = 1
    OBVIOUS
  <2>6. fields[1] = <<67>>
    BY <1>2, <2>1, <2>3, <2>4, <2>5, FieldIs
  <2>7. fields[2] = <<66>>
    BY <1>2, <2>1, <2>3, <2>4, <2>5, FieldIs
  <2>8. fields[3] = <<67>>
    BY <1>2, <2>1, <2>3, <2>4, <2>5, FieldIs
  <2>9. fields[4] = <<1>>
    BY <1>2, <2>1, <2>3, <2>4, <2>5, FieldIs
  <2>10. Field(1) = 67 /\ Field(2) = 66 /\ Field(3) = 67 /\ Field(4) = 1
    BY <2>6, <2>7, <2>8, <2>9 DEF Field, Num
  <2>11. Goto("version")
    BY <1>2, <2>10 DEF Magic
  <2> QED BY <1>2, <2>11, GoesOn
<1> QED BY <1>1, <1>2

LEMMA VersionFollows ==
  ASSUME IInv, WrittenInv, NEW m \in Modules, Begins(data, serialize(m)), Follows(m), Version
  PROVE  Follows(m)'
<1>1. CASE bad
  BY <1>1, Refused DEF Version, Follows
<1>2. CASE ~bad
  <2>1. /\ Complete("version") /\ phase = "version" /\ "version" \in Records
        /\ "version" \notin Payloads
    BY RecordNames DEF Version, Complete, Payloads
  <2>2. Base = 4
    <3>1. Len(Magics) = 4
      BY HeadLies
    <3> QED BY <2>1, <3>1, Places DEF Written
  <2>3. /\ 1 \in 1 .. Len(Layout["version"]) /\ Layout["version"][1] = 2
        /\ StartAt["version"][1] = 0
    BY DEF Layout, StartAt
  <2>4. Lies(serialize(m), Base + 0, put16(1))
    <3>1. Lies(serialize(m), 4, put16(1)) /\ Base + 0 = 4
      BY <2>2, ModuleHeader
    <3> QED BY ONLY <3>1, Zenon
  <2>5. put16(1) \in Seq(Nat) /\ Len(put16(1)) = 2 /\ Num(put16(1)) = 1
    BY Put16, Reread16
  <2>6. fields[1] = put16(1)
    BY <1>2, <2>1, <2>3, <2>4, <2>5, FieldIs
  <2>7. Field(1) = 1
    BY <2>5, <2>6 DEF Field
  <2>8. Goto("counts")
    BY <1>2, <2>7 DEF Version
  <2> QED BY <1>2, <2>8, GoesOn
<1> QED BY <1>1, <1>2

LEMMA Put32Reread ==
  ASSUME NEW n \in Nat, n < 65536 * 65536
  PROVE  put32(n) \in Seq(Nat) /\ Len(put32(n)) = 4 /\ Num(put32(n)) = n
BY Put32, Reread32

LEMMA CountsFollows ==
  ASSUME IInv, WrittenInv, NEW m \in Modules, Begins(data, serialize(m)), Follows(m), Counts
  PROVE  Follows(m)'
<1>1. CASE bad
  BY <1>1, Refused DEF Counts, Follows
<1>2. CASE ~bad
  <2> DEFINE x == Len(m.consts)
             y == Len(m.funcs)
             z == m.entry_func
  <2>1. /\ Complete("counts") /\ phase = "counts" /\ "counts" \in Records
        /\ "counts" \notin Payloads
    BY RecordNames DEF Counts, Complete, Payloads
  <2>2. Base = 8
    <3>1. Len(Preamble) = 8
      BY HeadLies
    <3> QED BY <2>1, <3>1, Places DEF Written
  <2>3. /\ 1 \in 1 .. Len(Layout["counts"]) /\ 2 \in 1 .. Len(Layout["counts"])
        /\ 3 \in 1 .. Len(Layout["counts"])
        /\ Layout["counts"][1] = 4 /\ Layout["counts"][2] = 4 /\ Layout["counts"][3] = 4
        /\ StartAt["counts"][1] = 0 /\ StartAt["counts"][2] = 4 /\ StartAt["counts"][3] = 8
    BY DEF Layout, StartAt
  <2>4. /\ Lies(serialize(m), Base + 0, put32(x)) /\ Lies(serialize(m), Base + 4, put32(y))
        /\ Lies(serialize(m), Base + 8, put32(z))
    <3>1. /\ Lies(serialize(m), 8, put32(x)) /\ Lies(serialize(m), 12, put32(y))
          /\ Lies(serialize(m), 16, put32(z))
      BY ModuleHeader
    <3>2. Base + 0 = 8 /\ Base + 4 = 12 /\ Base + 8 = 16
      BY <2>2
    <3> QED BY ONLY <3>1, <3>2, Zenon
  <2>5. /\ x \in Nat /\ y \in Nat /\ z \in Nat /\ Fits32(x) /\ Fits32(y) /\ z < y
    <3>1. Serializable(m)
      BY ModulesAssumption
    <3>2. Fits32(x) /\ Fits32(y) /\ z < y
      BY ONLY <3>1 DEF Serializable
    <3> QED BY <3>2, ModuleBytes
  <2>e. Len(serialize(m)) >= 20 + x /\ Len(serialize(m)) >= 20 + y /\ Len(serialize(m)) \in Nat
    BY ModuleHeader
  <2> HIDE DEF x, y, z
  <2>6. x < 65536 * 65536 /\ y < 65536 * 65536 /\ z < 65536 * 65536
    <3>1. x < 65536 * 65536 /\ y < 65536 * 65536
      BY <2>5, Fits
    <3> QED BY <2>5, <3>1
  <2>7. /\ Num(put32(x)) = x /\ Num(put32(y)) = y /\ Num(put32(z)) = z
        /\ put32(x) \in Seq(Nat) /\ Len(put32(x)) = 4 /\ put32(y) \in Seq(Nat) /\ Len(put32(y)) = 4
        /\ put32(z) \in Seq(Nat) /\ Len(put32(z)) = 4
    BY <2>5, <2>6, Put32Reread
  <2>8. fields[1] = put32(x)
    BY <1>2, <2>1, <2>3, <2>4, <2>7, FieldIs
  <2>9. fields[2] = put32(y)
    BY <1>2, <2>1, <2>3, <2>4, <2>7, FieldIs
  <2>10. fields[3] = put32(z)
    <3>1. Lies(serialize(m), Base + StartAt["counts"][3], put32(z)) /\ Len(put32(z)) = Layout["counts"][3]
      BY <2>3, <2>4, <2>7
    <3> QED BY <1>2, <2>1, <2>3, <2>7, <3>1, FieldIs
  <2>11. Field(1) = x /\ Field(2) = y /\ Field(3) = z
    BY <2>7, <2>8, <2>9, <2>10 DEF Field
  <2>12. CASE x > Len(data) \/ y > Len(data)
    <3>1. Fail
      BY <2>11, <2>12 DEF Counts
    <3>2. Len(data) < Len(serialize(m))
      <4>1. Len(data) \in Nat
        BY DEF IInv, TypeOK
      <4> DEFINE l == Len(data)
                 e == Len(serialize(m))
      <4>2. l \in Nat /\ e \in Nat /\ e >= 20 + x /\ e >= 20 + y /\ (x > l \/ y > l)
        BY <2>e, <2>12, <4>1
      <4> HIDE DEF l, e
      <4>3. l < e
        BY <2>5, <4>2
      <4> QED BY <4>3 DEF l, e
    <3> QED BY <3>1, <3>2, Refused
  <2>13. CASE ~(x > Len(data) \/ y > Len(data))
    <3>1. /\ header' = [const_count |-> x, func_count |-> y, entry_func |-> z]
          /\ Goto("consts") /\ consts' = consts /\ funcs' = funcs
      BY <1>2, <2>11, <2>13 DEF Counts
    <3>2. consts = <<>> /\ funcs = <<>>
      BY <2>1 DEF IInv, Progress
    <3>3. Begins(consts', m.consts) /\ Begins(funcs', m.funcs)
      <4>1. 0 <= x /\ 0 <= y /\ Len(<<>>) = 0
        BY <2>5
      <4> QED BY <3>1, <3>2, <4>1 DEF Begins, x, y
    <3>4. "consts" \notin Payloads
      BY DEF Payloads
    <3> QED BY <1>2, <3>1, <3>3, <3>4, GoesOn DEF x, y, z
  <2> QED BY <2>12, <2>13
<1> QED BY <1>1, <1>2

LEMMA BeginsNext ==
  ASSUME NEW S, NEW a \in Seq(S), NEW b \in Seq(S), Begins(a, b), Len(a) + 1 \in 1 .. Len(b)
  PROVE  Begins(Append(a, b[Len(a) + 1]), b)
<1> DEFINE c == Append(a, b[Len(a) + 1])
<1>1. Len(a) \in Nat /\ b[Len(a) + 1] \in S
  OBVIOUS
<1>2. Len(c) = Len(a) + 1 /\ c[Len(a) + 1] = b[Len(a) + 1] /\ \A k \in 1 .. Len(a) : c[k] = a[k]
  BY <1>1
<1> HIDE DEF c
<1>3. ASSUME NEW k \in 1 .. Len(c) PROVE c[k] = b[k]
  <2>1. k = Len(a) + 1 \/ k \in 1 .. Len(a)
    BY <1>1, <1>2
  <2> QED BY <1>2, <2>1 DEF Begins
<1>4. Len(c) <= Len(b)
  BY <1>1, <1>2
<1> QED BY <1>3, <1>4 DEF Begins, c

LEMMA HeadsFollow ==
  ASSUME IInv, WrittenInv, NEW m \in Modules, Begins(data, serialize(m)), Follows(m),
         NextConst \/ NextFunc \/ Finish
  PROVE  Follows(m)'
<1>1. phase \in {"consts", "funcs"} /\ ~bad
  BY DEF NextConst, NextFunc, Finish, WrittenInv
<1>2. Underway(m)
  BY <1>1 DEF Follows
<1>3. ASSUME Finish PROVE ~(header.entry_func >= Len(funcs))
  <2>1. phase = "funcs" /\ Len(funcs) >= header.func_count /\ Len(funcs) <= header.func_count
    BY <1>3 DEF Finish, IInv, Progress
  <2>2. header.func_count = Len(m.funcs) /\ header.entry_func = m.entry_func
    BY <1>2 DEF Underway
  <2>3. Serializable(m)
    BY ModulesAssumption
  <2>4. m.entry_func < Len(m.funcs)
    BY ONLY <2>3 DEF Serializable
  <2>5. Len(m.funcs) \in Nat /\ m.entry_func \in Nat /\ Len(funcs) \in Nat
    BY ModuleBytes DEF IInv, TypeOK
  <2> QED BY <2>1, <2>2, <2>4, <2>5
<1>4. PICK p \in {"tag", "funcs", "func", "ok"} : Goto(p) /\ UNCHANGED <<i, header, consts, funcs>>
  BY <1>3 DEF NextConst, NextFunc, Finish
<1>5. p \notin Payloads /\ p # "err" /\ p \notin {"magic", "version", "counts"}
  BY DEF Payloads
<1> QED BY <1>1, <1>2, <1>4, <1>5, GoesOn DEF Underway

\* The next constant of the module is added.
LEMMA ConstFollows ==
  ASSUME IInv, NEW m \in Modules, ~bad, Underway(m),
         phase \in {"tag", "Int", "Double", "Str", "Bool"},
         NEW t, NEW payload, AddConst(t, payload),
         m.consts[Len(consts) + 1].tag = t, m.consts[Len(consts) + 1].payload = payload
  PROVE  Follows(m)'
<1> DEFINE c == m.consts[Len(consts) + 1]
<1>1. Len(consts) + 1 \in 1 .. Len(m.consts) /\ c \in Constant
  BY ConstThere
<1>2. c = [tag |-> t, payload |-> payload]
  BY <1>1 DEF Constant
<1>3. consts' = Append(consts, c) /\ Goto("consts") /\ UNCHANGED <<header, funcs>>
  BY <1>2 DEF AddConst
<1>4. consts \in Seq(Constant) /\ m.consts \in Seq(Constant) /\ Begins(consts, m.consts)
  BY ModuleBytes DEF IInv, TypeOK, Underway
<1>5. Begins(consts', m.consts)
  BY <1>1, <1>3, <1>4, BeginsNext
<1>6. "consts" \notin Payloads
  BY DEF Payloads
<1> QED BY <1>3, <1>5, <1>6, GoesOn DEF Underway

LEMMA TagFollows ==
  ASSUME IInv, WrittenInv, NEW m \in Modules, Begins(data, serialize(m)), Follows(m), Tag
  PROVE  Follows(m)'
<1>1. CASE bad
  BY <1>1, Refused DEF Tag, Follows
<1>2. CASE ~bad
  <2> DEFINE c == m.consts[Len(consts) + 1]
             at == Len(Written)
             b == TagByte(c.tag)
  <2>1. /\ Complete("tag") /\ phase = "tag" /\ "tag" \in Records /\ "tag" \notin Payloads
    BY RecordNames DEF Tag, Complete, Payloads
  <2>2. Underway(m)
    BY <1>2, <2>1 DEF Follows
  <2>3. /\ Len(consts) + 1 \in 1 .. Len(m.consts) /\ at \in Nat
        /\ c.tag \in {"Int", "Double", "Str", "Nil", "Bool"} /\ Lies(serialize(m), at, <<b>>)
    BY <2>1, <2>2, ConstThere
  <2>4. b \in 0 .. 4 /\ CTag[b] = c.tag /\ DOMAIN CTag = 0 .. 4
    <3>1. CTag[0] = "Int" /\ CTag[1] = "Double" /\ CTag[2] = "Str" /\ CTag[3] = "Nil"
          /\ CTag[4] = "Bool" /\ DOMAIN CTag = 0 .. 4
      BY DEF CTag
    <3> HIDE DEF c
    <3> QED BY <2>3, <3>1, TagBytes
  <2>5. /\ 1 \in 1 .. Len(Layout["tag"]) /\ Layout["tag"][1] = 1 /\ StartAt["tag"][1] = 0
    BY DEF Layout, StartAt
  <2>6. fields[1] = <<b>>
    <3>1. Base + StartAt["tag"][1] = at
      BY <2>1, <2>3, <2>5, Places
    <3> HIDE DEF b, at
    <3>2. <<b>> \in Seq(Nat) /\ Len(<<b>>) = 1
      BY <2>4
    <3>3. Lies(serialize(m), Base + StartAt["tag"][1], <<b>>) /\ Len(<<b>>) = Layout["tag"][1]
      BY <2>3, <2>5, <3>1, <3>2
    <3> QED BY <1>2, <2>1, <2>5, <3>2, <3>3, FieldIs
  <2> HIDE DEF b
  <2>7. Field(1) = b
    BY <2>6 DEF Field, Num
  <2>8. CASE c.tag = "Nil"
    <3>1. AddConst("Nil", <<>>)
      BY <1>2, <2>4, <2>7, <2>8 DEF Tag
    <3>2. c.payload = <<>>
      BY <2>3, <2>8, PayloadLengths
    <3> QED BY <1>2, <2>1, <2>2, <2>8, <3>1, <3>2, ConstFollows
  <2>9. CASE c.tag # "Nil"
    <3>1. Goto(c.tag) /\ UNCHANGED <<header, consts, funcs>>
      BY <1>2, <2>4, <2>7, <2>9 DEF Tag
    <3>2. c.tag \notin {"magic", "version", "counts", "err"}
      <4> HIDE DEF c
      <4> QED BY <2>3
    <3>3. Begins(consts', m.consts) /\ Begins(funcs', m.funcs)
          /\ m.consts[Len(consts') + 1].tag = c.tag
          /\ header' = [const_count |-> Len(m.consts), func_count |-> Len(m.funcs),
                        entry_func |-> m.entry_func]
      BY <2>2, <3>1 DEF Underway
    <3> HIDE DEF c
    <3> QED BY <1>2, <3>1, <3>2, <3>3, GoesOn
  <2> QED BY <2>8, <2>9
<1> QED BY <1>1, <1>2

\* A payload's first field.
LEMMA PayloadIs ==
  ASSUME IInv, WrittenInv, ~bad, NEW m \in Modules, Begins(data, serialize(m)), Follows(m),
         NEW p \in {"Int", "Double", "Str", "Bool"}, Complete(p)
  PROVE  LET c == m.consts[Len(consts) + 1] IN
         /\ phase = p /\ Underway(m) /\ Len(consts) + 1 \in 1 .. Len(m.consts) /\ c \in Constant
         /\ c.tag = p
         /\ p # "Str" => fields[1] = c.payload
         /\ p = "Str" => fields[1] = put32(Len(c.payload)) /\ Fits32(Len(c.payload))
<1> DEFINE c == m.consts[Len(consts) + 1]
           at == Len(Written)
           d == serialize(m)
<1>1. p \in Records /\ p \in Payloads /\ phase = p
  BY RecordNames DEF Payloads, Complete
<1>2. Underway(m) /\ c.tag = p
  BY <1>1 DEF Follows
<1>3. /\ Len(consts) + 1 \in 1 .. Len(m.consts) /\ c \in Constant /\ c.payload \in Seq(Byte)
      /\ c.tag # "Str" => Lies(d, at + 1, c.payload)
      /\ c.tag = "Str" => Lies(d, at + 1, put32(Len(c.payload)))
  BY <1>1, <1>2, ConstThere
<1>4. /\ c.tag \in {"Int", "Double"} => Len(c.payload) = 8
      /\ c.tag = "Str" => Fits32(Len(c.payload))
      /\ c.tag = "Bool" => Len(c.payload) = 1
  <2>1. c.tag = "Bool" => c.payload \in {<<0>>, <<1>>}
    BY <1>3, PayloadLengths
  <2>2. /\ c.tag \in {"Int", "Double"} => Len(c.payload) = 8
        /\ c.tag = "Str" => Fits32(Len(c.payload))
    BY <1>3, PayloadLengths
  <2> HIDE DEF c
  <2> QED BY <2>1, <2>2
<1>5. /\ 1 \in 1 .. Len(Layout[p]) /\ StartAt[p][1] = 0
      /\ p \in {"Int", "Double"} => Layout[p][1] = 8
      /\ p = "Str" => Layout[p][1] = 4
      /\ p = "Bool" => Layout[p][1] = 1
  BY DEF Layout, StartAt
<1>6. Base + StartAt[p][1] = at + 1
  BY <1>1, <1>5, Places
<1> HIDE DEF c, at, d
<1>7. ASSUME p # "Str" PROVE fields[1] = c.payload
  <2>1. c.payload \in Seq(Nat) /\ Len(c.payload) = Layout[p][1]
    BY <1>2, <1>3, <1>4, <1>5, <1>7, NatBytes
  <2>2. Lies(serialize(m), Base + StartAt[p][1], c.payload)
    BY <1>2, <1>3, <1>6, <1>7 DEF d
  <2> QED BY <1>1, <1>5, <2>1, <2>2, FieldIs
<1>8. ASSUME p = "Str" PROVE fields[1] = put32(Len(c.payload))
  <2>1. Len(c.payload) \in Nat
    BY <1>3
  <2>2. put32(Len(c.payload)) \in Seq(Nat) /\ Len(put32(Len(c.payload))) = Layout[p][1]
    BY <1>5, <1>8, <2>1, Put32
  <2>3. Lies(serialize(m), Base + StartAt[p][1], put32(Len(c.payload)))
    BY <1>2, <1>3, <1>6, <1>8 DEF d
  <2> DEFINE s == put32(Len(c.payload))
  <2>4. s \in Seq(Nat) /\ Len(s) = Layout[p][1] /\ Lies(serialize(m), Base + StartAt[p][1], s)
    BY <2>2, <2>3
  <2> HIDE DEF s
  <2>5. fields[1] = s
    BY <1>1, <1>5, <2>4, FieldIs
  <2> QED BY <2>5 DEF s
<1>9. p = "Str" => Fits32(Len(c.payload))
  BY <1>2, <1>4
<1> QED BY ONLY <1>1, <1>2, <1>3, <1>7, <1>8, <1>9, Zenon DEF c

LEMMA NumberFollows ==
  ASSUME IInv, WrittenInv, NEW m \in Modules, Begins(data, serialize(m)), Follows(m),
         NEW t \in {"Int", "Double"}, Number(t)
  PROVE  Follows(m)'
<1>1. CASE bad
  BY <1>1, Refused DEF Number, Follows
<1>2. CASE ~bad
  <2>1. Complete(t) /\ AddConst(t, fields[1])
    BY <1>2 DEF Number
  <2>2. /\ phase = t /\ Underway(m) /\ m.consts[Len(consts) + 1].tag = t
        /\ m.consts[Len(consts) + 1].payload = fields[1]
    BY <1>2, <2>1, PayloadIs
  <2>3. consts' = Append(consts, [tag |-> t, payload |-> fields[1]])
    BY <2>1 DEF AddConst
  <2> QED BY <1>2, <2>1, <2>2, ConstFollows
<1> QED BY <1>1, <1>2

LEMMA BoolFollows ==
  ASSUME IInv, WrittenInv, NEW m \in Modules, Begins(data, serialize(m)), Follows(m), Bool
  PROVE  Follows(m)'
<1>1. CASE bad
  BY <1>1, Refused DEF Bool, Follows
<1>2. CASE ~bad
  <2> DEFINE c == m.consts[Len(consts) + 1]
  <2>1. Complete("Bool") /\ AddConst("Bool", <<IF Field(1) # 0 THEN 1 ELSE 0>>)
    BY <1>2 DEF Bool
  <2>2. /\ phase = "Bool" /\ Underway(m) /\ Len(consts) + 1 \in 1 .. Len(m.consts)
        /\ c.tag = "Bool" /\ fields[1] = c.payload
    BY <1>2, <2>1, PayloadIs
  <2>3. c.payload \in {<<0>>, <<1>>}
    BY <2>2, PayloadLengths
  <2> HIDE DEF c
  <2>4. c.payload = <<IF Field(1) # 0 THEN 1 ELSE 0>>
    BY <2>2, <2>3 DEF Field, Num
  <2> QED BY <1>2, <2>1, <2>2, <2>4, ConstFollows DEF c
<1> QED BY <1>1, <1>2

LEMMA StrFollows ==
  ASSUME IInv, WrittenInv, NEW m \in Modules, Begins(data, serialize(m)), Follows(m), Str
  PROVE  Follows(m)'
<1>1. CASE bad
  BY <1>1, Refused DEF Str, Follows
<1>2. CASE ~bad
  <2> DEFINE c == m.consts[Len(consts) + 1]
             n == Len(c.payload)
             d == serialize(m)
             at == Len(Written)
  <2>1. Complete("Str")
    BY DEF Str
  <2>2. /\ phase = "Str" /\ Underway(m) /\ c.tag = "Str" /\ fields[1] = put32(n) /\ Fits32(n)
        /\ c \in Constant
    BY <1>2, <2>1, PayloadIs
  <2>3. c.payload \in Seq(Byte) /\ n \in Nat
    BY <2>2 DEF Constant
  <2>4. /\ Lies(d, at + 5, c.payload) /\ at + 5 + n <= Len(d) /\ at \in Nat /\ Len(d) \in Nat
    BY <2>2, ConstThere
  <2>5. i = at + 1 + 4
    <3>1. Layout["Str"][1] = 4
      BY DEF Layout
    <3> QED BY <1>2, <2>1, <3>1, BeginsFlagless, PayloadRead
  <2> HIDE DEF c, n, d, at
  <2>6. Field(1) = n
    BY <2>2, <2>3, Fits, Put32Reread DEF Field
  <2>7. i = at + 5 /\ i \in Nat
    BY <2>4, <2>5
  <2>8. CASE ~need(n)
    <3>1. Fail
      BY <2>6, <2>8 DEF Str
    <3>2. Len(data) \in Nat
      BY DEF IInv, TypeOK
    <3>3. Len(data) < Len(d)
      BY <2>3, <2>4, <2>7, <2>8, <3>2 DEF need
    <3> QED BY <3>1, <3>3, Refused DEF d
  <2>9. CASE need(n)
    <3>1. AddConst("Str", Peek(n))
      BY <1>2, <2>6, <2>9 DEF Str
    <3>2. Lies(data, i, Peek(n)) /\ Peek(n) \in Seq(Byte) /\ Len(Peek(n)) = n
      BY <2>3, <2>9, PeekLies
    <3> DEFINE s == Peek(n)
               t == c.payload
    <3>3. s \in Seq(Nat) /\ t \in Seq(Nat) /\ Len(s) = n /\ Len(t) = n
      BY <2>3, <3>2, NatBytes DEF n
    <3>4. Lies(data, i, s) /\ Lies(serialize(m), i, t) /\ i + Len(s) <= Len(data)
      BY <2>4, <2>7, <2>9, <3>2 DEF d, need
    <3> HIDE DEF s, t
    <3>5. s = t
      BY <2>7, <3>3, <3>4, SameBytes
    <3> QED BY <1>2, <2>2, <3>1, <3>5, ConstFollows DEF c, s, t
  <2> QED BY <2>8, <2>9
<1> QED BY <1>1, <1>2

\* A function's fields, as they were written.
LEMMA FuncIs ==
  ASSUME IInv, WrittenInv, ~bad, NEW m \in Modules, Begins(data, serialize(m)), Follows(m),
         Complete("func")
  PROVE  LET f == m.funcs[Len(funcs) + 1] IN
         /\ phase = "func" /\ Underway(m) /\ f \in Function /\ consts = m.consts
         /\ f.name_const < Len(consts) /\ consts[f.name_const + 1].tag = "Str"
         /\ Field(1) = f.name_const /\ Field(2) = f.num_params /\ Field(3) = f.num_regs
         /\ Field(4) = f.max_stack /\ Field(5) = Len(f.code)
<1> DEFINE f == m.funcs[Len(funcs) + 1]
           at == Len(Written)
           d == serialize(m)
           n == Len(f.code)
<1>1. phase = "func" /\ "func" \in Records /\ "func" \notin Payloads
  BY RecordNames DEF Payloads, Complete
<1>2. Underway(m)
  BY <1>1 DEF Follows
<1>3. /\ Len(funcs) + 1 \in 1 .. Len(m.funcs) /\ f \in Function /\ at \in Nat /\ consts = m.consts
      /\ Lies(d, at, put32(f.name_const)) /\ Lies(d, at + 4, <<f.num_params>>)
      /\ Lies(d, at + 5, <<f.num_regs>>) /\ Lies(d, at + 6, put16(f.max_stack))
      /\ Lies(d, at + 8, put32(n))
  BY <1>1, <1>2, FuncThere
<1>4. /\ f.name_const < Len(m.consts) /\ m.consts[f.name_const + 1].tag = "Str"
      /\ f.max_stack < 65536 /\ Fits32(n) /\ Fits32(Len(m.consts))
  <2>1. Serializable(m)
    BY ModulesAssumption
  <2>2. \A k \in 1 .. Len(m.funcs) :
          /\ m.funcs[k].name_const < Len(m.consts)
          /\ m.consts[m.funcs[k].name_const + 1].tag = "Str"
          /\ m.funcs[k].max_stack < 65536 /\ Fits32(Len(m.funcs[k].code))
    BY ONLY <2>1 DEF Serializable
  <2>3. Fits32(Len(m.consts))
    BY ONLY <2>1 DEF Serializable
  <2> QED BY <1>3, <2>2, <2>3
<1>5. /\ f.name_const \in Nat /\ f.num_params \in Byte /\ f.num_regs \in Byte
      /\ f.max_stack \in Nat /\ n \in Nat
  BY <1>3 DEF Function
<1>6. /\ 1 \in 1 .. Len(Layout["func"]) /\ 2 \in 1 .. Len(Layout["func"])
      /\ 3 \in 1 .. Len(Layout["func"]) /\ 4 \in 1 .. Len(Layout["func"])
      /\ 5 \in 1 .. Len(Layout["func"])
      /\ Layout["func"][1] = 4 /\ Layout["func"][2] = 1 /\ Layout["func"][3] = 1
      /\ Layout["func"][4] = 2 /\ Layout["func"][5] = 4
      /\ StartAt["func"][1] = 0 /\ StartAt["func"][2] = 4 /\ StartAt["func"][3] = 5
      /\ StartAt["func"][4] = 6 /\ StartAt["func"][5] = 8
  BY DEF Layout, StartAt
<1>7. Base = at
  BY <1>1, Places
<1>c. consts = m.consts /\ Len(m.consts) \in Nat
  BY <1>3, ModuleBytes
<1> HIDE DEF f, at, d
<1> DEFINE r == f.name_const
           p == f.num_params
           q == f.num_regs
           x == f.max_stack
<1>8. /\ r \in Nat /\ p \in Nat /\ q \in Nat /\ x \in Nat /\ n \in Nat
      /\ r < Len(m.consts) /\ x < 65536 /\ Fits32(n)
      /\ Lies(d, at, put32(r)) /\ Lies(d, at + 4, <<p>>) /\ Lies(d, at + 5, <<q>>)
      /\ Lies(d, at + 6, put16(x)) /\ Lies(d, at + 8, put32(n))
  BY <1>3, <1>4, <1>5, Byte1
<1> HIDE DEF r, p, q, x, n
<1>9. r < 65536 * 65536 /\ n < 65536 * 65536
  <2> DEFINE l == Len(m.consts)
  <2>1. l \in Nat /\ Fits32(l) /\ r < l
    BY <1>4, <1>8, <1>c
  <2> HIDE DEF l
  <2>2. l < 65536 * 65536
    BY <2>1, Fits
  <2> QED BY <1>8, <2>1, <2>2, Fits
<1>10. Field(1) = r
  <2>1. put32(r) \in Seq(Nat) /\ Len(put32(r)) = 4 /\ Num(put32(r)) = r
    BY <1>8, <1>9, Put32Reread
  <2>2. Lies(serialize(m), Base + StartAt["func"][1], put32(r)) /\ Len(put32(r)) = Layout["func"][1]
    <3>1. Base + StartAt["func"][1] = at
      BY <1>3, <1>6, <1>7
    <3> QED BY <1>6, <1>8, <2>1, <3>1 DEF d
  <2>3. fields[1] = put32(r)
    BY <1>1, <1>6, <2>1, <2>2, FieldIs
  <2> QED BY <2>1, <2>3 DEF Field
<1>11. Field(2) = p
  <2>1. Lies(serialize(m), Base + StartAt["func"][2], <<p>>) /\ Len(<<p>>) = Layout["func"][2]
        /\ <<p>> \in Seq(Nat)
    BY <1>6, <1>7, <1>8 DEF d
  <2>2. fields[2] = <<p>>
    BY <1>1, <1>6, <2>1, FieldIs
  <2> QED BY <2>2 DEF Field, Num
<1>12. Field(3) = q
  <2>1. Lies(serialize(m), Base + StartAt["func"][3], <<q>>) /\ Len(<<q>>) = Layout["func"][3]
        /\ <<q>> \in Seq(Nat)
    BY <1>6, <1>7, <1>8 DEF d
  <2>2. fields[3] = <<q>>
    BY <1>1, <1>6, <2>1, FieldIs
  <2> QED BY <2>2 DEF Field, Num
<1>13. Field(4) = x
  <2>1. put16(x) \in Seq(Nat) /\ Len(put16(x)) = 2 /\ Num(put16(x)) = x
    BY <1>8, Put16, Reread16
  <2>2. Lies(serialize(m), Base + StartAt["func"][4], put16(x)) /\ Len(put16(x)) = Layout["func"][4]
    BY <1>6, <1>7, <1>8, <2>1 DEF d
  <2>3. fields[4] = put16(x)
    BY <1>1, <1>6, <2>1, <2>2, FieldIs
  <2> QED BY <2>1, <2>3 DEF Field
<1>14. Field(5) = n
  <2>1. put32(n) \in Seq(Nat) /\ Len(put32(n)) = 4 /\ Num(put32(n)) = n
    BY <1>8, <1>9, Put32Reread
  <2>2. Lies(serialize(m), Base + StartAt["func"][5], put32(n)) /\ Len(put32(n)) = Layout["func"][5]
    BY <1>6, <1>7, <1>8, <2>1 DEF d
  <2>3. fields[5] = put32(n)
    BY <1>1, <1>6, <2>1, <2>2, FieldIs
  <2> QED BY <2>1, <2>3 DEF Field
<1>15. r < Len(consts) /\ consts[r + 1].tag = "Str"
  BY <1>4, <1>c DEF r
<1> QED BY ONLY <1>1, <1>2, <1>3, <1>10, <1>11, <1>12, <1>13, <1>14, <1>15, Zenon
        DEF f, r, p, q, x, n

LEMMA FuncFollows ==
  ASSUME IInv, WrittenInv, NEW m \in Modules, Begins(data, serialize(m)), Follows(m), Func
  PROVE  Follows(m)'
<1>1. CASE bad
  BY <1>1, Refused DEF Func, Follows
<1>2. CASE ~bad
  <2> DEFINE f == m.funcs[Len(funcs) + 1]
             n == Len(f.code)
             d == serialize(m)
             at == Len(Written)
  <2>1. Complete("func")
    BY DEF Func
  <2>2. /\ phase = "func" /\ Underway(m) /\ f \in Function /\ consts = m.consts
        /\ f.name_const < Len(consts) /\ consts[f.name_const + 1].tag = "Str"
        /\ Field(1) = f.name_const /\ Field(2) = f.num_params /\ Field(3) = f.num_regs
        /\ Field(4) = f.max_stack /\ Field(5) = n
    BY <1>2, <2>1, FuncIs
  <2>3. f.code \in Seq(Byte) /\ n \in Nat
    BY <2>2 DEF Function
  <2>4. /\ Lies(d, at + 12, f.code) /\ at + 12 + n <= Len(d) /\ at \in Nat /\ Len(d) \in Nat
        /\ Len(funcs) + 1 \in 1 .. Len(m.funcs)
    BY <2>2, FuncThere
  <2>5. i = at + 12
    BY <1>2, <2>1, BeginsFlagless, FuncRead
  <2>6. NameOk
    BY <2>2 DEF NameOk
  <2> HIDE DEF f, n, d, at
  <2>7. i \in Nat
    BY <2>4, <2>5
  <2>8. CASE ~need(n)
    <3>1. Fail
      BY <2>2, <2>8 DEF Func
    <3>2. Len(data) \in Nat
      BY DEF IInv, TypeOK
    <3>3. Len(data) < Len(d)
      BY <2>3, <2>4, <2>5, <2>8, <3>2 DEF need
    <3> QED BY <3>1, <3>3, Refused DEF d
  <2>9. CASE need(n)
    <3>1. AddFunc
      BY <1>2, <2>2, <2>6, <2>9 DEF Func
    <3>2. Lies(data, i, Peek(n)) /\ Peek(n) \in Seq(Byte) /\ Len(Peek(n)) = n
      BY <2>3, <2>9, PeekLies
    <3>3. Peek(n) = f.code
      <4> DEFINE s == Peek(n)
                 t == f.code
      <4>1. s \in Seq(Nat) /\ t \in Seq(Nat) /\ Len(s) = n /\ Len(t) = n
        BY <2>3, <3>2, NatBytes DEF n
      <4>2. Lies(data, i, s) /\ Lies(serialize(m), i, t) /\ i + Len(s) <= Len(data)
        BY <2>4, <2>5, <2>9, <3>2 DEF d, need
      <4> HIDE DEF s, t
      <4>3. s = t
        BY <2>7, <4>1, <4>2, SameBytes
      <4> QED BY <4>3 DEF s, t
    <3>4. f = [name_const |-> Field(1), num_params |-> Field(2), num_regs |-> Field(3),
               max_stack |-> Field(4), code |-> Peek(n)]
      BY <2>2, <3>3 DEF Function
    <3>5. funcs' = Append(funcs, f) /\ Goto("funcs") /\ UNCHANGED <<header, consts>>
      BY <2>2, <3>1, <3>4 DEF AddFunc
    <3>6. funcs \in Seq(Function) /\ m.funcs \in Seq(Function) /\ Begins(funcs, m.funcs)
      BY <2>2, ModuleBytes DEF IInv, TypeOK, Underway
    <3>7. Begins(funcs', m.funcs)
      BY <2>4, <3>5, <3>6, BeginsNext DEF f
    <3>8. "funcs" \notin Payloads
      BY DEF Payloads
    <3> QED BY <1>2, <2>2, <3>5, <3>7, <3>8, GoesOn DEF Underway
  <2> QED BY <2>8, <2>9
<1> QED BY <1>1, <1>2

LEMMA FollowsNext == IInv /\ WrittenInv /\ FollowsInv /\ [Next]_vars => FollowsInv'
<1> SUFFICES ASSUME IInv, WrittenInv, FollowsInv, [Next]_vars, NEW m \in Modules,
                    Begins(data, serialize(m))'
             PROVE  Follows(m)'
  BY DEF FollowsInv
<1>1. data' = data
  BY DEF Next, vars, ReadField, Magic, Version, Counts, NextConst, NextFunc, Tag, Number, Bool, Str,
         Func, Finish, Done, AddConst, AddFunc, Goto, Fail
<1>2. Begins(data, serialize(m)) /\ Follows(m)
  BY <1>1 DEF FollowsInv, Begins, serialize, Each
<1>3. CASE ReadField
  BY <1>2, <1>3, ReadFieldFollows
<1>4. CASE Magic \/ Version \/ Counts
  BY <1>2, <1>4, MagicFollows, VersionFollows, CountsFollows
<1>5. CASE NextConst \/ NextFunc \/ Finish
  BY <1>2, <1>5, HeadsFollow
<1>6. CASE Tag \/ Number("Int") \/ Number("Double") \/ Bool \/ Str
  BY <1>2, <1>6, TagFollows, NumberFollows, BoolFollows, StrFollows
<1>7. CASE Func
  BY <1>2, <1>7, FuncFollows
<1>8. CASE Done \/ UNCHANGED vars
  <2>1. UNCHANGED vars
    BY <1>8 DEF Done
  <2> QED BY <1>2, <2>1 DEF vars, Follows, Underway, Begins, serialize, Each
<1> QED BY <1>3, <1>4, <1>5, <1>6, <1>7, <1>8 DEF Next

\* An input that begins what was written of a module is read as that module says,
\* and refused only where it ends too early.
LEMMA AlwaysFollows == Spec => []FollowsInv
<1>1. IInv /\ WrittenInv /\ FollowsInv /\ [Next]_vars => FollowsInv'
  BY FollowsNext
<1> QED BY <1>1, FollowsInit, Invariance, AlwaysWritten, PTL DEF Spec

LEMMA LoadedWhole ==
  ASSUME IInv, FollowsInv, WrittenInv, NEW m \in Modules, Begins(data, serialize(m)), phase = "ok"
  PROVE  Loaded = m
<1>1. ~bad /\ Underway(m)
  BY DEF WrittenInv, FollowsInv, Follows
<1>2. /\ consts \in Seq(Constant) /\ funcs \in Seq(Function)
      /\ Len(consts) = header.const_count /\ Len(funcs) = header.func_count
  BY DEF IInv, TypeOK, Progress
<1>3. header.const_count = Len(m.consts) /\ header.func_count = Len(m.funcs)
      /\ header.entry_func = m.entry_func
  BY <1>1 DEF Underway
<1>4. consts = m.consts /\ funcs = m.funcs
  BY <1>1, <1>2, <1>3, ModuleBytes, BeginsSub DEF Underway
<1>5. m \in [consts : Seq(Constant), funcs : Seq(Function), entry_func : Nat]
  BY ModulesAssumption DEF Serializable
<1>6. m = [consts |-> m.consts, funcs |-> m.funcs, entry_func |-> m.entry_func]
  BY <1>5
<1> QED BY <1>3, <1>4, <1>6 DEF Loaded

\* load_cbc accepts what serialize wrote and delivers the module that was written.
THEOREM LoadsWhatWasWritten == Spec => []RoundTrip
<1>1. ASSUME IInv, WrittenInv, FollowsInv PROVE RoundTrip
  <2> SUFFICES ASSUME phase \in {"ok", "err"}, NEW m \in Modules, data = serialize(m)
               PROVE  phase = "ok" /\ Loaded = m
    BY DEF RoundTrip
  <2>1. Len(data) \in Nat
    BY ModuleHeader
  <2>2. Begins(data, serialize(m))
    BY <2>1 DEF Begins
  <2>3. phase # "err"
    BY <1>1, <2>1, <2>2 DEF FollowsInv, Follows
  <2> QED BY <1>1, <2>2, <2>3, LoadedWhole
<1> QED BY <1>1, Invariance, AlwaysWritten, AlwaysFollows, PTL

\* load_cbc refuses whatever stops short of what serialize wrote, wherever it does.
THEOREM RefusesTruncated == Spec => []TruncationRejected
<1>1. ASSUME IInv, WrittenInv, FollowsInv PROVE TruncationRejected
  <2> SUFFICES ASSUME phase = "ok", NEW m \in Modules, IsStrictPrefix(data, serialize(m))
               PROVE  FALSE
    BY DEF TruncationRejected
  <2> DEFINE d == serialize(m)
  <2>1. data \in Seq(Byte) /\ d \in Seq(Nat) /\ i <= Len(data)
    BY <1>1, ModuleBytes DEF IInv, TypeOK, CursorInBounds
  <2>2. data \in Seq(Nat)
    BY <2>1, NatBytes
  <2>3. Begins(data, d) /\ data # d
    <3> HIDE DEF d
    <3>1. Len(data) <= Len(d) /\ SubSeq(data, 1, Len(data)) = SubSeq(d, 1, Len(data)) /\ data # d
      BY DEF IsStrictPrefix, IsPrefix, d
    <3>2. Len(data) \in 0 .. Len(data) /\ Len(data) \in 0 .. Len(d)
      BY <2>1, <3>1
    <3>3. /\ \A k \in 1 .. Len(data) : SubSeq(data, 1, Len(data))[k] = data[k]
          /\ \A k \in 1 .. Len(data) : SubSeq(d, 1, Len(data))[k] = d[k]
      BY <2>1, <2>2, <3>2, Upto
    <3>4. \A k \in 1 .. Len(data) : data[k] = d[k]
      BY ONLY <3>1, <3>3, Zenon
    <3> QED BY <3>1, <3>4 DEF Begins
  <2>4. Loaded = m
    BY <1>1, <2>3, LoadedWhole
  <2>5. Written = d
    BY <1>1, <2>4, LoadedWritten
  <2>6. i = Len(d)
    <3>1. "ok" \notin Records /\ "ok" \notin Payloads
      BY RecordNames DEF Payloads
    <3>2. Flagless /\ ~bad
      BY <1>1, <2>3, BeginsFlagless DEF WrittenInv
    <3>3. i = Base /\ Base = Len(Written)
      BY <1>1, <3>1, <3>2, Places DEF WrittenInv
    <3> QED BY <2>5, <3>3
  <2> HIDE DEF d
  <2>7. Len(data) = Len(d)
    BY <2>1, <2>3, <2>6 DEF Begins
  <2> QED BY <2>1, <2>2, <2>3, <2>7, BeginsSub
<1> QED BY <1>1, Invariance, AlwaysWritten, AlwaysFollows, PTL
=============================================================================
