------------------------------ MODULE Serialize ------------------------------
(***************************************************************************)
(* The serializer (src/src/module.cc) as an operator, and what loading and *)
(* serializing owe each other.                                             *)
(***************************************************************************)
EXTENDS Loader, SequencesExt

CONSTANT Modules   \* [consts, funcs, entry_func], as Loader represents them

put16(n) == <<n % 256, n \div 256>>
put32(n) == put16(n % 65536) \o put16(n \div 65536)

TagByte(t) == CHOOSE b \in DOMAIN CTag : CTag[b] = t

ConstBytes(c) ==
  <<TagByte(c.tag)>> \o (IF c.tag = "Str" THEN put32(Len(c.payload)) ELSE <<>>) \o c.payload

FuncBytes(f) ==
  put32(f.name_const) \o <<f.num_params, f.num_regs>> \o put16(f.max_stack)
    \o put32(Len(f.code)) \o f.code

Each(s, Op(_)) == FlattenSeq([k \in DOMAIN s |-> Op(s[k])])

serialize(m) ==
  <<67, 66, 67, 1>> \o put16(1) \o put16(0)
    \o put32(Len(m.consts)) \o put32(Len(m.funcs)) \o put32(m.entry_func)
    \o Each(m.consts, ConstBytes) \o Each(m.funcs, FuncBytes)

Loaded == [consts |-> consts, funcs |-> funcs, entry_func |-> header.entry_func]

\* What serialize is given: lengths that fit their fields, payloads as long as their
\* tags say, and functions named by strings.
Fits32(k) == k \div 65536 < 65536
Serializable(m) ==
  /\ m \in [consts : Seq(Constant), funcs : Seq(Function), entry_func : Nat]
  /\ Fits32(Len(m.consts)) /\ Fits32(Len(m.funcs)) /\ m.entry_func < Len(m.funcs)
  /\ \A k \in 1 .. Len(m.consts) :
       LET c == m.consts[k] IN
       /\ c.tag \in {"Int", "Double"} => Len(c.payload) = 8
       /\ c.tag = "Str" => Fits32(Len(c.payload))
       /\ c.tag = "Nil" => c.payload = <<>>
       /\ c.tag = "Bool" => c.payload \in {<<0>>, <<1>>}
  /\ \A k \in 1 .. Len(m.funcs) :
       LET f == m.funcs[k] IN
       /\ f.name_const < Len(m.consts) /\ m.consts[f.name_const + 1].tag = "Str"
       /\ f.max_stack < 65536 /\ Fits32(Len(f.code))
ASSUME ModulesAssumption == \A m \in Modules : Serializable(m)

\* A serialized module is never rejected and loads as itself.
RoundTrip ==
  phase \in {"ok", "err"} =>
    \A m \in Modules : data = serialize(m) => phase = "ok" /\ Loaded = m

\* No proper prefix of a serialized module is accepted.
TruncationRejected ==
  phase = "ok" => \A m \in Modules : ~IsStrictPrefix(data, serialize(m))

\* Whatever is accepted, well-formed or damaged, is the serialization of what was
\* loaded, followed by bytes the loader never looked at.  Only the reserved flags
\* and the nonzero bytes read as true are not told apart.
Canonical ==
  phase = "ok" /\ data[7] = 0 /\ data[8] = 0 =>
    LET again == serialize(Loaded) IN
    /\ Len(again) = i
    /\ \A k \in 1 .. i : again[k] = data[k] \/ (again[k - 1] = 4 /\ again[k] = 1 /\ data[k] # 0)
=============================================================================
