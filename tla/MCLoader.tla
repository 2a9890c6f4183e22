------------------------------- MODULE MCLoader ------------------------------
(***************************************************************************)
(* Inputs for the loader: serialized modules, whole, cut short anywhere,   *)
(* with bytes behind them, and with one byte replaced.                     *)
(***************************************************************************)
EXTENDS Serialize

K(t, payload) == [tag |-> t, payload |-> payload]
Name    == K("Str", <<109>>)
Empty   == K("Str", <<>>)
Eight   == <<1, 2, 3, 4, 5, 6, 7, 255>>
Main(n, code) == [name_const |-> n, num_params |-> 1, num_regs |-> 2, max_stack |-> 258,
                  code |-> code]
MCModules ==
  { [consts |-> <<Name>>, funcs |-> <<Main(0, <<0>>)>>, entry_func |-> 0],
    [consts |-> <<Empty>>, funcs |-> <<Main(0, <<>>), Main(0, <<64, 0, 0>>)>>, entry_func |-> 1],
    [consts |-> <<K("Int", Eight), K("Bool", <<1>>), Name>>, funcs |-> <<Main(2, <<2, 0>>)>>,
     entry_func |-> 0],
    [consts |-> <<K("Nil", <<>>), Empty, K("Double", Eight), K("Bool", <<0>>)>>,
     funcs |-> <<Main(1, <<49, 1>>)>>, entry_func |-> 0] }

\* Bytes a damaged input may hold (127 as the highest byte of a length is the
\* largest number that TLC's integers hold).
Damage == {0, 1, 2, 3, 4, 20, 127}
MCInputs ==
  LET whole == {serialize(m) : m \in MCModules} IN
  UNION {{SubSeq(b, 1, k) : k \in 0 .. Len(b)} : b \in whole}
    \cup {b \o <<0, 67>> : b \in whole}
    \cup UNION {{[b EXCEPT ![k] = d] : k \in 1 .. Len(b), d \in Damage} : b \in whole}
==============================================================================
