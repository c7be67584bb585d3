----------------------------- MODULE MC_Circuit -----------------------------
(***************************************************************************)
(* Operation lists for MpcCircuit::new.  Operation number k of a generated *)
(* list writes wire k and reads at most two wires of the list, so every    *)
(* dependency graph on that many operations occurs, with self loops,       *)
(* cycles and repeated wires.  The shapes outside that family (no output,  *)
(* two outputs, wires written twice or never, inputs that read wires,      *)
(* wider and longer graphs) are listed one by one.                         *)
(***************************************************************************)
EXTENDS Circuit

MCWires == 1..5

Op(is_input, is_local, inputs, outputs) ==
  [is_input |-> is_input, is_local |-> is_local, inputs |-> inputs, outputs |-> outputs]
Input(ins, out) == Op(TRUE, FALSE, ins, <<out>>)
Local(ins, out) == Op(FALSE, TRUE, ins, <<out>>)
Network(ins, out) == Op(FALSE, FALSE, ins, <<out>>)

Reads(n) == UNION {[1..m -> 1..n] : m \in 0..2}
Writers(n, k) ==
  {Input(<< >>, k)} \cup {Local(ins, k) : ins \in Reads(n)} \cup {Network(ins, k) : ins \in Reads(n)}
Generated(n) == {q \in [1..n -> UNION {Writers(n, k) : k \in 1..n}] :
                 \A k \in 1..n : q[k].outputs = <<k>>}
Pairs == Generated(2)
Triples == {<<a, b, c>> : a \in Writers(3, 1), b \in Writers(3, 2), c \in Writers(3, 3)}

Refused == <<Input(<< >>, 1), Local(<<1, 1>>, 2)>>

Shapes == {
  << >>,
  Refused,
  <<Op(TRUE, TRUE, << >>, <<1>>)>>,
  <<Input(<< >>, 1), Input(<< >>, 1)>>,
  <<Op(FALSE, FALSE, << >>, <<1, 1>>)>>,
  <<Input(<< >>, 1), Local(<<1, 2>>, 3)>>,
  \* no output, two outputs read by one consumer
  <<Input(<< >>, 1), Op(FALSE, FALSE, <<1>>, << >>)>>,
  <<Op(FALSE, FALSE, << >>, <<1, 2>>), Local(<<1, 2, 1>>, 3), Input(<<3>>, 4)>>,
  \* an input that reads the output of another one, and one behind a cycle
  <<Input(<< >>, 1), Input(<<1>>, 2), Local(<<2>>, 3)>>,
  <<Local(<<2>>, 1), Local(<<1>>, 2), Input(<<2>>, 3), Network(<< >>, 4)>>,
  \* input, reveal and sum of the additive example
  <<Input(<< >>, 1), Input(<< >>, 2), Network(<<1>>, 3), Local(<<1, 2>>, 4), Local(<<3, 4>>, 5)>>,
  \* offline work of two rounds, then online work that uses it
  <<Network(<< >>, 1), Network(<<1>>, 2), Input(<< >>, 3), Local(<<2, 3>>, 4), Network(<<4, 4>>, 5)>>,
  \* a diamond whose sink is listed first
  <<Network(<<2, 3>>, 1), Local(<<4>>, 2), Network(<<4>>, 3), Input(<< >>, 4)>> }

MCUnsound == {Refused}
MCCircuits == Triples \cup Pairs \cup Shapes
MCSmallCircuits == Pairs \cup Shapes
=============================================================================
