------------------------------ MODULE Evaluation ------------------------------
(***************************************************************************)
(* What a circuit of additive operations promises                          *)
(* (src/src/example/additive.rs): the values its wires stand for, as one   *)
(* trusted evaluator would write them down, one wire after another.  No    *)
(* shares, no parties, no messages.                                        *)
(***************************************************************************)
EXTENDS Additive, Functions

CONSTANTS
  M,         \* the modulus
  Circuits,  \* lists of additive operations
  Values     \* values that users may give

VARIABLES
  ops,    \* the circuit
  given,  \* the value its owner has for each input wire
  value   \* the value of each wire, for wires evaluated

vars == <<ops, given, value>>

InputWires(circuit) == {op.output : op \in {o \in Range(circuit) : o.kind = "Input"}}

Init ==
  /\ ops \in Circuits
  /\ given \in [InputWires(ops) -> Values]
  /\ value = << >>

\* The values that an operation may give to its output.
Meaning(op) ==
  CASE op.kind = "Input"     -> {given[op.output] % M}
    [] op.kind = "GenRandom" -> 0 .. M - 1
    [] op.kind = "Add"       -> {(value[op.inputs[1]] + value[op.inputs[2]]) % M}
    [] op.kind = "Reveal"    -> {value[op.inputs[1]]}

Evaluate(op) ==
  /\ op.output \notin DOMAIN value
  /\ Range(op.inputs) \subseteq DOMAIN value
  /\ \E v \in Meaning(op) :
       value' = [w \in DOMAIN value \cup {op.output} |-> IF w = op.output THEN v ELSE value[w]]
  /\ UNCHANGED <<ops, given>>

Next == \E op \in Range(ops) : Evaluate(op)

Spec == Init /\ [][Next]_vars
=============================================================================
