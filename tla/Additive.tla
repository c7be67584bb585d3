------------------------------ MODULE Additive ------------------------------
(***************************************************************************)
(* The operations of the additive scheme (src/src/example/additive.rs) as  *)
(* the execution engine sees them: what an operation reads and writes, and *)
(* which parties it makes a party send a share to or expect a share from.  *)
(***************************************************************************)
EXTENDS Naturals, Sequences

Input(party_id, output) == [kind |-> "Input", party_id |-> party_id, inputs |-> << >>, output |-> output]
GenRandom(output) == [kind |-> "GenRandom", inputs |-> << >>, output |-> output]
Add(left, right, output) == [kind |-> "Add", inputs |-> <<left, right>>, output |-> output]
Reveal(input, output) == [kind |-> "Reveal", inputs |-> <<input>>, output |-> output]

IsInputOf(op, party) == op.kind = "Input" /\ op.party_id = party
IsOperationLocal(op) == op.kind \in {"Add", "GenRandom"}

\* The send requests of do_network_phase: one share to every other party, by
\* the inputter of an Input and by everyone in a Reveal.
Sends(op, me) == IsInputOf(op, me) \/ op.kind = "Reveal"

\* Its receive requests: one share from the inputter, or from everyone else.
Receives(op, me, from) == from # me /\ (IsInputOf(op, from) \/ op.kind = "Reveal")
=============================================================================
