---------------------------- MODULE MC_Execution ----------------------------
(***************************************************************************)
(* Circuits, as MpcCircuit::new lays them out in rounds, and the lists     *)
(* that users offer to prepare_input.                                      *)
(***************************************************************************)
EXTENDS Execution

Round(locals, networks) == [local_operations |-> locals, network_operations |-> networks]
Plan(offline, online) == [offline_rounds |-> offline, online_rounds |-> online]

\* The offline wave holds the inputs until they are set aside, which leaves an
\* empty round behind.
Online(online) == Plan(<<Round(<< >>, << >>)>>, online)

\* Two inputs of two parties, of which the sum is revealed.
Sum == Online(
  <<Round(<< >>, <<Input(0, 1), Input(1, 2)>>), Round(<<Add(1, 2, 3)>>, <<Reveal(3, 4)>>)>>)

\* A random value, revealed before the inputs are known.
Coin == Plan(<<Round(<<GenRandom(1)>>, <<Reveal(1, 2)>>)>>, << >>)

\* Two random values, revealed in one frame before the inputs are known.
Coins == Plan(<<Round(<<GenRandom(1), GenRandom(2)>>, <<Reveal(1, 3), Reveal(2, 4)>>)>>, << >>)

\* Two inputs of one party, both revealed.
Double == Online(
  <<Round(<< >>, <<Input(0, 1), Input(0, 2)>>), Round(<< >>, <<Reveal(1, 4), Reveal(2, 3)>>)>>)

SumOrCoin == {Sum, Coin}
DoubleOrCoins == {Double, Coins}

\* Lists that are right for some party, too short, repeated or foreign.
SomeInputs == {<< >>, <<1>>, <<2>>}
MCInputs == SomeInputs \cup {<<1, 2>>, <<1, 1>>}
=============================================================================
