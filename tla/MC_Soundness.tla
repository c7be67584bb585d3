---------------------------- MODULE MC_Soundness ----------------------------
(***************************************************************************)
(* Lists of additive operations: every list of two or three operations of  *)
(* which number k writes wire k, with cycles, wires read before they are   *)
(* written and wires that nobody writes; lists that write a wire twice and *)
(* find one type for it; and lists that find two.                          *)
(***************************************************************************)
EXTENDS Soundness

Writers(n, k) ==
  {Input(0, k), GenRandom(k)} \cup {Add(l, r, k) : l, r \in 1..n} \cup {Reveal(i, k) : i \in 1..n}
Pairs == {<<a, b>> : a \in Writers(3, 1), b \in Writers(3, 2)}
Triples == {<<a, b, c>> : a \in Writers(3, 1), b \in Writers(3, 2), c \in Writers(3, 3)}

SameTypeTwice == {
  <<Input(0, 1), Input(1, 1)>>,
  <<GenRandom(1), Add(1, 1, 2), Input(0, 2)>>,
  <<Reveal(1, 2), GenRandom(1), Reveal(2, 2), Add(2, 2, 2)>>,
  <<Add(3, 3, 1), Reveal(1, 1)>>,
  <<Input(0, 1), Add(1, 3, 2), Reveal(1, 2)>>}

\* A chain of sums listed backwards, which takes a pass per link.
Backwards == {<<Add(3, 3, 4), Add(2, 2, 3), Add(1, 1, 2), Reveal(4, 1)>>}

MCCircuits == {<< >>} \cup Pairs \cup Triples \cup SameTypeTwice \cup Backwards

TwoTypes == {
  <<Input(0, 1), Reveal(1, 1)>>,
  <<Input(0, 1), Input(1, 1)>>,
  <<GenRandom(1), Reveal(1, 2), Add(1, 2, 2)>>}

MCModuli == {0, 2}
=============================================================================
