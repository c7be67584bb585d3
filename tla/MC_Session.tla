----------------------------- MODULE MC_Session -----------------------------
(***************************************************************************)
(* Lists of additive operations for two parties.                           *)
(***************************************************************************)
EXTENDS Session

\* All lists of three operations that write wires 1 to 3 in this order, the
\* first input being that of party 0 and the third that of party 1.
Owners == <<{0}, {0, 1}, {1}>>
Writers(w) == {Input(p, w) : p \in Owners[w]} \cup {GenRandom(w)} \cup {Reveal(a, w) : a \in 1..3}
                \cup {Add(pair[1], pair[2], w) : pair \in {q \in (1..3) \X (1..3) : q[1] <= q[2]}}
Triples == {<<x, y, z>> : x \in Writers(1), y \in Writers(2), z \in Writers(3)}

\* Preprocessing, two inputs, and sums of local and of exchanged wires, listed
\* out of order.
Masked == <<Reveal(6, 7), Add(4, 5, 6), GenRandom(1), Reveal(1, 2), Input(0, 4), Input(1, 5)>>
\* A random wire added to an input: mixed, and laid out in a safe order.
Masking == <<GenRandom(1), Input(0, 2), Add(1, 2, 3), Reveal(3, 4)>>
\* A list that is mixed, and of which the last sum is run too early.
Early == <<Input(0, 1), Reveal(1, 3), Add(1, 1, 2), Add(2, 3, 4)>>

MCLists == Triples \cup {Masked, Masking, Early}
MCInputs == {<< >>, <<1>>, <<2>>, <<3>>, <<4>>, <<5>>, <<1, 2>>, <<1, 3>>, <<2, 3>>, <<1, 2, 3>>}
=============================================================================
