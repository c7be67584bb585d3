----------------------------- MODULE MC_Sharing -----------------------------
(***************************************************************************)
(* Circuits for the arithmetic of the additive scheme, and the values that *)
(* users give, which are not reduced.                                      *)
(***************************************************************************)
EXTENDS Sharing

\* A random mask over an input, opened.
Masked == <<GenRandom(1), Input(0, 2), Add(2, 1, 3), Reveal(3, 4)>>
\* The sum of two parties' inputs.
Sum == <<Input(0, 1), Input(1, 2), Add(1, 2, 3), Reveal(3, 4)>>
\* What tests::test_is_circuit_sound takes for sound (additive.rs:371-385), with
\* the sum of a public and a shared wire revealed as well.
MixedSum == <<Input(0, 0), Reveal(0, 1), Add(1, 0, 2), Reveal(2, 3)>>

MaskedOrSum == {Masked, Sum}
MixedOnly == {MixedSum}
\* Modulo 3, an input that the shares dealt may exceed, and the largest one.
MCValues == {4, 5}
=============================================================================
