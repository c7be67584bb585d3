------------------------------ MODULE Lockstep ------------------------------
(***************************************************************************)
(* What a session of ExecutionContexts (src/src/mpc/execution.rs) promises *)
(* about order: parties go through the exchanges of a circuit one by one,  *)
(* with no clock and no coordinator, and none completes an exchange before *)
(* all it waits for have begun it.  The first is the comparison of hashes, *)
(* which waits for everybody and for equal circuits.                       *)
(***************************************************************************)
EXTENDS Integers, Sequences

CONSTANTS
  Parties,
  Circuits,
  Exchanges(_, _)  \* the exchanges of a circuit for a party: whom each waits for

VARIABLES
  circuit,   \* the circuit of each party
  progress   \* the number of exchanges it has completed

vars == <<circuit, progress>>

\* What whoever instantiates the module sees to.
ExchangesTyped ==
  \A c \in Circuits : \A p \in Parties :
    Exchanges(c, p) \in Seq(SUBSET Parties)

Init ==
  /\ circuit \in [Parties -> Circuits]
  /\ progress = [p \in Parties |-> 0]

Complete(p) == progress' = [progress EXCEPT ![p] = @ + 1] /\ UNCHANGED circuit

Agree(p) ==
  /\ progress[p] = 0
  /\ \A q \in Parties : circuit[q] = circuit[p]
  /\ Complete(p)

Exchange(p) ==
  /\ progress[p] \in DOMAIN Exchanges(circuit[p], p)
  /\ \A q \in Exchanges(circuit[p], p)[progress[p]] : progress[q] >= progress[p]
  /\ Complete(p)

Next == \E p \in Parties : Agree(p) \/ Exchange(p)

Spec == Init /\ [][Next]_vars

\* Nobody goes past the end of its circuit; whoever has completed an exchange
\* has the circuit of everybody, and all that it waited for have completed
\* every exchange before that one.
InStep ==
  \A p \in Parties :
    /\ progress[p] <= Len(Exchanges(circuit[p], p)) + 1
    /\ progress[p] > 0 => \A q \in Parties : circuit[q] = circuit[p]
    /\ \A k \in 1 .. progress[p] - 1 :
         \A q \in Exchanges(circuit[p], p)[k] : progress[q] >= k
=============================================================================
