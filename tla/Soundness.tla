------------------------------ MODULE Soundness ------------------------------
(***************************************************************************)
(* The validation that MpcCircuit::new (src/src/mpc/circuit.rs) runs on a   *)
(* list of additive operations: is_circuit_sound                            *)
(* (src/src/example/additive.rs), which types the wires by passes over the  *)
(* list until one changes nothing, and only then the test that no wire is   *)
(* written twice.                                                          *)
(***************************************************************************)
EXTENDS Additive, Functions

CONSTANTS
  Circuits,  \* lists of additive operations
  Moduli     \* values of the const parameter M

Kinds == {"Input", "GenRandom", "Add", "Reveal"}

ASSUME SoundnessAssumption ==
  /\ Moduli \subseteq Nat
  /\ \A c \in Circuits : c \in Seq(Range(c)) /\ \A op \in Range(c) : op.kind \in Kinds

VARIABLES
  ops,         \* the list under validation
  M,
  wire_types,  \* types found so far, by wire
  changed,     \* whether the current pass changed a type
  at,          \* index of the operation next in the pass, 0 between passes
  verdict      \* "none", "sound", and then what the constructor makes of it

vars == <<ops, M, wire_types, changed, at, verdict>>

Init ==
  /\ ops \in Circuits
  /\ M \in Moduli
  /\ wire_types = << >>
  /\ changed = TRUE
  /\ at = 0
  /\ verdict = "none"

\* A plausible slip: an Add is typed by whichever summand is known.
NewType_EitherKnown(op) ==
  CASE op.kind \in {"Input", "GenRandom"} -> {"Shared"}
    [] op.kind = "Reveal" -> {"Public"}
    [] op.kind = "Add" ->
         LET known == {wire_types[w] : w \in Range(op.inputs) \cap DOMAIN wire_types}
         IN IF known = {} THEN {}
            ELSE IF known = {"Public"} THEN {"Public"} ELSE {"Shared"}

\* The type an operation gives to its output: none yet for an Add with a
\* summand of unknown type.
NewType(op) ==
  CASE op.kind \in {"Input", "GenRandom"} -> {"Shared"}
    [] op.kind = "Reveal" -> {"Public"}
    [] op.kind = "Add" ->
         IF ~(Range(op.inputs) \subseteq DOMAIN wire_types) THEN {}
         ELSE IF \A w \in Range(op.inputs) : wire_types[w] = "Public" THEN {"Public"}
         ELSE {"Shared"}

\* The two refusals that come before any pass.
Refuse ==
  /\ verdict = "none" /\ at = 0 /\ wire_types = << >>
  /\ \/ ops = << >> /\ verdict' = "EmptyCircuit"
     \/ ops # << >> /\ M = 0 /\ verdict' = "CircuitUnsound"
  /\ UNCHANGED <<ops, M, wire_types, changed, at>>

\* A plausible slip: the flag is never reset.
StartPass_NoReset ==
  /\ verdict = "none" /\ at = 0 /\ ops # << >> /\ M # 0
  /\ changed
  /\ at' = 1
  /\ UNCHANGED <<ops, M, wire_types, changed, verdict>>

\* `while changed { changed = false; ...`
StartPass ==
  /\ verdict = "none" /\ at = 0 /\ ops # << >> /\ M # 0
  /\ changed
  /\ changed' = FALSE
  /\ at' = 1
  /\ UNCHANGED <<ops, M, wire_types, verdict>>

\* A plausible slip: the first insertion of a type is not taken for a change.
TypeOutput_KnownOnly ==
  /\ at # 0
  /\ LET op == ops[at]
     IN \/ /\ NewType(op) = {}
           /\ UNCHANGED <<wire_types, changed>>
        \/ \E ty \in NewType(op) :
             /\ wire_types' = [w \in DOMAIN wire_types \cup {op.output} |->
                                 IF w = op.output THEN ty ELSE wire_types[w]]
             /\ changed' = (changed \/ /\ op.output \in DOMAIN wire_types
                                       /\ wire_types[op.output] # ty)
  /\ at' = IF at = Len(ops) THEN 0 ELSE at + 1
  /\ UNCHANGED <<ops, M, verdict>>

\* One iteration of the pass; an insertion that replaces another type, or
\* none, counts as a change.
TypeOutput ==
  /\ at # 0
  /\ LET op == ops[at]
     IN \/ /\ NewType(op) = {}
           /\ UNCHANGED <<wire_types, changed>>
        \/ \E ty \in NewType(op) :
             /\ wire_types' = [w \in DOMAIN wire_types \cup {op.output} |->
                                 IF w = op.output THEN ty ELSE wire_types[w]]
             /\ changed' = (changed \/ op.output \notin DOMAIN wire_types
                                    \/ wire_types[op.output] # ty)
  /\ at' = IF at = Len(ops) THEN 0 ELSE at + 1
  /\ UNCHANGED <<ops, M, verdict>>

FoundSound ==
  /\ verdict = "none" /\ at = 0 /\ ~changed
  /\ verdict' = "sound"
  /\ UNCHANGED <<ops, M, wire_types, changed, at>>

Produced == {ops[k].output : k \in DOMAIN ops}
ProducedManyTimes == \E j, k \in DOMAIN ops : j # k /\ ops[j].output = ops[k].output
Dangling == \E k \in DOMAIN ops : ~(Range(ops[k].inputs) \subseteq Produced)

\* The tests of the constructor that follow is_circuit_sound.
Validate ==
  /\ verdict = "sound"
  /\ verdict' = IF ProducedManyTimes THEN "WireProducedManyTimes"
                ELSE IF Dangling THEN "WireConsumedButNotProduced"
                ELSE "Valid"
  /\ UNCHANGED <<ops, M, wire_types, changed, at>>

Next == Refuse \/ StartPass \/ TypeOutput \/ FoundSound \/ Validate

\* Sequential code: it takes every step it can take.
Spec == Init /\ [][Next]_vars
FairSpec == Spec /\ WF_vars(Next)

-----------------------------------------------------------------------------
(* Properties                                                              *)

\* Wires that every set closed under the operations holds: those whose value
\* does not wait for itself or for a wire that nobody writes.
Closed(S) == \A k \in DOMAIN ops :
  (ops[k].kind = "Add" => Range(ops[k].inputs) \subseteq S) => ops[k].output \in S
Typable == {w \in Produced : \A S \in SUBSET Produced : Closed(S) => w \in S}

\* Wires that a share reaches through sums alone: the least set that holds the
\* outputs of Input and GenRandom and the sums of its members.
SharedBy(S) == \A k \in DOMAIN ops :
  \/ ops[k].kind = "Reveal"
  \/ ops[k].kind = "Add" /\ Range(ops[k].inputs) \cap S = {}
  \/ ops[k].output \in S
Shared == {w \in Produced : \A S \in SUBSET Produced : SharedBy(S) => w \in S}

Finished == verdict \notin {"none", "EmptyCircuit", "CircuitUnsound"}

\* When is_circuit_sound answers, the passes have reached the least fixpoint:
\* every wire that can be typed has a type and, if no wire has two writers, it is
\* shared exactly when a share reaches it through sums alone.
LeastFixpoint ==
  Finished => /\ DOMAIN wire_types = Typable
              /\ ~ProducedManyTimes =>
                   wire_types = [w \in Typable |-> IF w \in Shared THEN "Shared" ELSE "Public"]

\* In a circuit whose wires have one writer each, a type once found is never
\* revised, on which the end of the passes rests.
TypesNeverRevised ==
  [][~ProducedManyTimes => \A w \in DOMAIN wire_types : wire_types'[w] = wire_types[w]]_vars

\* circuit.rs:86, "Raised when a specific wire identifier is designated as the
\* target of an output multiple times": a list that writes a wire twice is
\* refused with that error.
DuplicatesRefused == (M # 0 /\ ProducedManyTimes) ~> verdict = "WireProducedManyTimes"

\* The validation answers.
Answers == <>(verdict \notin {"none", "sound"})
=============================================================================
