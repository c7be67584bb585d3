-------------------------- MODULE Soundness_proofs --------------------------
(***************************************************************************)
(* The types that is_circuit_sound finds: in any list of operations whose  *)
(* wires have one writer each they are never revised, and when it answers  *)
(* they are the least fixpoint of its rules.                               *)
(***************************************************************************)
EXTENDS Soundness, SequenceTheorems, TLAPS

\* A wire that has a type has the one that its writer would give it now.
TypedByWriter ==
  ~ProducedManyTimes =>
    \A k \in DOMAIN ops : ops[k].output \in DOMAIN wire_types =>
      NewType(ops[k]) = {wire_types[ops[k].output]}

PassInv == ops \in Circuits /\ at \in 0 .. Len(ops) /\ TypedByWriter

LEMMA CircuitIsSeq ==
  ASSUME ops \in Circuits
  PROVE  /\ Len(ops) \in Nat /\ DOMAIN ops = 1 .. Len(ops)
         /\ \A k \in DOMAIN ops : ops[k].kind \in Kinds
<1>1. ops \in Seq(Range(ops)) /\ \A op \in Range(ops) : op.kind \in Kinds
  BY SoundnessAssumption
<1>2. Len(ops) \in Nat /\ DOMAIN ops = 1 .. Len(ops)
  BY <1>1, LenProperties
<1>3. \A k \in DOMAIN ops : ops[k] \in Range(ops)
  BY DEF Range
<1> QED BY <1>1, <1>2, <1>3

\* A type found from some wires is found again when more wires are typed.
LEMMA TypeIsMonotone ==
  ASSUME NEW op, op.kind \in Kinds, NewType(op) # {},
         DOMAIN wire_types \subseteq DOMAIN wire_types',
         \A w \in DOMAIN wire_types : wire_types'[w] = wire_types[w]
  PROVE  NewType(op)' = NewType(op)
<1>1. CASE op.kind # "Add"
  BY <1>1 DEF NewType, Kinds
<1>2. CASE op.kind = "Add"
  <2>1. Range(op.inputs) \subseteq DOMAIN wire_types
    BY <1>2 DEF NewType
  <2>2. Range(op.inputs) \subseteq DOMAIN wire_types'
    BY <2>1
  <2>3. (\A w \in Range(op.inputs) : wire_types'[w] = "Public")
          <=> (\A w \in Range(op.inputs) : wire_types[w] = "Public")
    BY <2>1
  <2> QED BY <1>2, <2>1, <2>2, <2>3 DEF NewType
<1> QED BY <1>1, <1>2

\* What an iteration of a pass does to the types.
LEMMA Iteration ==
  ASSUME PassInv, TypeOutput, ~ProducedManyTimes
  PROVE  TypedByWriter' /\ \A w \in DOMAIN wire_types : wire_types'[w] = wire_types[w]
<1> DEFINE op == ops[at]
<1>1. at \in DOMAIN ops /\ ops' = ops /\ op.kind \in Kinds
  BY CircuitIsSeq DEF PassInv, TypeOutput
<1>2. CASE wire_types' = wire_types
  BY <1>1, <1>2 DEF PassInv, TypedByWriter, NewType, ProducedManyTimes
<1>3. CASE \E ty \in NewType(op) :
             wire_types' = [w \in DOMAIN wire_types \cup {op.output} |->
                              IF w = op.output THEN ty ELSE wire_types[w]]
  <2>1. PICK ty \in NewType(op) :
          wire_types' = [w \in DOMAIN wire_types \cup {op.output} |->
                           IF w = op.output THEN ty ELSE wire_types[w]]
    BY <1>3
  <2>2. op.output \in DOMAIN wire_types => NewType(op) = {wire_types[op.output]}
    BY <1>1 DEF PassInv, TypedByWriter
  <2>3. \A w \in DOMAIN wire_types : wire_types'[w] = wire_types[w]
    BY <2>1, <2>2
  <2>4. DOMAIN wire_types \subseteq DOMAIN wire_types' /\ wire_types'[op.output] = ty
    BY <2>1
  <2>5. NewType(op) = {ty}
    BY <1>1, <2>1 DEF NewType, Kinds
  <2>6. ASSUME NEW k \in DOMAIN ops, ops[k].output \in DOMAIN wire_types'
        PROVE  NewType(ops[k])' = {wire_types'[ops[k].output]}
    <3>0. ops'[k] = ops[k] /\ ops[k].kind \in Kinds
      BY <1>1, CircuitIsSeq DEF PassInv
    <3>1. CASE k = at
      <4>1. NewType(op) # {}
        BY <2>5
      <4>2. NewType(op)' = NewType(op)'
        OBVIOUS
      <4>3. \A o : o.kind \in Kinds /\ NewType(o) # {} => NewType(o)' = NewType(o)
        BY <2>3, <2>4, TypeIsMonotone
      <4> QED BY <3>0, <3>1, <1>1, <2>4, <2>5, <4>1, <4>3
    <3>2. CASE k # at
      <4>1. ops[k].output # op.output
        BY <1>1, <3>2 DEF ProducedManyTimes
      <4>2. ops[k].output \in DOMAIN wire_types
        BY <2>1, <2>6, <4>1
      <4>3. NewType(ops[k]) = {wire_types[ops[k].output]}
        BY <4>2 DEF PassInv, TypedByWriter
      <4>4. wire_types'[ops[k].output] = wire_types[ops[k].output]
        BY <2>3, <4>2
      <4> QED BY <3>0, <2>3, <2>4, <4>3, <4>4, TypeIsMonotone
    <3> QED BY <3>1, <3>2
  <2>7. TypedByWriter'
    BY <1>1, <2>6 DEF TypedByWriter
  <2> QED BY <2>3, <2>7
<1> QED BY <1>2, <1>3 DEF TypeOutput

LEMMA PassInvInit == Init => PassInv
BY CircuitIsSeq DEF Init, PassInv, TypedByWriter

LEMMA PassInvNext == PassInv /\ [Next]_vars => PassInv'
<1> SUFFICES ASSUME PassInv, [Next]_vars PROVE PassInv'
  OBVIOUS
<1>1. Len(ops) \in Nat
  BY CircuitIsSeq DEF PassInv
<1>2. CASE TypeOutput
  <2>1. ops' = ops /\ at' \in 0 .. Len(ops)
    BY <1>1, <1>2 DEF TypeOutput, PassInv
  <2>2. TypedByWriter'
    BY <1>2, <2>1, Iteration DEF TypedByWriter, ProducedManyTimes
  <2> QED BY <2>1, <2>2 DEF PassInv
<1>3. CASE StartPass
  <2>1. ops' = ops /\ wire_types' = wire_types /\ at' = 1 /\ ops # << >>
    BY <1>3 DEF StartPass
  <2>2. ops \in Seq(Range(ops))
    BY SoundnessAssumption DEF PassInv
  <2>3. Len(ops) # 0
    BY <2>1, <2>2, EmptySeq
  <2>4. at' \in 0 .. Len(ops')
    BY <1>1, <2>1, <2>3
  <2> QED BY <2>1, <2>4 DEF PassInv, TypedByWriter, NewType, ProducedManyTimes
<1>4. CASE Refuse \/ FoundSound \/ Validate \/ UNCHANGED vars
  BY <1>4 DEF Refuse, FoundSound, Validate, vars, PassInv, TypedByWriter, NewType, ProducedManyTimes
<1> QED BY <1>2, <1>3, <1>4 DEF Next

\* A type once found is never revised while every wire has one writer, in any
\* list of operations (additive.rs, the passes of is_circuit_sound).
THEOREM TypesAreStable == Spec => TypesNeverRevised
<1>1. Init => PassInv
  BY PassInvInit
<1>2. PassInv /\ [Next]_vars => PassInv'
  BY PassInvNext
<1>3. PassInv /\ [Next]_vars =>
        [~ProducedManyTimes => \A w \in DOMAIN wire_types : wire_types'[w] = wire_types[w]]_vars
  <2> SUFFICES ASSUME PassInv, Next, ~ProducedManyTimes
               PROVE  \A w \in DOMAIN wire_types : wire_types'[w] = wire_types[w]
    OBVIOUS
  <2>1. CASE TypeOutput
    BY <2>1, Iteration
  <2>2. CASE Refuse \/ StartPass \/ FoundSound \/ Validate
    BY <2>2 DEF Refuse, StartPass, FoundSound, Validate
  <2> QED BY <2>1, <2>2 DEF Next
<1> QED BY <1>1, <1>2, <1>3, PTL DEF Spec, TypesNeverRevised

-----------------------------------------------------------------------------
(* The passes end in the least fixpoint.                                   *)

Ready(k) == ops[k].kind = "Add" => Range(ops[k].inputs) \subseteq DOMAIN wire_types

\* Only wires that must be typed are, and only those that a share reaches are
\* shared.
TypesFounded ==
  /\ wire_types = [w \in DOMAIN wire_types |-> wire_types[w]]
  /\ DOMAIN wire_types \subseteq Typable
  /\ \A w \in DOMAIN wire_types : wire_types[w] = "Public" \/ (wire_types[w] = "Shared" /\ w \in Shared)

\* While a pass has changed nothing, the operations it has been at have nothing
\* more to say; and the answer is given after a whole pass of that kind.
PassSettled ==
  /\ ~changed => \A k \in DOMAIN ops : (at = 0 \/ k < at) /\ Ready(k) => ops[k].output \in DOMAIN wire_types
  /\ Finished => at = 0 /\ ~changed

FixInv == PassInv /\ TypesFounded /\ PassSettled

LEMMA NewTypeIs ==
  ASSUME PassInv, NEW k \in DOMAIN ops
  PROVE  /\ NewType(ops[k]) # {} <=> Ready(k)
         /\ \A ty \in NewType(ops[k]) :
              /\ ty \in {"Shared", "Public"}
              /\ ty = "Shared" => ops[k].kind # "Reveal"
              /\ ty = "Shared" /\ ops[k].kind = "Add" =>
                   \E w \in Range(ops[k].inputs) \cap DOMAIN wire_types : wire_types[w] # "Public"
<1>1. ops[k].kind \in Kinds
  BY CircuitIsSeq DEF PassInv
<1> QED BY <1>1 DEF NewType, Ready, Kinds

\* The wire that an operation types must be typed, and is reached by a share if
\* its new type says so.
LEMMA NewTypeFounded ==
  ASSUME PassInv, TypesFounded, NEW k \in DOMAIN ops, NEW ty \in NewType(ops[k])
  PROVE  ops[k].output \in Typable /\ (ty = "Shared" => ops[k].output \in Shared)
<1>1. ops[k].output \in Produced /\ Ready(k)
  BY NewTypeIs DEF Produced
<1>2. ASSUME NEW S \in SUBSET Produced, Closed(S) PROVE ops[k].output \in S
  <2>1. DOMAIN wire_types \subseteq S
    BY <1>2 DEF TypesFounded, Typable
  <2> QED BY <1>1, <1>2, <2>1 DEF Closed, Ready
<1>3. ASSUME ty = "Shared", NEW S \in SUBSET Produced, SharedBy(S) PROVE ops[k].output \in S
  <2>1. CASE ops[k].kind = "Add"
    <3>1. PICK w \in Range(ops[k].inputs) \cap DOMAIN wire_types : wire_types[w] # "Public"
      BY <1>3, <2>1, NewTypeIs
    <3>2. w \in S
      BY <1>3, <3>1 DEF TypesFounded, Shared
    <3> QED BY <1>3, <2>1, <3>1, <3>2 DEF SharedBy
  <2>2. CASE ops[k].kind # "Add"
    BY <1>3, <2>2, NewTypeIs DEF SharedBy
  <2> QED BY <2>1, <2>2
<1> QED BY <1>1, <1>2, <1>3 DEF Typable, Shared

LEMMA FixInit == Init => FixInv
<1> SUFFICES ASSUME Init PROVE FixInv
  OBVIOUS
<1>1. wire_types = << >> /\ changed = TRUE /\ verdict = "none"
  BY DEF Init
<1>2. DOMAIN wire_types = {} /\ wire_types = [w \in {} |-> wire_types[w]]
  BY <1>1
<1> QED BY <1>1, <1>2, PassInvInit DEF FixInv, TypesFounded, PassSettled, Finished

LEMMA FixTypeOutput == ASSUME FixInv, TypeOutput PROVE FixInv'
<1> DEFINE op == ops[at]
<1>1. PassInv' /\ PassInv /\ TypesFounded /\ PassSettled
  BY PassInvNext DEF FixInv, Next
<1>2. /\ at \in DOMAIN ops /\ at \in Nat /\ ops' = ops /\ ~Finished /\ verdict' = verdict
      /\ DOMAIN ops = 1..Len(ops) /\ Len(ops) \in Nat
      /\ at' = IF at = Len(ops) THEN 0 ELSE at + 1
  BY <1>1, CircuitIsSeq DEF PassInv, TypeOutput, PassSettled
<1>3. Produced' = Produced /\ Typable' = Typable /\ Shared' = Shared /\ ~Finished'
  BY <1>2 DEF Produced, Typable, Shared, Closed, SharedBy, Finished
<1>4. CASE NewType(op) = {} /\ UNCHANGED <<wire_types, changed>>
  <2>1. ~Ready(at)
    BY <1>1, <1>2, <1>4, NewTypeIs
  <2>2. PassSettled'
    <3> SUFFICES ASSUME ~changed', NEW k \in DOMAIN ops, at' = 0 \/ k < at', Ready(k)'
                 PROVE  ops[k].output \in DOMAIN wire_types
      BY <1>2, <1>3, <1>4 DEF PassSettled
    <3>1. Ready(k) /\ k # at /\ ~changed
      BY <1>2, <1>4, <2>1 DEF Ready
    <3>2. k < at
      BY <1>2, <3>1
    <3> QED BY <1>1, <3>1, <3>2 DEF PassSettled
  <2>3. TypesFounded'
    BY <1>1, <1>3, <1>4 DEF TypesFounded
  <2> QED BY <1>1, <2>2, <2>3 DEF FixInv
<1>5. ASSUME NEW ty \in NewType(op),
             wire_types' = [w \in DOMAIN wire_types \cup {op.output} |->
                              IF w = op.output THEN ty ELSE wire_types[w]],
             changed' = (changed \/ op.output \notin DOMAIN wire_types \/ wire_types[op.output] # ty)
      PROVE  FixInv'
  <2>1. /\ op.output \in Typable
        /\ ty = "Shared" => op.output \in Shared
        /\ ty \in {"Shared", "Public"}
    BY <1>1, <1>2, NewTypeFounded, NewTypeIs
  <2>2. DOMAIN wire_types' = DOMAIN wire_types \cup {op.output}
    BY <1>5
  <2>3. TypesFounded'
    BY <1>1, <1>3, <1>5, <2>1, <2>2 DEF TypesFounded
  <2>4. PassSettled'
    <3> SUFFICES ASSUME ~changed', NEW k \in DOMAIN ops, at' = 0 \/ k < at', Ready(k)'
                 PROVE  ops[k].output \in DOMAIN wire_types'
      BY <1>2, <1>3 DEF PassSettled
    <3>1. ~changed /\ DOMAIN wire_types' = DOMAIN wire_types
      BY <1>5, <2>2
    <3>2. Ready(k)
      BY <1>2, <3>1 DEF Ready
    <3>3. CASE k = at
      BY <2>2, <3>3
    <3>4. CASE k # at
      <4>1. k < at
        BY <1>2, <3>4
      <4> QED BY <1>1, <3>1, <3>2, <4>1 DEF PassSettled
    <3> QED BY <3>3, <3>4
  <2> QED BY <1>1, <2>3, <2>4 DEF FixInv
<1> QED BY <1>4, <1>5 DEF TypeOutput

LEMMA FixNext == FixInv /\ [Next]_vars => FixInv'
<1> SUFFICES ASSUME FixInv, [Next]_vars PROVE FixInv'
  OBVIOUS
<1>1. PassInv'
  BY PassInvNext DEF FixInv
<1>2. ASSUME UNCHANGED <<ops, wire_types>> PROVE TypesFounded'
  BY <1>2 DEF FixInv, TypesFounded, Typable, Shared, Closed, SharedBy, Produced
<1>3. CASE TypeOutput
  BY <1>3, FixTypeOutput
<1>4. CASE StartPass
  <2>1. \A k \in DOMAIN ops : ~(k < 1)
    BY CircuitIsSeq DEF FixInv, PassInv
  <2> QED BY <1>1, <1>2, <1>4, <2>1 DEF StartPass, FixInv, PassSettled, Finished
<1>5. CASE Refuse \/ FoundSound \/ Validate \/ UNCHANGED vars
  BY <1>1, <1>2, <1>5 DEF Refuse, FoundSound, Validate, vars, FixInv, PassSettled, Finished, Ready
<1> QED BY <1>3, <1>4, <1>5 DEF Next

\* When is_circuit_sound answers, for any list whatever: every wire that can be
\* typed is typed, and as shared exactly when a share reaches it, if no wire has
\* two writers.
THEOREM TypedToFixpoint == Spec => []LeastFixpoint
<1>1. ASSUME FixInv, Finished PROVE LeastFixpoint
  <2>1. /\ PassInv /\ TypesFounded
        /\ \A k \in DOMAIN ops : Ready(k) => ops[k].output \in DOMAIN wire_types
    BY <1>1 DEF FixInv, PassSettled
  <2> DEFINE Typed == DOMAIN wire_types
             Untouched == {w \in Produced : w \notin Typed \/ wire_types[w] = "Shared"}
  <2>2. Typed \in SUBSET Produced /\ Closed(Typed)
    BY <2>1 DEF TypesFounded, Typable, Closed, Ready
  <2>3. Typed = Typable
    BY <2>1, <2>2 DEF TypesFounded, Typable
  <2>4. ASSUME ~ProducedManyTimes PROVE SharedBy(Untouched)
    <3> SUFFICES ASSUME NEW k \in DOMAIN ops, ops[k].kind # "Reveal",
                        ~(ops[k].kind = "Add" /\ Range(ops[k].inputs) \cap Untouched = {}),
                        ops[k].output \in Typed
                 PROVE  wire_types[ops[k].output] = "Shared"
      BY DEF SharedBy, Produced
    <3>1. NewType(ops[k]) = {wire_types[ops[k].output]} /\ ops[k].kind \in Kinds
      BY <2>1, <2>4, CircuitIsSeq DEF PassInv, TypedByWriter
    <3>2. CASE ops[k].kind = "Add"
      <4>1. PICK w \in Range(ops[k].inputs) : w \in Untouched
        BY <3>2
      <4>2. Range(ops[k].inputs) \subseteq Typed
        BY <2>1, <3>1, <3>2, NewTypeIs DEF Ready
      <4>3. wire_types[w] # "Public"
        BY <4>1, <4>2
      <4> QED BY <3>1, <3>2, <4>2, <4>3 DEF NewType
    <3>3. CASE ops[k].kind # "Add"
      BY <3>1, <3>3 DEF NewType, Kinds
    <3> QED BY <3>2, <3>3
  <2>5. ASSUME ~ProducedManyTimes, NEW w \in Typed
        PROVE  wire_types[w] = IF w \in Shared THEN "Shared" ELSE "Public"
    <3>1. Untouched \in SUBSET Produced
      OBVIOUS
    <3>2. w \in Shared => w \in Untouched
      BY <2>4, <2>5, <3>1 DEF Shared
    <3> QED BY <2>1, <2>5, <3>2 DEF TypesFounded
  <2>6. ~ProducedManyTimes =>
          wire_types = [w \in Typable |-> IF w \in Shared THEN "Shared" ELSE "Public"]
    BY <2>1, <2>3, <2>5 DEF TypesFounded
  <2> QED BY <2>3, <2>6 DEF LeastFixpoint
<1>2. FixInv => LeastFixpoint
  BY <1>1 DEF LeastFixpoint
<1> QED BY <1>2, FixInit, FixNext, PTL DEF Spec
=============================================================================
