--------------------------- MODULE Circuit_proofs ---------------------------
(***************************************************************************)
(* What the traversal of MpcCircuit::new guarantees for every operation    *)
(* list.  Two inductive invariants: IInv relates three things the code     *)
(* keeps in step, the slots still Some, the in-degrees and the queues;     *)
(* RInv, on top of it, says where in the rounds the operations taken stand. *)
(***************************************************************************)
EXTENDS Circuit, FiniteSetTheorems, SequenceTheorems, TLAPS

Distinct(q) == \A m, n \in DOMAIN q : q[m] = q[n] => m = n

(* Sequences without repetition.                                           *)

\* What Tail leaves of a sequence without repetition: all but its head.
LEMMA TailFacts ==
  ASSUME NEW S, NEW q \in Seq(S), q # << >>, Distinct(q)
  PROVE  /\ Head(q) \in Range(q)
         /\ Tail(q) \in Seq(S)
         /\ Distinct(Tail(q))
         /\ Range(Tail(q)) = Range(q) \ {Head(q)}
<1>1. /\ Head(q) = q[1] /\ Tail(q) \in Seq(S) /\ Len(Tail(q)) = Len(q) - 1
      /\ \A m \in 1..(Len(q) - 1) : Tail(q)[m] = q[m + 1]
  BY HeadTailProperties
<1>2. /\ Len(q) \in Nat /\ Len(q) >= 1 /\ DOMAIN q = 1..Len(q)
      /\ DOMAIN Tail(q) = 1..(Len(q) - 1)
  BY <1>1, LenProperties, EmptySeq
<1>3. Head(q) \in Range(q)
  BY <1>1, <1>2 DEF Range
<1>4. Distinct(Tail(q))
  BY <1>1, <1>2 DEF Distinct
<1>5. Range(Tail(q)) = Range(q) \ {Head(q)}
  <2>1. ASSUME NEW x \in Range(Tail(q)) PROVE x \in Range(q) /\ x # Head(q)
    <3>1. PICK m \in 1..(Len(q) - 1) : x = q[m + 1]
      BY <1>1, <1>2 DEF Range
    <3> QED BY <3>1, <1>1, <1>2 DEF Range, Distinct
  <2>2. ASSUME NEW x \in Range(q), x # Head(q) PROVE x \in Range(Tail(q))
    <3>1. PICK m \in 1..Len(q) : x = q[m]
      BY <1>2 DEF Range
    <3>2. m - 1 \in 1..(Len(q) - 1) /\ Tail(q)[m - 1] = q[m]
      BY <3>1, <2>2, <1>1, <1>2
    <3> QED BY <3>1, <3>2, <1>2 DEF Range
  <2> QED BY <2>1, <2>2
<1> QED BY <1>1, <1>3, <1>4, <1>5

\* Concatenation of sequences without repetition and without common elements.
LEMMA ConcatFacts ==
  ASSUME NEW S, NEW a \in Seq(S), NEW b \in Seq(S)
  PROVE  /\ a \o b \in Seq(S)
         /\ Range(a \o b) = Range(a) \cup Range(b)
         /\ (Distinct(a) /\ Distinct(b) /\ Range(a) \cap Range(b) = {}) => Distinct(a \o b)
<1>1. /\ a \o b \in Seq(S) /\ Len(a \o b) = Len(a) + Len(b)
      /\ \A m \in 1..(Len(a) + Len(b)) : (a \o b)[m] = IF m <= Len(a) THEN a[m] ELSE b[m - Len(a)]
  BY ConcatProperties
<1>2. /\ Len(a) \in Nat /\ Len(b) \in Nat
      /\ DOMAIN a = 1..Len(a) /\ DOMAIN b = 1..Len(b) /\ DOMAIN (a \o b) = 1..(Len(a) + Len(b))
  BY <1>1, LenProperties
<1>3. Range(a \o b) = Range(a) \cup Range(b)
  <2>1. ASSUME NEW x \in Range(a \o b) PROVE x \in Range(a) \cup Range(b)
    <3>1. PICK m \in 1..(Len(a) + Len(b)) : x = (a \o b)[m]
      BY <1>2 DEF Range
    <3>2. CASE m <= Len(a)
      BY <3>1, <3>2, <1>1, <1>2 DEF Range
    <3>3. CASE m > Len(a)
      <4>1. m - Len(a) \in 1..Len(b) /\ x = b[m - Len(a)]
        BY <3>1, <3>3, <1>1, <1>2
      <4> QED BY <4>1, <1>2 DEF Range
    <3> QED BY <3>2, <3>3, <1>2
  <2>2. ASSUME NEW x \in Range(a) PROVE x \in Range(a \o b)
    <3>1. PICK m \in 1..Len(a) : x = a[m]
      BY <1>2 DEF Range
    <3>2. m \in 1..(Len(a) + Len(b)) /\ (a \o b)[m] = x
      BY <3>1, <1>1, <1>2
    <3> QED BY <3>2, <1>2 DEF Range
  <2>3. ASSUME NEW x \in Range(b) PROVE x \in Range(a \o b)
    <3>1. PICK m \in 1..Len(b) : x = b[m]
      BY <1>2 DEF Range
    <3>2. m + Len(a) \in 1..(Len(a) + Len(b)) /\ (a \o b)[m + Len(a)] = x
      BY <3>1, <1>1, <1>2
    <3> QED BY <3>2, <1>2 DEF Range
  <2> QED BY <2>1, <2>2, <2>3
<1>4. ASSUME Distinct(a), Distinct(b), Range(a) \cap Range(b) = {}
      PROVE  Distinct(a \o b)
  <2>1. \A m \in 1..Len(a), n \in 1..Len(b) : a[m] # b[n]
    BY <1>4, <1>2 DEF Range
  <2>2. SUFFICES ASSUME NEW m \in 1..(Len(a) + Len(b)), NEW n \in 1..(Len(a) + Len(b)),
                        (a \o b)[m] = (a \o b)[n]
                 PROVE  m = n
    BY <1>2 DEF Distinct
  <2>3. CASE m <= Len(a) /\ n <= Len(a)
    BY <2>2, <2>3, <1>1, <1>2, <1>4 DEF Distinct
  <2>4. CASE m > Len(a) /\ n > Len(a)
    BY <2>2, <2>4, <1>1, <1>2, <1>4 DEF Distinct
  <2>5. CASE m <= Len(a) /\ n > Len(a)
    BY <2>1, <2>2, <2>5, <1>1, <1>2
  <2>6. CASE m > Len(a) /\ n <= Len(a)
    BY <2>1, <2>2, <2>6, <1>1, <1>2
  <2> QED BY <2>3, <2>4, <2>5, <2>6, <1>2
<1> QED BY <1>1, <1>3, <1>4

\* Append adds its element at the end.
LEMMA AppendFacts ==
  ASSUME NEW S, NEW q \in Seq(S), NEW e \in S
  PROVE  /\ Append(q, e) \in Seq(S)
         /\ Range(Append(q, e)) = Range(q) \cup {e}
         /\ (Distinct(q) /\ e \notin Range(q)) => Distinct(Append(q, e))
<1>1. /\ Append(q, e) \in Seq(S) /\ Len(Append(q, e)) = Len(q) + 1
      /\ \A m \in 1..Len(q) : Append(q, e)[m] = q[m]
      /\ Append(q, e)[Len(q) + 1] = e
  BY AppendProperties
<1>2. /\ Len(q) \in Nat /\ DOMAIN q = 1..Len(q) /\ DOMAIN Append(q, e) = 1..(Len(q) + 1)
  BY <1>1, LenProperties
<1>3. \A m \in 1..(Len(q) + 1) : m \in 1..Len(q) \/ m = Len(q) + 1
  BY <1>2
<1>4. Range(Append(q, e)) = Range(q) \cup {e}
  BY <1>1, <1>2, <1>3 DEF Range
<1>5. (Distinct(q) /\ e \notin Range(q)) => Distinct(Append(q, e))
  BY <1>1, <1>2, <1>3 DEF Range, Distinct
<1> QED BY <1>1, <1>4, <1>5

\* A sequence without repetition is as long as its range is large.
LEMMA DistinctLength ==
  ASSUME NEW S, NEW q \in Seq(S), Distinct(q)
  PROVE  Cardinality(Range(q)) = Len(q)
<1>1. Len(q) \in Nat /\ DOMAIN q = 1..Len(q) /\ q \in [1..Len(q) -> Range(q)]
  BY LenProperties, RangeOfSeq DEF Range
<1>2. q \in Surjection(1..Len(q), Range(q)) /\ q \in Injection(1..Len(q), Range(q))
  BY <1>1 DEF Surjection, Injection, IsInjective, Distinct, Range
<1>3. IsFiniteSet(1..Len(q)) /\ Cardinality(1..Len(q)) = Len(q)
  BY <1>1, FS_Interval
<1> QED BY <1>2, <1>3, FS_Surjection

\* Ascending lists each member of a finite set once.
LEMMA AscendingFacts ==
  ASSUME NEW S, IsFiniteSet(S), S \subseteq Nat, NEW q \in Ascending(S)
  PROVE  q \in Seq(S) /\ Range(q) = S /\ Distinct(q)
<1>1. Cardinality(S) \in Nat
  BY FS_CardinalityType
<1>2. /\ q \in [1..Cardinality(S) -> S]
      /\ \A m, n \in DOMAIN q : m < n => q[m] < q[n]
      /\ \A x \in S : \E m \in DOMAIN q : q[m] = x
  BY DEF Ascending
<1>3. q \in Seq(S)
  BY <1>1, <1>2
<1>4. Range(q) = S
  BY <1>2 DEF Range
<1>5. \A m, n \in DOMAIN q : m = n \/ m < n \/ n < m
  BY <1>1, <1>2
<1>6. \A m \in DOMAIN q : q[m] \in Nat
  BY <1>2
<1>7. Distinct(q)
  BY <1>2, <1>5, <1>6 DEF Distinct
<1> QED BY <1>3, <1>4, <1>7

-----------------------------------------------------------------------------
(* The graph.  Each lemma is about the state of one operation list.        *)

\* What the assumption on Circuits says of the list at hand.
LEMMA ListFacts ==
  ASSUME raw_ops \in Circuits
  PROVE  /\ Indices \subseteq Nat /\ IsFiniteSet(Indices)
         /\ \A j \in Indices : /\ raw_ops[j] \in Operation
                               /\ Len(raw_ops[j].inputs) \in Nat
                               /\ Slots(j) = 1..Len(raw_ops[j].inputs)
                               /\ IsFiniteSet(Slots(j))
                               /\ Cardinality(Slots(j)) = Len(raw_ops[j].inputs)
<1>1. raw_ops \in Seq(Operation)
  BY CircuitsAssumption
<1>2. Indices = 1..Len(raw_ops) /\ Len(raw_ops) \in Nat
  BY <1>1, LenProperties DEF Indices
<1>3. Indices \subseteq Nat /\ IsFiniteSet(Indices)
  BY <1>2, FS_Interval
<1>4. ASSUME NEW j \in Indices
      PROVE  /\ raw_ops[j] \in Operation
             /\ Len(raw_ops[j].inputs) \in Nat
             /\ Slots(j) = 1..Len(raw_ops[j].inputs)
             /\ IsFiniteSet(Slots(j))
             /\ Cardinality(Slots(j)) = Len(raw_ops[j].inputs)
  <2>1. raw_ops[j] \in Operation
    BY <1>1, <1>2, ElementOfSeq
  <2>2. raw_ops[j].inputs \in Seq(Wires)
    BY <2>1 DEF Operation
  <2>3. Slots(j) = 1..Len(raw_ops[j].inputs) /\ Len(raw_ops[j].inputs) \in Nat
    BY <2>2, LenProperties DEF Slots
  <2> QED BY <2>1, <2>3, FS_Interval
<1> QED BY <1>3, <1>4

\* A list that passes the checks produces each wire once, so a slot is fed by
\* one operation only, and by one at least.
LEMMA OneFeeder ==
  ASSUME raw_ops \in Circuits, Verdict = "Valid", NEW j \in Indices, NEW s \in Slots(j)
  PROVE  /\ \E i \in Indices : s \in Fed(i, j)
         /\ \A i, k \in Indices : s \in Fed(i, j) /\ s \in Fed(k, j) => i = k
<1>1. ~ProducedManyTimes /\ ~ConsumedNotProduced
  BY DEF Verdict
<1>2. \E i \in Indices : s \in Fed(i, j)
  BY <1>1 DEF ConsumedNotProduced
<1>3. ASSUME NEW i \in Indices, NEW k \in Indices, s \in Fed(i, j), s \in Fed(k, j)
      PROVE  i = k
  <2>1. PICK m \in DOMAIN raw_ops[i].outputs : raw_ops[i].outputs[m] = raw_ops[j].inputs[s]
    BY <1>3 DEF Fed, Range
  <2>2. PICK n \in DOMAIN raw_ops[k].outputs : raw_ops[k].outputs[n] = raw_ops[j].inputs[s]
    BY <1>3 DEF Fed, Range
  <2>3. <<i, m>> \in OutputSlots /\ <<k, n>> \in OutputSlots
    BY <2>1, <2>2 DEF OutputSlots
  <2>4. OutputAt(<<i, m>>) = OutputAt(<<k, n>>)
    BY <2>1, <2>2 DEF OutputAt
  <2>5. <<i, m>> = <<k, n>>
    BY <1>1, <2>3, <2>4 DEF ProducedManyTimes
  <2> QED BY <2>5
<1> QED BY <1>2, <1>3

-----------------------------------------------------------------------------
(* The inductive invariant.                                                *)

Shape ==
  /\ raw_ops \in Circuits
  /\ pc \in {"new", "offline", "online", "done"}
  /\ ops \subseteq Indices
  /\ wave \in Seq(Indices) /\ next_wave \in Seq(Indices) /\ online_wave \in Seq(Indices)
  /\ open \in BOOLEAN
  /\ local_operations \in Seq(Indices) /\ network_operations \in Seq(Indices)
  /\ offline_rounds \in Seq(Round) /\ online_rounds \in Seq(Round)
  /\ result \in {"none", "Ok"} \cup Errors
  /\ in_degree \in [Indices -> Nat]

\* What holds before the traversal, and of the variables of each wave.
Stages ==
  /\ pc = "new" => ops = Indices
  /\ Processing => Verdict = "Valid"
  /\ Processing => result = "none"
  /\ pc = "new" => /\ result = "none" /\ ~open
                   /\ wave = << >> /\ next_wave = << >> /\ online_wave = << >>
  /\ ~open => next_wave = << >>
  /\ pc = "online" => online_wave = << >>

InQueue == Range(wave) \cup Range(next_wave) \cup Range(online_wave)

\* The three queues hold no operation twice.
NoRepeats ==
  /\ Distinct(wave) /\ Distinct(next_wave) /\ Distinct(online_wave)
  /\ Range(wave) \cap Range(next_wave) = {}
  /\ Range(wave) \cap Range(online_wave) = {}
  /\ Range(next_wave) \cap Range(online_wave) = {}

\* An operation is queued exactly while it is unblocked and not yet taken.
QueuedExactly == InQueue = {j \in ops : Unresolved(j) = {}}

\* An operation is taken only after all its producers.
TakenUnblocked == \A j \in Indices \ ops : Unresolved(j) = {}

\* No member of a core is ever taken.
CoresStay == \A S \in SUBSET Indices : Core(S) => S \subseteq ops

Traversal == NoRepeats /\ QueuedExactly /\ TakenUnblocked /\ CoresStay /\ InDegreeExact

IInv == Shape /\ Stages /\ (Processing => Traversal) /\ CyclicExactly

-----------------------------------------------------------------------------
(* What each kind of step does to the parts of the invariant.              *)

\* As long as the operation list is the same, so is the graph.
LEMMA SameGraph ==
  ASSUME raw_ops' = raw_ops
  PROVE  /\ Indices' = Indices
         /\ \A j : Slots(j)' = Slots(j)
         /\ \A i, j : Fed(i, j)' = Fed(i, j)
         /\ \A S : Core(S)' = Core(S)
         /\ Verdict' = Verdict
         /\ Operation' = Operation
         /\ Round' = Round
BY DEF Indices, Slots, Fed, Core, Feeds, Verdict, Operation, Round, IsInput, IsLocal,
       ProducedManyTimes, ConsumedNotProduced, OutputSlots, OutputAt

\* A core that is still in ops blocks every one of its members.
LEMMA CoreBlocks ==
  ASSUME raw_ops \in Circuits, NEW S \in SUBSET Indices, Core(S), S \subseteq ops, NEW j \in S
  PROVE  Unresolved(j) # {}
<1>1. PICK i \in S : Fed(i, j) # {}
  BY DEF Core, Feeds
<1>2. Fed(i, j) \subseteq Unresolved(j)
  BY <1>1 DEF Fed, Unresolved
<1> QED BY <1>1, <1>2

\* Taking a queued operation and resolving the slots it feeds keeps in-degrees
\* exact; the operations released are those it was the last to block.
LEMMA TakeStep ==
  ASSUME Shape, Verdict = "Valid", Traversal, Processing, Processing',
         NEW i \in InQueue, raw_ops' = raw_ops, ops' = ops \ {i}, in_degree' = Decremented(i)
  PROVE  /\ i \in Indices
         /\ in_degree' \in [Indices -> Nat]
         /\ InDegreeExact'
         /\ TakenUnblocked'
         /\ CoresStay'
         /\ Released(i) \subseteq Indices /\ Released(i) \cap InQueue = {}
         /\ {j \in ops' : Unresolved(j)' = {}} = (InQueue \ {i}) \cup Released(i)
<1> USE DEF Shape, Traversal
<1>0. /\ i \in ops /\ i \in Indices /\ Unresolved(i) = {}
      /\ InQueue = {j \in ops : Unresolved(j) = {}} /\ ops \subseteq Indices
  BY DEF QueuedExactly
<1>1. ASSUME NEW j \in Indices
      PROVE  /\ Fed(i, j) \subseteq Unresolved(j)
             /\ Unresolved(j)' = Unresolved(j) \ Fed(i, j)
  <2>1. \A s \in Slots(j) : \A k \in Indices : s \in Fed(i, j) /\ s \in Fed(k, j) => i = k
    BY <1>0, OneFeeder
  <2>2. Fed(i, j) \subseteq Unresolved(j)
    BY <1>0 DEF Fed, Unresolved
  <2>3. Unresolved(j)' = {s \in Slots(j) : \E k \in ops \ {i} : s \in Fed(k, j)}
    BY SameGraph DEF Unresolved
  <2>4. Unresolved(j)' = Unresolved(j) \ Fed(i, j)
    BY <1>0, <2>1, <2>3 DEF Unresolved
  <2> QED BY <2>2, <2>4
<1>2. ASSUME NEW j \in Indices
      PROVE  /\ IsFiniteSet(Unresolved(j)) /\ IsFiniteSet(Fed(i, j))
             /\ Cardinality(Unresolved(j)) \in Nat /\ Cardinality(Fed(i, j)) \in Nat
             /\ Cardinality(Unresolved(j)') = Cardinality(Unresolved(j)) - Cardinality(Fed(i, j))
             /\ Cardinality(Unresolved(j)') \in Nat
             /\ in_degree[j] = Cardinality(Unresolved(j))
             /\ in_degree'[j] = Cardinality(Unresolved(j)')
  <2>1. IsFiniteSet(Slots(j)) /\ Unresolved(j) \subseteq Slots(j)
    BY ListFacts DEF Unresolved
  <2>2. IsFiniteSet(Unresolved(j)) /\ Cardinality(Unresolved(j)) \in Nat
    BY <2>1, FS_Subset, FS_CardinalityType
  <2>3. IsFiniteSet(Fed(i, j)) /\ Cardinality(Fed(i, j)) \in Nat
    BY <1>1, <2>2, FS_Subset, FS_CardinalityType
  <2>4. Unresolved(j) \cap Fed(i, j) = Fed(i, j)
    BY <1>1
  <2>5. /\ IsFiniteSet(Unresolved(j)')
        /\ Cardinality(Unresolved(j)') = Cardinality(Unresolved(j)) - Cardinality(Fed(i, j))
    <3>1. /\ IsFiniteSet(Unresolved(j) \ Fed(i, j))
          /\ Cardinality(Unresolved(j) \ Fed(i, j))
               = Cardinality(Unresolved(j)) - Cardinality(Unresolved(j) \cap Fed(i, j))
      BY <2>2, FS_Difference
    <3> QED BY <3>1, <1>1, <2>4
  <2>6. Cardinality(Unresolved(j)') \in Nat
    BY <2>5, FS_CardinalityType
  <2>7. in_degree[j] = Cardinality(Unresolved(j))
    BY DEF InDegreeExact
  <2>8. in_degree'[j] = in_degree[j] - Cardinality(Fed(i, j))
    BY DEF Decremented
  <2> QED BY <2>2, <2>3, <2>5, <2>6, <2>7, <2>8
<1>3. in_degree' \in [Indices -> Nat]
  <2>1. in_degree' = [j \in Indices |-> in_degree[j] - Cardinality(Fed(i, j))]
    BY DEF Decremented
  <2> QED BY <2>1, <1>2
<1>4. InDegreeExact'
  BY <1>2, SameGraph DEF InDegreeExact
<1>5. TakenUnblocked'
  <2>1. \A j \in Indices \ ops' : Unresolved(j) = {}
    BY <1>0 DEF TakenUnblocked
  <2> QED BY <2>1, <1>1, SameGraph DEF TakenUnblocked
<1>6. CoresStay'
  <2>1. SUFFICES ASSUME NEW S \in SUBSET Indices, Core(S) PROVE S \subseteq ops'
    BY SameGraph DEF CoresStay
  <2>2. S \subseteq ops
    BY <2>1 DEF CoresStay
  <2>3. i \notin S
    BY <1>0, <2>1, <2>2, CoreBlocks
  <2> QED BY <2>2, <2>3
<1>7. ASSUME NEW j \in Indices
      PROVE  j \in Released(i) <=> Unresolved(j) # {} /\ Unresolved(j)' = {}
  <2>1. in_degree[j] = Cardinality(Fed(i, j)) <=> Unresolved(j)' = {}
    <3>1. IsFiniteSet(Unresolved(j)')
      BY <1>1, <1>2, FS_Difference, ZenonT(40)
    <3>2. Cardinality(Unresolved(j)') = 0 <=> Unresolved(j)' = {}
      BY <3>1, FS_EmptySet
    <3> QED BY <1>2, <3>2
  <2>2. Unresolved(j)' = {} => (Fed(i, j) # {} <=> Unresolved(j) # {})
    BY <1>1
  <2> QED BY <2>1, <2>2 DEF Released, Feeds
<1>8. Released(i) \subseteq Indices /\ Released(i) \cap InQueue = {}
  BY <1>0, <1>7 DEF Released
<1>9. {j \in ops' : Unresolved(j)' = {}} = (InQueue \ {i}) \cup Released(i)
  <2>1. \A j \in Indices : j \in Released(i) => j \in ops /\ j # i
    BY <1>0, <1>7 DEF TakenUnblocked
  <2> QED BY <2>1, <1>0, <1>1, <1>7, <1>8
<1> QED BY <1>0, <1>3, <1>4, <1>5, <1>6, <1>8, <1>9

\* Steps that take no operation leave what concerns the graph alone.
LEMMA QuietStep ==
  ASSUME Shape, Traversal, Processing, raw_ops' = raw_ops, ops' = ops, in_degree' = in_degree
  PROVE  /\ InDegreeExact' /\ TakenUnblocked' /\ CoresStay'
         /\ (InQueue' = InQueue => QueuedExactly')
<1>1. \A j : Unresolved(j)' = Unresolved(j)
  BY SameGraph DEF Unresolved
<1> QED BY <1>1, SameGraph DEF Traversal, InDegreeExact, TakenUnblocked, CoresStay, QueuedExactly

LEMMA EmptyFacts == Range(<< >>) = {} /\ Distinct(<< >>) /\ \A S : << >> \in Seq(S)
BY EmptySeq DEF Range, Distinct

LEMMA InitIInv == Init => IInv
<1> SUFFICES ASSUME Init PROVE IInv
  OBVIOUS
<1>1. Shape
  BY EmptyFacts DEF Init, Shape
<1>2. Stages /\ ~Processing /\ CyclicExactly
  BY DEF Init, Stages, Processing, CyclicExactly
<1> QED BY <1>1, <1>2 DEF IInv

LEMMA RejectIInv == IInv /\ Reject => IInv'
<1> SUFFICES ASSUME IInv, Reject PROVE IInv'
  OBVIOUS
<1> USE DEF IInv, Reject, queues, current, rounds
<1>1. Verdict \in Errors \ {"CircuitCyclic"}
  BY DEF Verdict, Errors
<1>2. Shape'
  BY <1>1, SameGraph DEF Shape, Errors
<1>3. Stages' /\ ~Processing'
  BY DEF Stages, Processing
<1>4. CyclicExactly'
  BY <1>1 DEF CyclicExactly, Errors
<1> QED BY <1>2, <1>3, <1>4

LEMMA BuildGraphIInv == IInv /\ BuildGraph => IInv'
<1> SUFFICES ASSUME IInv, BuildGraph PROVE IInv'
  OBVIOUS
<1> DEFINE Free == {j \in Indices : Slots(j) = {}}
<1>1. /\ raw_ops \in Circuits /\ raw_ops' = raw_ops /\ Verdict = "Valid" /\ pc' = "offline"
      /\ ops = Indices /\ ops' = Indices /\ result' = "none"
      /\ next_wave' = << >> /\ online_wave' = << >>
  BY DEF IInv, Shape, Stages, BuildGraph, queues, current, rounds
<1>2. Free \subseteq Nat /\ IsFiniteSet(Free)
  BY <1>1, ListFacts, FS_Subset
<1>3. wave' \in Ascending(Free)
  BY DEF BuildGraph
<1> HIDE DEF Free
<1>4. wave' \in Seq(Free) /\ Range(wave') = Free /\ Distinct(wave')
  BY <1>2, <1>3, AscendingFacts
<1>5. wave' \in Seq(Indices)
  BY <1>4 DEF Free
<1>6. in_degree' = [j \in Indices |-> Len(raw_ops[j].inputs)] /\ in_degree' \in [Indices -> Nat]
  BY <1>1, ListFacts DEF BuildGraph
<1>7. \A j \in Indices : Unresolved(j)' = Slots(j)
  BY <1>1, SameGraph, OneFeeder DEF Unresolved
<1>8. Shape'
  BY <1>1, <1>5, <1>6, SameGraph, EmptyFacts DEF IInv, Shape, BuildGraph, current, rounds
<1>9. Stages'
  BY <1>1, SameGraph DEF IInv, Stages, Processing, BuildGraph, current
<1>10. NoRepeats'
  BY <1>1, <1>4, EmptyFacts DEF NoRepeats
<1>11. QueuedExactly'
  BY <1>1, <1>4, <1>7, EmptyFacts DEF QueuedExactly, InQueue, Free
<1>12. TakenUnblocked' /\ CoresStay'
  BY <1>1, SameGraph DEF TakenUnblocked, CoresStay
<1>13. InDegreeExact'
  BY <1>1, <1>6, <1>7, ListFacts, SameGraph DEF InDegreeExact
<1>14. CyclicExactly'
  BY <1>1 DEF CyclicExactly
<1> QED BY <1>8, <1>9, <1>10, <1>11, <1>12, <1>13, <1>14 DEF IInv, Traversal

LEMMA DeferInputIInv == \A i \in Indices : IInv /\ DeferInput(i) => IInv'
<1> SUFFICES ASSUME NEW i \in Indices, IInv, DeferInput(i) PROVE IInv'
  OBVIOUS
<1>1. /\ Shape /\ Stages /\ Traversal /\ Processing /\ Processing' /\ pc = "offline" /\ pc' = pc
      /\ i = Head(wave) /\ wave # << >> /\ wave' = Tail(wave) /\ online_wave' = Append(online_wave, i)
      /\ next_wave' = next_wave /\ raw_ops' = raw_ops /\ ops' = ops /\ in_degree' = in_degree
      /\ result' = result /\ open'
  BY DEF IInv, DeferInput, Deferred, Popping, Processing
<1>2. /\ Distinct(wave) /\ i \in Range(wave) /\ Tail(wave) \in Seq(Indices)
      /\ Distinct(Tail(wave)) /\ Range(Tail(wave)) = Range(wave) \ {i}
  BY <1>1, TailFacts DEF Shape, Traversal, NoRepeats
<1>3. i \notin Range(online_wave) /\ i \notin Range(next_wave) /\ Distinct(online_wave)
  BY <1>1, <1>2 DEF Traversal, NoRepeats
<1>4. /\ online_wave' \in Seq(Indices) /\ Distinct(online_wave')
      /\ Range(online_wave') = Range(online_wave) \cup {i}
  BY <1>1, <1>3, AppendFacts DEF Shape
<1>5. Shape'
  BY <1>1, <1>2, <1>4, SameGraph DEF Shape, DeferInput, rounds
<1>6. Stages'
  BY <1>1, SameGraph DEF Stages, Processing
<1>7. NoRepeats'
  BY <1>1, <1>2, <1>3, <1>4 DEF Traversal, NoRepeats
<1>8. InQueue' = InQueue
  BY <1>1, <1>2, <1>4 DEF InQueue
<1>9. Traversal'
  BY <1>1, <1>7, <1>8, QuietStep DEF Traversal
<1>10. CyclicExactly'
  BY <1>1 DEF CyclicExactly, Stages
<1> QED BY <1>5, <1>6, <1>9, <1>10 DEF IInv

\* What the two scheduling actions share: the head of the wave is taken and the
\* operations it releases are fit to be queued.
LEMMA PopFacts ==
  ASSUME IInv, NEW i \in Indices, Popping(i), raw_ops' = raw_ops, pc' = pc, ops' = ops \ {i},
         in_degree' = Decremented(i), NEW released \in Ascending(Released(i))
  PROVE  /\ Shape /\ Stages /\ NoRepeats /\ Processing /\ Processing' /\ Verdict = "Valid"
         /\ i \in Range(wave) /\ InQueue \subseteq Indices
         /\ Tail(wave) \in Seq(Indices) /\ Distinct(Tail(wave))
         /\ Range(Tail(wave)) = Range(wave) \ {i}
         /\ released \in Seq(Indices) /\ Distinct(released)
         /\ Range(released) \cap InQueue = {}
         /\ in_degree' \in [Indices -> Nat] /\ ops' \subseteq Indices
         /\ (InQueue' = (InQueue \ {i}) \cup Range(released)) /\ NoRepeats' => Traversal'
<1>1. /\ Shape /\ Stages /\ Traversal /\ NoRepeats /\ Processing /\ Processing'
      /\ Verdict = "Valid" /\ wave # << >> /\ i = Head(wave) /\ wave \in Seq(Indices)
  BY DEF IInv, Popping, Processing, Stages, Traversal, Shape
<1>2. /\ i \in Range(wave) /\ Tail(wave) \in Seq(Indices) /\ Distinct(Tail(wave))
      /\ Range(Tail(wave)) = Range(wave) \ {i}
  BY <1>1, TailFacts DEF NoRepeats
<1>3. i \in InQueue /\ InQueue \subseteq Indices
  BY <1>1, <1>2 DEF InQueue, Traversal, QueuedExactly, Shape
<1>4. /\ in_degree' \in [Indices -> Nat] /\ InDegreeExact' /\ TakenUnblocked' /\ CoresStay'
      /\ Released(i) \subseteq Indices /\ Released(i) \cap InQueue = {}
      /\ {j \in ops' : Unresolved(j)' = {}} = (InQueue \ {i}) \cup Released(i)
  BY <1>1, <1>3, TakeStep
<1>5. IsFiniteSet(Released(i)) /\ Released(i) \subseteq Nat
  BY <1>1, <1>4, ListFacts, FS_Subset DEF Shape
<1>6. released \in Seq(Released(i)) /\ Range(released) = Released(i) /\ Distinct(released)
  BY <1>5, AscendingFacts
<1>7. released \in Seq(Indices)
  BY <1>4, <1>6
<1>8. (InQueue' = (InQueue \ {i}) \cup Range(released)) /\ NoRepeats' => Traversal'
  BY <1>4, <1>6 DEF Traversal, QueuedExactly
<1> QED BY <1>1, <1>2, <1>3, <1>4, <1>6, <1>7, <1>8 DEF Shape

LEMMA ScheduleLocalIInv == \A i \in Indices : IInv /\ ScheduleLocal(i) => IInv'
<1> SUFFICES ASSUME NEW i \in Indices, IInv, ScheduleLocal(i) PROVE IInv'
  OBVIOUS
<1>1. PICK released \in Ascending(Released(i)) : wave' = Tail(wave) \o released
  BY DEF ScheduleLocal
<1>2. /\ Popping(i) /\ raw_ops' = raw_ops /\ pc' = pc /\ ops' = ops \ {i}
      /\ in_degree' = Decremented(i) /\ next_wave' = next_wave /\ online_wave' = online_wave
      /\ result' = result /\ open' /\ network_operations' = network_operations
      /\ local_operations' = Append(local_operations, i) /\ open' \in BOOLEAN
      /\ offline_rounds' = offline_rounds /\ online_rounds' = online_rounds
  BY DEF ScheduleLocal, rounds
<1>3. /\ Shape /\ Stages /\ NoRepeats /\ Processing /\ Processing' /\ Verdict = "Valid"
      /\ i \in Range(wave) /\ InQueue \subseteq Indices
      /\ Tail(wave) \in Seq(Indices) /\ Distinct(Tail(wave))
      /\ Range(Tail(wave)) = Range(wave) \ {i}
      /\ released \in Seq(Indices) /\ Distinct(released)
      /\ Range(released) \cap InQueue = {}
      /\ in_degree' \in [Indices -> Nat] /\ ops' \subseteq Indices
      /\ (InQueue' = (InQueue \ {i}) \cup Range(released)) /\ NoRepeats' => Traversal'
  BY <1>2, PopFacts
<1>4. Range(Tail(wave)) \cap Range(released) = {}
  BY <1>3 DEF InQueue
<1>5. /\ wave' \in Seq(Indices) /\ Distinct(wave')
      /\ Range(wave') = (Range(wave) \ {i}) \cup Range(released)
  <2> DEFINE rest == Tail(wave)
  <2>1. /\ rest \in Seq(Indices) /\ Distinct(rest) /\ Range(rest) = Range(wave) \ {i}
        /\ Range(rest) \cap Range(released) = {} /\ wave' = rest \o released
    BY <1>1, <1>3, <1>4
  <2> HIDE DEF rest
  <2> QED BY <2>1, <1>3, ConcatFacts
<1>6. NoRepeats'
  BY <1>2, <1>3, <1>5 DEF NoRepeats, InQueue
<1>7. InQueue' = (InQueue \ {i}) \cup Range(released)
  BY <1>2, <1>3, <1>5 DEF NoRepeats, InQueue
<1>8. local_operations' \in Seq(Indices)
  BY <1>2, <1>3, AppendFacts DEF Shape
<1>9. Shape'
  BY <1>2, <1>3, <1>5, <1>8, SameGraph DEF Shape
<1>10. Stages'
  BY <1>2, <1>3, SameGraph DEF Stages, Processing
<1>11. CyclicExactly'
  BY <1>2, <1>3 DEF CyclicExactly, Stages
<1> QED BY <1>3, <1>6, <1>7, <1>9, <1>10, <1>11 DEF IInv

LEMMA ScheduleNetworkIInv == \A i \in Indices : IInv /\ ScheduleNetwork(i) => IInv'
<1> SUFFICES ASSUME NEW i \in Indices, IInv, ScheduleNetwork(i) PROVE IInv'
  OBVIOUS
<1>1. PICK released \in Ascending(Released(i)) : next_wave' = next_wave \o released
  BY DEF ScheduleNetwork
<1>2. /\ Popping(i) /\ raw_ops' = raw_ops /\ pc' = pc /\ ops' = ops \ {i}
      /\ in_degree' = Decremented(i) /\ wave' = Tail(wave) /\ online_wave' = online_wave
      /\ result' = result /\ open' /\ local_operations' = local_operations
      /\ network_operations' = Append(network_operations, i) /\ open' \in BOOLEAN
      /\ offline_rounds' = offline_rounds /\ online_rounds' = online_rounds
  BY DEF ScheduleNetwork, rounds
<1>3. /\ Shape /\ Stages /\ NoRepeats /\ Processing /\ Processing' /\ Verdict = "Valid"
      /\ i \in Range(wave) /\ InQueue \subseteq Indices
      /\ Tail(wave) \in Seq(Indices) /\ Distinct(Tail(wave))
      /\ Range(Tail(wave)) = Range(wave) \ {i}
      /\ released \in Seq(Indices) /\ Distinct(released)
      /\ Range(released) \cap InQueue = {}
      /\ in_degree' \in [Indices -> Nat] /\ ops' \subseteq Indices
      /\ (InQueue' = (InQueue \ {i}) \cup Range(released)) /\ NoRepeats' => Traversal'
  BY <1>2, PopFacts
<1>4. Range(next_wave) \cap Range(released) = {}
  BY <1>3 DEF InQueue
<1>5. /\ next_wave' \in Seq(Indices) /\ Distinct(next_wave')
      /\ Range(next_wave') = Range(next_wave) \cup Range(released)
  BY <1>1, <1>3, <1>4, ConcatFacts DEF Shape, NoRepeats
<1>6. NoRepeats'
  BY <1>2, <1>3, <1>5 DEF NoRepeats, InQueue
<1>7. InQueue' = (InQueue \ {i}) \cup Range(released)
  BY <1>2, <1>3, <1>5 DEF NoRepeats, InQueue
<1>8. network_operations' \in Seq(Indices)
  BY <1>2, <1>3, AppendFacts DEF Shape
<1>9. Shape'
  BY <1>2, <1>3, <1>5, <1>8, SameGraph DEF Shape
<1>10. Stages'
  BY <1>2, <1>3, SameGraph DEF Stages, Processing
<1>11. CyclicExactly'
  BY <1>2, <1>3 DEF CyclicExactly, Stages
<1> QED BY <1>3, <1>6, <1>7, <1>9, <1>10, <1>11 DEF IInv

LEMMA CloseRoundIInv == IInv /\ CloseRound => IInv'
<1> SUFFICES ASSUME IInv, CloseRound PROVE IInv'
  OBVIOUS
<1>1. /\ Shape /\ Stages /\ Traversal /\ NoRepeats /\ Processing /\ Processing' /\ ~open' /\ pc' = pc
      /\ wave = << >> /\ wave' = next_wave /\ next_wave' = << >> /\ online_wave' = online_wave
      /\ raw_ops' = raw_ops /\ ops' = ops /\ in_degree' = in_degree /\ result' = result
      /\ open' \in BOOLEAN /\ local_operations' = << >> /\ network_operations' = << >>
  BY DEF IInv, CloseRound, Processing, Traversal
<1>2. CurrentRound \in Round
  BY <1>1 DEF CurrentRound, Round, Shape
<1>3. \A R : R \in Seq(Round) => Append(R, CurrentRound) \in Seq(Round)
  BY <1>2, AppendProperties
<1>4. offline_rounds' \in Seq(Round) /\ online_rounds' \in Seq(Round)
  BY <1>1, <1>3 DEF CloseRound, Shape
<1>5. Shape'
  BY <1>1, <1>4, SameGraph, EmptyFacts DEF Shape
<1>6. Stages'
  BY <1>1, SameGraph DEF Stages, Processing
<1>7. NoRepeats' /\ InQueue' = InQueue
  BY <1>1, EmptyFacts DEF NoRepeats, InQueue
<1>8. Traversal'
  BY <1>1, <1>7, QuietStep DEF Traversal
<1>9. CyclicExactly'
  BY <1>1 DEF CyclicExactly, Stages
<1> QED BY <1>5, <1>6, <1>8, <1>9 DEF IInv

LEMMA StartOnlineIInv == IInv /\ StartOnline => IInv'
<1> SUFFICES ASSUME IInv, StartOnline PROVE IInv'
  OBVIOUS
<1>1. /\ Shape /\ Stages /\ Traversal /\ NoRepeats /\ Processing /\ Processing'
      /\ pc = "offline" /\ pc' = "online" /\ ~open /\ open' = open
      /\ wave = << >> /\ wave' = online_wave /\ online_wave' = << >> /\ next_wave' = next_wave
      /\ raw_ops' = raw_ops /\ ops' = ops /\ in_degree' = in_degree /\ result' = result
      /\ local_operations' = local_operations /\ network_operations' = network_operations
      /\ offline_rounds' = offline_rounds /\ online_rounds' = online_rounds
  BY DEF IInv, StartOnline, Processing, Traversal, current, rounds
<1>2. Shape'
  BY <1>1, SameGraph, EmptyFacts DEF Shape
<1>3. Stages'
  BY <1>1, SameGraph DEF Stages, Processing
<1>4. NoRepeats' /\ InQueue' = InQueue
  BY <1>1, EmptyFacts DEF NoRepeats, InQueue, Stages
<1>5. Traversal'
  BY <1>1, <1>4, QuietStep DEF Traversal
<1>6. CyclicExactly'
  BY <1>1 DEF CyclicExactly, Stages
<1> QED BY <1>2, <1>3, <1>5, <1>6 DEF IInv

\* With empty queues, what is left of ops is itself a core; and a core never
\* leaves ops.
LEMMA ReturnIInv == IInv /\ Return => IInv'
<1> SUFFICES ASSUME IInv, Return PROVE IInv'
  OBVIOUS
<1>1. /\ Shape /\ Stages /\ Traversal /\ Processing /\ pc = "online" /\ pc' = "done" /\ ~open
      /\ open' = open /\ wave = << >> /\ raw_ops' = raw_ops /\ ops' = ops /\ in_degree' = in_degree
      /\ wave' = wave /\ next_wave' = next_wave /\ online_wave' = online_wave
      /\ local_operations' = local_operations /\ network_operations' = network_operations
      /\ offline_rounds' = offline_rounds /\ online_rounds' = online_rounds
      /\ result' = (IF ops # {} THEN "CircuitCyclic" ELSE "Ok")
  BY DEF IInv, Return, Processing, queues, current, rounds, Outcome
<1>2. Shape'
  BY <1>1, SameGraph DEF Shape, Errors
<1>3. Stages' /\ ~Processing'
  BY <1>1 DEF Stages, Processing
<1>4. InQueue = {}
  BY <1>1, EmptyFacts DEF InQueue, Stages
<1>5. ASSUME ops # {} PROVE Core(ops)
  <2>1. \A j \in ops : Unresolved(j) # {}
    BY <1>1, <1>4 DEF Traversal, QueuedExactly
  <2>2. \A j \in ops : \E i \in ops : Fed(i, j) # {}
    BY <2>1 DEF Unresolved
  <2> QED BY <1>5, <2>2 DEF Core, Feeds
<1>6. ops # {} <=> \E S \in SUBSET Indices : Core(S)
  BY <1>1, <1>5 DEF Shape, Traversal, CoresStay, Core
<1>7. CyclicExactly'
  <2>1. (\E S \in SUBSET Indices' : Core(S)') <=> ops # {}
    BY <1>1, <1>6, SameGraph
  <2> QED BY <2>1, <1>1 DEF CyclicExactly
<1> QED BY <1>2, <1>3, <1>7 DEF IInv

LEMMA NextIInv == IInv /\ [Next]_vars => IInv'
<1> SUFFICES ASSUME IInv, [Next]_vars PROVE IInv'
  OBVIOUS
<1>1. CASE Next
  BY <1>1, RejectIInv, BuildGraphIInv, DeferInputIInv, ScheduleLocalIInv, ScheduleNetworkIInv,
     CloseRoundIInv, StartOnlineIInv, ReturnIInv DEF Next
<1>2. CASE UNCHANGED vars
  <2>1. /\ raw_ops' = raw_ops /\ pc' = pc /\ ops' = ops /\ in_degree' = in_degree
        /\ wave' = wave /\ next_wave' = next_wave /\ online_wave' = online_wave /\ open' = open
        /\ local_operations' = local_operations /\ network_operations' = network_operations
        /\ offline_rounds' = offline_rounds /\ online_rounds' = online_rounds /\ result' = result
    BY <1>2 DEF vars, queues, current, rounds
  <2>2. Shape' /\ Stages' /\ (Processing' <=> Processing)
    BY <2>1, SameGraph DEF IInv, Shape, Stages, Processing
  <2>3. NoRepeats' = NoRepeats /\ InQueue' = InQueue
    BY <2>1 DEF NoRepeats, InQueue
  <2>4. ASSUME Processing PROVE Traversal'
    BY <2>1, <2>3, <2>4, QuietStep DEF IInv, Traversal
  <2>5. CyclicExactly'
    BY <2>1, SameGraph DEF IInv, CyclicExactly
  <2> QED BY <2>2, <2>4, <2>5 DEF IInv
<1> QED BY <1>1, <1>2

\* The invariant of the traversal holds throughout, for every set of circuits.
THEOREM Invariance == Spec => []IInv
<1>1. Init => IInv
  BY InitIInv
<1>2. IInv /\ [Next]_vars => IInv'
  BY NextIInv
<1> QED BY <1>1, <1>2, PTL DEF Spec

-----------------------------------------------------------------------------
(* Results.                                                                *)

\* Types are kept by every step of the constructor; in particular in_degree,
\* a usize, is never decremented below zero (circuit.rs:223).
THEOREM TypeCorrect == Spec => []TypeOK
<1>1. IInv => TypeOK
  BY DEF IInv, Shape, TypeOK
<1> QED BY <1>1, Invariance, PTL

\* The `unwrap` calls of process_wave never fail (circuit.rs:207 and 213): a
\* queued operation is still in its slot and is in no queue twice.
THEOREM UnwrapsSucceed == Spec => []QueueSound
<1>1. IInv => QueueSound
  <2> SUFFICES ASSUME IInv, Processing PROVE QueueSound
    BY DEF QueueSound
  <2>1. Shape /\ NoRepeats /\ QueuedExactly
    BY DEF IInv, Traversal
  <2> DEFINE front == wave \o next_wave
  <2>2. front \in Seq(Indices) /\ Range(front) = Range(wave) \cup Range(next_wave) /\ Distinct(front)
    BY <2>1, ConcatFacts DEF Shape, NoRepeats
  <2>3. Range(front) \cap Range(online_wave) = {}
    BY <2>1, <2>2 DEF NoRepeats
  <2> HIDE DEF front
  <2>4. LET q == front \o online_wave IN
          q \in Seq(Indices) /\ Range(q) = Range(front) \cup Range(online_wave) /\ Distinct(q)
    BY <2>1, <2>2, <2>3, ConcatFacts DEF Shape, NoRepeats
  <2>5. Queued \in Seq(Indices) /\ Range(Queued) = InQueue /\ Distinct(Queued)
    BY <2>2, <2>4 DEF Queued, InQueue, front
  <2>6. Cardinality(Range(Queued)) = Len(Queued)
    BY <2>5, DistinctLength
  <2> QED BY <2>1, <2>5, <2>6 DEF QueuedExactly, QueueSound
<1> QED BY <1>1, Invariance, PTL

\* In-degrees count the slots that still wait, repeated wires included.
THEOREM DegreesExact == Spec => []InDegreeExact
<1>1. IInv => InDegreeExact
  BY DEF IInv, Traversal, InDegreeExact
<1> QED BY <1>1, Invariance, PTL

\* A circuit is refused as cyclic if and only if some of its operations all
\* wait for one another: no acyclic circuit is refused, no cyclic one built.
THEOREM CyclicDetection == Spec => []CyclicExactly
<1>1. IInv => CyclicExactly
  BY DEF IInv
<1> QED BY <1>1, Invariance, PTL

-----------------------------------------------------------------------------
(* The layout: where the operations taken so far stand in the rounds.  One  *)
(* more invariant, about the places of the layout, carries the three        *)
(* properties of an accepted circuit.                                       *)

StageOf(L, r, s) == IF s = 0 THEN L[r].local_operations ELSE L[r].network_operations
StagePlaces(L, r, s) == {[round |-> r, stage |-> s, at |-> k] : k \in DOMAIN StageOf(L, r, s)}
PlacesIn(L) == UNION {StagePlaces(L, r, 0) \cup StagePlaces(L, r, 1) : r \in DOMAIN L}
OpIn(L, p) == StageOf(L, p.round, p.stage)[p.at]

\* The rounds pushed so far, and the one under construction.
Layout == Append(AllRounds, CurrentRound)
Laid == PlacesIn(Layout)
LaidOp(p) == OpIn(Layout, p)
Here == Len(AllRounds) + 1

Settled ==
  /\ ~open => local_operations = << >> /\ network_operations = << >>
  /\ pc \in {"new", "offline"} => online_rounds = << >>
  /\ pc = "new" => offline_rounds = << >>
  /\ pc = "done" => ~open
  /\ result = "Ok" => pc = "done" /\ ops = {}
  /\ result = "CircuitCyclic" => pc = "done"

\* The operations taken are those laid out, each at one place and in the half
\* of a round where it belongs.
LaidOnce ==
  /\ \A p, q \in Laid : LaidOp(p) = LaidOp(q) => p = q
  /\ {LaidOp(p) : p \in Laid} = Indices \ ops
  /\ \A p \in Laid : p.stage = 0 <=> IsLocal(LaidOp(p))

\* A local producer in round r of what j reads.
LocalProducer(j, r) == \E l \in Laid : Feeds(LaidOp(l), j) /\ l.round = r /\ l.stage = 0

\* Producers are laid out no later, and only a network producer may miss.
LaidInOrder ==
  \A p, q \in Laid : Feeds(LaidOp(p), LaidOp(q)) =>
    /\ p.round <= q.round
    /\ Precedes(p, q) \/ (p.stage = 1 /\ LocalProducer(LaidOp(q), q.round))

\* An operation of the wave that a network operation of this round feeds was
\* released by a local one of this round.
WaveReady ==
  \A j \in Range(wave) : \A p \in Laid :
    Feeds(LaidOp(p), j) /\ p.round = Here /\ p.stage = 1 => LocalProducer(j, Here)

LaidOffline == {LaidOp(p) : p \in {q \in Laid : q.round <= Len(offline_rounds)}}

\* Before the inputs are known none is taken, and all that is set aside are
\* inputs.  Afterwards the offline half is closed under producers, and what it
\* misses of any other such set is stuck.
Halves ==
  /\ pc \in {"new", "offline"} => /\ \A j \in Indices \ ops : ~IsInput(j)
                                  /\ \A j \in Range(online_wave) : IsInput(j)
  /\ pc = "online" \/ result \in {"Ok", "CircuitCyclic"} =>
       /\ InputFree(LaidOffline) /\ LaidOffline \subseteq Indices
       /\ \A S \in SUBSET Indices : InputFree(S) =>
            S \subseteq LaidOffline \/ Core(S \ LaidOffline)

RInv == Settled /\ LaidOnce /\ LaidInOrder /\ WaveReady /\ Halves

-----------------------------------------------------------------------------
(* Places, and what a step does to them.                                   *)

\* What it takes to be a place.
LEMMA PlaceFacts ==
  ASSUME NEW L, NEW p \in PlacesIn(L)
  PROVE  /\ p = [round |-> p.round, stage |-> p.stage, at |-> p.at]
         /\ p.round \in DOMAIN L /\ p.stage \in {0, 1}
         /\ p.at \in DOMAIN StageOf(L, p.round, p.stage)
<1>1. PICK r \in DOMAIN L : p \in StagePlaces(L, r, 0) \cup StagePlaces(L, r, 1)
  BY DEF PlacesIn
<1>2. PICK s \in {0, 1} : p \in StagePlaces(L, r, s)
  BY <1>1
<1>3. PICK k \in DOMAIN StageOf(L, r, s) : p = [round |-> r, stage |-> s, at |-> k]
  BY <1>2 DEF StagePlaces
<1> QED BY <1>3

LEMMA PlaceIntro ==
  ASSUME NEW L, NEW r \in DOMAIN L, NEW s \in {0, 1}, NEW k \in DOMAIN StageOf(L, r, s)
  PROVE  [round |-> r, stage |-> s, at |-> k] \in PlacesIn(L)
<1>1. StagePlaces(L, r, s) \subseteq PlacesIn(L)
  BY DEF PlacesIn
<1>2. [round |-> r, stage |-> s, at |-> k] \in StagePlaces(L, r, s)
  BY DEF StagePlaces
<1> QED BY <1>1, <1>2

\* The two halves of a round of a layout.
LEMMA StageFacts ==
  ASSUME NEW L \in Seq(Round), NEW r \in DOMAIN L, NEW s \in {0, 1}
  PROVE  /\ L[r] \in Round /\ StageOf(L, r, s) \in Seq(Indices)
         /\ Len(StageOf(L, r, s)) \in Nat
         /\ DOMAIN StageOf(L, r, s) = 1 .. Len(StageOf(L, r, s))
<1>1. L[r] \in Round
  BY ElementOfSeq, LenProperties
<1>2. StageOf(L, r, s) \in Seq(Indices)
  BY <1>1 DEF StageOf, Round
<1> QED BY <1>1, <1>2, LenProperties

\* The place after the last one of a half of the last round.
LastPlace(L, s) == [round |-> Len(L), stage |-> s, at |-> Len(StageOf(L, Len(L), s)) + 1]

\* An operation appended to one half of the last round of a layout takes one new
\* place, after all others of that half.
LEMMA OnePlaceMore ==
  ASSUME NEW L \in Seq(Round), NEW M \in Seq(Round), Len(M) = Len(L), Len(L) > 0,
         NEW s \in {0, 1}, NEW i \in Indices,
         \A r \in 1 .. Len(L) : r # Len(L) => M[r] = L[r],
         StageOf(M, Len(L), s) = Append(StageOf(L, Len(L), s), i),
         StageOf(M, Len(L), 1 - s) = StageOf(L, Len(L), 1 - s)
  PROVE  /\ PlacesIn(M) = PlacesIn(L) \cup {LastPlace(L, s)}
         /\ \A p \in PlacesIn(L) : OpIn(M, p) = OpIn(L, p)
         /\ OpIn(M, LastPlace(L, s)) = i
         /\ \A p \in PlacesIn(L) :
              /\ p.round <= Len(L) /\ p.round \in Nat
              /\ p.round = Len(L) /\ p.stage = s => p.at < LastPlace(L, s).at /\ p.at \in Nat
<1> DEFINE new == LastPlace(L, s)
<1>a. PICK n \in Nat : n = Len(L)
  BY LenProperties
<1>0. /\ new = [round |-> n, stage |-> s, at |-> Len(StageOf(L, n, s)) + 1]
      /\ n > 0 /\ Len(M) = n /\ \A r \in 1 .. n : r # n => M[r] = L[r]
      /\ StageOf(M, n, s) = Append(StageOf(L, n, s), i)
      /\ StageOf(M, n, 1 - s) = StageOf(L, n, 1 - s)
  BY <1>a DEF LastPlace
<1> HIDE DEF new
<1>1. /\ DOMAIN L = 1 .. n /\ DOMAIN M = 1 .. n /\ n \in DOMAIN L /\ 1 - s \in {0, 1}
  <2>1. DOMAIN L = 1 .. n /\ DOMAIN M = 1 .. n
    BY <1>a, <1>0, LenProperties
  <2>2. 1 - s \in {0, 1} /\ n \in 1 .. n
    BY <1>0
  <2> QED BY <2>1, <2>2
<1>2. \A r \in 1 .. n : \A t \in {0, 1} :
        /\ StageOf(L, r, t) \in Seq(Indices) /\ Len(StageOf(L, r, t)) \in Nat
        /\ DOMAIN StageOf(L, r, t) = 1 .. Len(StageOf(L, r, t))
  BY <1>1, StageFacts
<1>3. \A r \in 1 .. n : \A t \in {0, 1} : r # n \/ t # s => StageOf(M, r, t) = StageOf(L, r, t)
  <2>1. \A t \in {0, 1} : t # s => t = 1 - s
    OBVIOUS
  <2> QED BY <1>0, <1>1, <2>1 DEF StageOf
<1>4. /\ Len(StageOf(M, n, s)) = Len(StageOf(L, n, s)) + 1
      /\ DOMAIN StageOf(M, n, s) = 1 .. (Len(StageOf(L, n, s)) + 1)
      /\ \A k \in 1 .. Len(StageOf(L, n, s)) : StageOf(M, n, s)[k] = StageOf(L, n, s)[k]
      /\ StageOf(M, n, s)[Len(StageOf(L, n, s)) + 1] = i
  BY <1>0, <1>1, <1>2, AppendProperties, LenProperties
<1>5. ASSUME NEW p \in PlacesIn(L)
      PROVE  /\ p \in PlacesIn(M) /\ OpIn(M, p) = OpIn(L, p)
             /\ p.round <= n /\ p.round \in Nat
             /\ p.round = n /\ p.stage = s => p.at < new.at /\ p.at \in Nat
  <2>1. /\ p = [round |-> p.round, stage |-> p.stage, at |-> p.at]
        /\ p.round \in 1 .. n /\ p.stage \in {0, 1}
        /\ p.at \in 1 .. Len(StageOf(L, p.round, p.stage))
    BY <1>1, <1>2, PlaceFacts
  <2>2. /\ p.at \in DOMAIN StageOf(M, p.round, p.stage)
        /\ StageOf(M, p.round, p.stage)[p.at] = StageOf(L, p.round, p.stage)[p.at]
    <3>1. CASE p.round = n /\ p.stage = s
      <4>1. PICK m \in Nat : m = Len(StageOf(L, n, s))
        BY <1>0, <1>1, <1>2
      <4>2. p.at \in 1 .. m /\ p.at \in 1 .. (m + 1)
        BY <2>1, <3>1, <4>1
      <4> QED BY <3>1, <4>1, <4>2, <1>4
    <3>2. CASE p.round # n \/ p.stage # s
      <4>1. StageOf(M, p.round, p.stage) = StageOf(L, p.round, p.stage)
        BY <2>1, <3>2, <1>3
      <4> QED BY <4>1, <2>1, <1>2
    <3> QED BY <3>1, <3>2
  <2>3. p \in PlacesIn(M)
    BY <2>1, <2>2, <1>1, PlaceIntro
  <2> QED BY <2>1, <2>2, <2>3, <1>0, <1>2 DEF OpIn
<1>6. new \in PlacesIn(M) /\ OpIn(M, new) = i
  <2>1. Len(StageOf(L, n, s)) + 1 \in DOMAIN StageOf(M, n, s)
    BY <1>1, <1>2, <1>4
  <2> QED BY <2>1, <1>0, <1>1, <1>4, PlaceIntro DEF OpIn
<1>7. ASSUME NEW p \in PlacesIn(M), p # new PROVE p \in PlacesIn(L)
  <2>1. /\ p = [round |-> p.round, stage |-> p.stage, at |-> p.at]
        /\ p.round \in 1 .. n /\ p.stage \in {0, 1}
        /\ p.at \in DOMAIN StageOf(M, p.round, p.stage)
    BY <1>1, PlaceFacts
  <2>2. p.at \in DOMAIN StageOf(L, p.round, p.stage)
    BY <2>1, <1>0, <1>2, <1>3, <1>4, <1>7
  <2> QED BY <2>1, <2>2, <1>1, PlaceIntro
<1> QED BY <1>a, <1>5, <1>6, <1>7 DEF new

\* An empty round adds no place.
LEMMA NoPlaceMore ==
  ASSUME NEW L \in Seq(Round), NEW e \in Round,
         e.local_operations = << >>, e.network_operations = << >>
  PROVE  /\ PlacesIn(Append(L, e)) = PlacesIn(L)
         /\ \A p \in PlacesIn(L) : OpIn(Append(L, e), p) = OpIn(L, p)
<1> DEFINE M == Append(L, e)
<1>1. /\ DOMAIN L = 1 .. Len(L) /\ DOMAIN M = 1 .. (Len(L) + 1) /\ Len(L) \in Nat
      /\ \A r \in 1 .. Len(L) : M[r] = L[r]
      /\ M[Len(L) + 1] = e
  BY AppendProperties, LenProperties
<1> HIDE DEF M
<1>2. \A s \in {0, 1} : DOMAIN StageOf(M, Len(L) + 1, s) = {}
  BY <1>1, EmptySeq DEF StageOf
<1>3. \A r \in 1 .. Len(L) : \A s \in {0, 1} : StageOf(M, r, s) = StageOf(L, r, s)
  BY <1>1 DEF StageOf
<1>4. ASSUME NEW p \in PlacesIn(L) PROVE p \in PlacesIn(M) /\ OpIn(M, p) = OpIn(L, p)
  BY <1>1, <1>3, PlaceFacts, PlaceIntro DEF OpIn
<1>5. ASSUME NEW p \in PlacesIn(M) PROVE p \in PlacesIn(L)
  BY <1>1, <1>2, <1>3, PlaceFacts, PlaceIntro
<1> QED BY <1>4, <1>5 DEF M

-----------------------------------------------------------------------------
(* The layout of the rounds built so far.                                  *)

LEMMA AppendRound ==
  ASSUME NEW off \in Seq(Round), NEW on \in Seq(Round), NEW c \in Round
  PROVE  /\ Append(off \o on, c) \in Seq(Round) /\ Len(off) \in Nat /\ Len(on) \in Nat
         /\ Len(off \o on) = Len(off) + Len(on)
         /\ Len(Append(off \o on, c)) = Len(off \o on) + 1
         /\ Append(off \o on, c)[Len(off \o on) + 1] = c
         /\ \A r \in 1 .. Len(off \o on) + 1 :
              r # Len(off \o on) + 1 => Append(off \o on, c)[r] = (off \o on)[r]
<1>1. off \o on \in Seq(Round) /\ Len(off \o on) = Len(off) + Len(on)
  BY ConcatProperties
<1>2. Len(off) \in Nat /\ Len(on) \in Nat
  BY LenProperties
<1> DEFINE all == off \o on
<1>3. all \in Seq(Round) /\ Len(all) \in Nat
  BY <1>1, <1>2
<1> HIDE DEF all
<1>4. /\ Append(all, c) \in Seq(Round) /\ Len(Append(all, c)) = Len(all) + 1
      /\ Append(all, c)[Len(all) + 1] = c
      /\ \A r \in 1 .. Len(all) : Append(all, c)[r] = all[r]
  BY <1>3, AppendProperties
<1>5. \A r \in 1 .. Len(all) + 1 : r # Len(all) + 1 => r \in 1 .. Len(all)
  BY <1>3
<1> QED BY <1>1, <1>2, <1>4, <1>5 DEF all

LEMMA LayoutFacts ==
  ASSUME Shape
  PROVE  /\ CurrentRound \in Round /\ Layout \in Seq(Round)
         /\ Len(offline_rounds) \in Nat /\ Len(online_rounds) \in Nat
         /\ Here = Len(offline_rounds) + Len(online_rounds) + 1
         /\ Len(Layout) = Here /\ Layout[Here] = CurrentRound
         /\ \A r \in 1 .. Here : r # Here => Layout[r] = AllRounds[r]
<1>1. CurrentRound \in Round
  BY DEF Shape, CurrentRound, Round
<1> QED BY <1>1, AppendRound DEF Layout, Here, AllRounds, Shape

\* An operation is appended to a half of the round.
Appended(i, s) ==
  \/ s = 0 /\ local_operations' = Append(local_operations, i) /\ network_operations' = network_operations
  \/ s = 1 /\ network_operations' = Append(network_operations, i) /\ local_operations' = local_operations

LEMMA LayoutAppended ==
  ASSUME Shape, Shape', raw_ops' = raw_ops, offline_rounds' = offline_rounds,
         online_rounds' = online_rounds, NEW s \in {0, 1}, NEW i \in Indices, Appended(i, s),
         NEW new, new = LastPlace(Layout, s)
  PROVE  /\ Laid' = Laid \cup {new} /\ Here' = Here
         /\ \A p \in Laid : LaidOp(p)' = LaidOp(p)
         /\ LaidOp(new)' = i /\ new.round = Here /\ new.stage = s
         /\ \A p \in Laid : /\ p.round <= Here /\ p.round \in Nat
                            /\ p.round = Here /\ p.stage = s => p.at < new.at /\ p.at \in Nat
<1> DEFINE L == Layout
           M == Layout'
<1>1. AllRounds' = AllRounds /\ Here' = Here
  BY DEF AllRounds, Here
<1>2. /\ L \in Seq(Round) /\ Here = Len(L) /\ Len(L) > 0
      /\ L[Here] = CurrentRound /\ \A r \in 1 .. Here : r # Here => L[r] = AllRounds[r]
  BY LayoutFacts
<1>3. /\ M \in Seq(Round) /\ Here = Len(M)
      /\ M[Here] = CurrentRound' /\ \A r \in 1 .. Here : r # Here => M[r] = AllRounds[r]
  <2>1. offline_rounds \in Seq(Round) /\ online_rounds \in Seq(Round)
    BY DEF Shape
  <2>2. CurrentRound' \in Round
    BY SameGraph DEF Shape, CurrentRound, Round
  <2>3. M = Append(offline_rounds \o online_rounds, CurrentRound')
    BY DEF Layout, AllRounds
  <2> HIDE DEF M
  <2> QED BY <2>1, <2>2, <2>3, AppendRound DEF Here, AllRounds
<1>4. \A r \in 1 .. Len(L) : r # Len(L) => M[r] = L[r]
  BY <1>2, <1>3
<1>5. /\ StageOf(L, Here, 0) = local_operations /\ StageOf(L, Here, 1) = network_operations
      /\ StageOf(M, Here, 0) = local_operations' /\ StageOf(M, Here, 1) = network_operations'
  BY <1>2, <1>3 DEF StageOf, CurrentRound
<1>6. StageOf(M, Len(L), s) = Append(StageOf(L, Len(L), s), i)
  BY <1>2, <1>5 DEF Appended
<1>7. StageOf(M, Len(L), 1 - s) = StageOf(L, Len(L), 1 - s)
  BY <1>2, <1>5 DEF Appended
<1>8. Len(M) = Len(L) /\ new = LastPlace(L, s)
  BY <1>2, <1>3
<1> HIDE DEF L, M
<1>9. /\ PlacesIn(M) = PlacesIn(L) \cup {LastPlace(L, s)}
      /\ \A p \in PlacesIn(L) : OpIn(M, p) = OpIn(L, p)
      /\ OpIn(M, LastPlace(L, s)) = i
      /\ \A p \in PlacesIn(L) :
           /\ p.round <= Len(L) /\ p.round \in Nat
           /\ p.round = Len(L) /\ p.stage = s => p.at < LastPlace(L, s).at /\ p.at \in Nat
  BY <1>2, <1>3, <1>4, <1>6, <1>7, <1>8, OnePlaceMore
<1>10. new.round = Here /\ new.stage = s
  BY <1>2, <1>8 DEF LastPlace
<1>11. Laid = PlacesIn(L) /\ Laid' = PlacesIn(M)
  BY DEF Laid, L, M
<1>12. \A p : LaidOp(p) = OpIn(L, p) /\ LaidOp(p)' = OpIn(M, p)
  BY DEF LaidOp, L, M
<1> QED BY <1>1, <1>2, <1>8, <1>9, <1>10, <1>11, <1>12

\* A place has its round among those of the layout.
LEMMA LaidRound ==
  ASSUME Shape, NEW p \in Laid
  PROVE  p.round \in Nat /\ p.round <= Here /\ p.stage \in {0, 1} /\ LaidOp(p) \in Indices
<1>1. p.round \in DOMAIN Layout /\ p.stage \in {0, 1} /\ p.at \in DOMAIN StageOf(Layout, p.round, p.stage)
  BY PlaceFacts DEF Laid
<1>2. Layout \in Seq(Round) /\ Len(Layout) = Here
  BY LayoutFacts
<1>3. p.round \in 1 .. Here /\ Here \in Nat
  BY <1>1, <1>2, LenProperties
<1>4. StageOf(Layout, p.round, p.stage) \in Seq(Indices)
  BY <1>1, <1>2, StageFacts
<1>5. LaidOp(p) \in Indices
  BY <1>1, <1>4, ElementOfSeq, LenProperties DEF LaidOp, OpIn
<1> QED BY <1>1, <1>3, <1>5

\* Steps that leave the list and the rounds alone.
LEMMA LayoutKept ==
  ASSUME raw_ops' = raw_ops, offline_rounds' = offline_rounds, online_rounds' = online_rounds,
         local_operations' = local_operations, network_operations' = network_operations
  PROVE  /\ Laid' = Laid /\ Here' = Here /\ \A p : LaidOp(p)' = LaidOp(p)
         /\ LaidOffline' = LaidOffline /\ \A j, r : LocalProducer(j, r)' = LocalProducer(j, r)
BY SameGraph DEF Laid, Here, LaidOp, LaidOffline, Layout, AllRounds, CurrentRound,
                 LocalProducer, Feeds

\* The graph predicates of the layout invariant, for one operation list.
LEMMA SameProducers ==
  ASSUME raw_ops' = raw_ops
  PROVE  /\ \A i, j : Feeds(i, j)' = Feeds(i, j)
         /\ \A i : IsInput(i)' = IsInput(i) /\ IsLocal(i)' = IsLocal(i)
         /\ \A S : InputFree(S)' = InputFree(S)
BY SameGraph DEF Feeds, IsInput, IsLocal, InputFree

\* An operation still in its slot feeds none that is taken or free to go.
LEMMA WaitersFree ==
  ASSUME Shape, Traversal
  PROVE  /\ \A i \in ops : \A j \in Indices \ ops : ~Feeds(i, j)
         /\ \A i \in ops : \A j \in InQueue : ~Feeds(i, j) /\ j \in ops
<1>1. \A i \in ops : \A j \in Indices : Unresolved(j) = {} => ~Feeds(i, j)
  BY DEF Unresolved, Feeds, Fed
<1> QED BY <1>1 DEF Shape, Traversal, TakenUnblocked, QueuedExactly

\* Taking operation i of the wave and laying it out in the current round.
LEMMA TakeLaid ==
  ASSUME IInv, RInv, Shape', NEW i \in Range(wave), Processing, NEW s \in {0, 1},
         s = 0 <=> IsLocal(i), Appended(i, s), ops' = ops \ {i}, raw_ops' = raw_ops,
         offline_rounds' = offline_rounds, online_rounds' = online_rounds,
         NEW new, new = LastPlace(Layout, s)
  PROVE  /\ LaidOnce' /\ LaidInOrder'
         /\ Laid' = Laid \cup {new} /\ Here' = Here /\ LaidOp(new)' = i
         /\ new.round = Here /\ new.stage = s
         /\ \A p \in Laid : LaidOp(p)' = LaidOp(p)
         /\ \A j, r : LocalProducer(j, r) => LocalProducer(j, r)'
         /\ Here > Len(offline_rounds) + Len(online_rounds)
<1>1. /\ Shape /\ Traversal /\ LaidOnce /\ LaidInOrder /\ WaveReady
      /\ i \in ops /\ i \in Indices /\ i \in InQueue
      /\ \A k \in ops : \A j \in Indices \ ops : ~Feeds(k, j)
      /\ \A k \in ops : ~Feeds(k, i)
  <2>1. Shape /\ Traversal /\ LaidOnce /\ LaidInOrder /\ WaveReady /\ i \in InQueue
    BY DEF IInv, RInv, InQueue
  <2>2. /\ \A k \in ops : \A j \in Indices \ ops : ~Feeds(k, j)
        /\ \A k \in ops : \A j \in InQueue : ~Feeds(k, j) /\ j \in ops
    BY <2>1, WaitersFree
  <2>3. i \in ops
    BY <2>1, <2>2 DEF Traversal, QueuedExactly
  <2>4. i \in Indices
    BY <2>1, <2>3 DEF Shape
  <2> QED BY <2>1, <2>2, <2>3, <2>4
<1>2. /\ Laid' = Laid \cup {new} /\ Here' = Here
      /\ \A p \in Laid : LaidOp(p)' = LaidOp(p)
      /\ LaidOp(new)' = i /\ new.round = Here /\ new.stage = s
      /\ \A p \in Laid : /\ p.round <= Here /\ p.round \in Nat
                         /\ p.round = Here /\ p.stage = s => p.at < new.at /\ p.at \in Nat
  BY <1>1, LayoutAppended
<1>3. \A p \in Laid : /\ p.round \in Nat /\ p.round <= Here /\ p.stage \in {0, 1}
                      /\ LaidOp(p) \in Indices \ ops
  BY <1>1, LaidRound DEF LaidOnce
<1>4. Here \in Nat /\ Here > Len(offline_rounds) + Len(online_rounds)
  BY <1>1, LayoutFacts
<1>5. \A j, r : LocalProducer(j, r) => LocalProducer(j, r)'
  BY <1>2, SameProducers DEF LocalProducer
<1>6. LaidOnce'
  <2>1. \A p, q \in Laid \cup {new} : LaidOp(p)' = LaidOp(q)' => p = q
    BY <1>1, <1>2, <1>3 DEF LaidOnce
  <2>2. {LaidOp(p)' : p \in Laid \cup {new}} = Indices \ (ops \ {i})
    <3>1. {LaidOp(p)' : p \in Laid} = Indices \ ops
      BY <1>1, <1>2 DEF LaidOnce
    <3>2. {LaidOp(p)' : p \in Laid \cup {new}} = {LaidOp(p)' : p \in Laid} \cup {i}
      BY <1>2
    <3> QED BY <3>1, <3>2, <1>1
  <2>3. \A p \in Laid \cup {new} : p.stage = 0 <=> IsLocal(LaidOp(p)')
    BY <1>1, <1>2 DEF LaidOnce
  <2> QED BY <2>1, <2>2, <2>3, <1>2, SameGraph, SameProducers DEF LaidOnce
<1>7. LaidInOrder'
  <2>1. SUFFICES ASSUME NEW p \in Laid \cup {new}, NEW q \in Laid \cup {new},
                        NEW j, j = LaidOp(q)', Feeds(LaidOp(p)', j)
                 PROVE  /\ p.round <= q.round
                        /\ Precedes(p, q) \/ (p.stage = 1 /\ LocalProducer(j, q.round)')
    BY <1>2, SameProducers DEF LaidInOrder, Precedes
  <2>2. CASE p = new
    BY <2>1, <2>2, <1>1, <1>2, <1>3
  <2>3. CASE p \in Laid /\ q \in Laid
    BY <2>1, <2>3, <1>1, <1>2, <1>5 DEF LaidInOrder
  <2>4. CASE p \in Laid /\ q = new
    <3>1. Feeds(LaidOp(p), i) /\ j = i /\ q.round = Here /\ q.stage = s
      BY <2>1, <2>4, <1>2
    <3>2. p.stage = 1 /\ p.round = Here => LocalProducer(i, Here)
      BY <2>4, <3>1, <1>1 DEF WaveReady
    <3>3. p.round < Here \/ p.round = Here
      BY <2>4, <1>3, <1>4
    <3>4. CASE p.round < Here
      BY <3>1, <3>4, <1>3, <1>4, <2>4 DEF Precedes
    <3>5. CASE p.round = Here /\ p.stage = 1
      BY <3>1, <3>2, <3>5, <1>4, <1>5
    <3>6. CASE p.round = Here /\ p.stage = 0
      BY <3>1, <3>6, <1>2, <1>4, <2>4 DEF Precedes
    <3> QED BY <3>3, <3>4, <3>5, <3>6, <1>3, <2>4
  <2> QED BY <2>2, <2>3, <2>4
<1> QED BY <1>2, <1>4, <1>5, <1>6, <1>7

\* An operation laid out in the current round leaves the offline half of the
\* circuit alone once the inputs are known, and is no input before.
LEMMA TakeHalves ==
  ASSUME IInv, RInv, NEW i \in Indices, ~Deferred(i), Processing, pc' = pc, result' = result,
         ops' = ops \ {i}, raw_ops' = raw_ops, online_wave' = online_wave,
         offline_rounds' = offline_rounds, NEW new, Laid' = Laid \cup {new}, new.round = Here,
         \A p \in Laid : LaidOp(p)' = LaidOp(p)
  PROVE  Halves'
<1>1. /\ Shape /\ Halves /\ result = "none"
  BY DEF IInv, RInv, Stages
<1>2. ~(new.round <= Len(offline_rounds))
  BY <1>1, LayoutFacts
<1>3. LaidOffline' = LaidOffline
  BY <1>2 DEF LaidOffline
<1>4. pc' \in {"new", "offline"} => /\ \A j \in Indices \ ops' : ~IsInput(j)
                                    /\ \A j \in Range(online_wave') : IsInput(j)
  BY <1>1 DEF Halves, Deferred, Processing
<1> QED BY <1>1, <1>3, <1>4, SameGraph, SameProducers DEF Halves, Core

-----------------------------------------------------------------------------
(* The layout invariant, step by step.                                     *)

LEMMA InitRInv == Init => RInv
<1> SUFFICES ASSUME Init PROVE RInv
  OBVIOUS
<1>1. Shape /\ Indices \ ops = {} /\ wave = << >> /\ online_wave = << >>
  BY InitIInv DEF IInv, Init
<1>2. CurrentRound \in Round /\ Layout = Append(<< >> \o << >>, CurrentRound)
  BY <1>1, LayoutFacts DEF Layout, AllRounds, Init
<1>3. << >> \o << >> = << >> /\ \A e : PlacesIn(<< >>) = {}
  BY EmptySeq, ConcatEmptySeq DEF PlacesIn
<1>4. CurrentRound.local_operations = << >> /\ CurrentRound.network_operations = << >>
  BY DEF CurrentRound, Init
<1>5. Laid = {}
  BY <1>2, <1>3, <1>4, NoPlaceMore, EmptySeq DEF Laid
<1>6. Range(wave) = {} /\ Range(online_wave) = {}
  BY <1>1, EmptyFacts
<1>7. Settled /\ Halves
  BY <1>1, <1>6 DEF Settled, Halves, Init
<1>8. LaidOnce /\ LaidInOrder /\ WaveReady
  BY <1>1, <1>5, <1>6 DEF LaidOnce, LaidInOrder, WaveReady
<1> QED BY <1>7, <1>8 DEF RInv

LEMMA ScheduleLocalRInv == \A i \in Indices : IInv /\ RInv /\ ScheduleLocal(i) => RInv'
<1> SUFFICES ASSUME NEW i \in Indices, IInv, RInv, ScheduleLocal(i) PROVE RInv'
  OBVIOUS
<1> DEFINE last == LastPlace(Layout, 0)
<1>1. PICK released \in Ascending(Released(i)) : wave' = Tail(wave) \o released
  BY DEF ScheduleLocal
<1>2. /\ Popping(i) /\ raw_ops' = raw_ops /\ pc' = pc /\ ops' = ops \ {i} /\ ~Deferred(i)
      /\ IsLocal(i) /\ in_degree' = Decremented(i) /\ online_wave' = online_wave
      /\ result' = result /\ open' /\ network_operations' = network_operations
      /\ local_operations' = Append(local_operations, i)
      /\ offline_rounds' = offline_rounds /\ online_rounds' = online_rounds
  BY DEF ScheduleLocal, rounds
<1>3. Shape' /\ Shape /\ Processing /\ Processing'
  BY <1>2, ScheduleLocalIInv DEF IInv, Popping, Processing
<1>4. /\ i \in Range(wave) /\ Tail(wave) \in Seq(Indices) /\ released \in Seq(Indices)
      /\ Range(Tail(wave)) \subseteq Range(wave)
  BY <1>2, PopFacts
<1>5. PICK new : new = last
  OBVIOUS
<1> HIDE DEF last
<1>6. /\ LaidOnce' /\ LaidInOrder'
      /\ Laid' = Laid \cup {new} /\ Here' = Here /\ LaidOp(new)' = i
      /\ new.round = Here /\ new.stage = 0
      /\ \A p \in Laid : LaidOp(p)' = LaidOp(p)
      /\ \A j, r : LocalProducer(j, r) => LocalProducer(j, r)'
  <2>1. Appended(i, 0)
    BY <1>2 DEF Appended
  <2> QED BY <1>2, <1>3, <1>4, <1>5, <2>1, TakeLaid DEF last
<1>7. Range(wave') \subseteq Range(wave) \cup Released(i)
  <2> DEFINE rest == Tail(wave)
  <2>1. rest \in Seq(Indices) /\ Range(rest) \subseteq Range(wave) /\ wave' = rest \o released
    BY <1>1, <1>4
  <2>2. released \in [1 .. Cardinality(Released(i)) -> Released(i)]
    BY DEF Ascending
  <2>3. Range(released) \subseteq Released(i)
    BY <2>2 DEF Range
  <2> HIDE DEF rest
  <2> QED BY <2>1, <2>3, <1>4, ConcatFacts
<1>8. \A j \in Released(i) : LocalProducer(j, Here)'
  BY <1>2, <1>6, SameProducers DEF Released, LocalProducer
<1>9. WaveReady'
  <2>1. SUFFICES ASSUME NEW j \in Range(wave'), NEW p \in Laid \cup {new},
                        Feeds(LaidOp(p)', j), p.round = Here, p.stage = 1
                 PROVE  LocalProducer(j, Here)'
    BY <1>2, <1>6, SameProducers DEF WaveReady
  <2>2. p \in Laid
    BY <2>1, <1>6
  <2>3. CASE j \in Range(wave)
    BY <2>1, <2>2, <2>3, <1>6 DEF RInv, WaveReady
  <2> QED BY <2>3, <1>7, <1>8
<1>10. Halves'
  BY <1>2, <1>3, <1>6, TakeHalves
<1>11. Settled'
  BY <1>2, <1>3 DEF Settled, RInv, IInv, Stages, Processing
<1> QED BY <1>6, <1>9, <1>10, <1>11 DEF RInv

LEMMA ScheduleNetworkRInv == \A i \in Indices : IInv /\ RInv /\ ScheduleNetwork(i) => RInv'
<1> SUFFICES ASSUME NEW i \in Indices, IInv, RInv, ScheduleNetwork(i) PROVE RInv'
  OBVIOUS
<1> DEFINE last == LastPlace(Layout, 1)
<1>1. PICK released \in Ascending(Released(i)) : next_wave' = next_wave \o released
  BY DEF ScheduleNetwork
<1>2. /\ Popping(i) /\ raw_ops' = raw_ops /\ pc' = pc /\ ops' = ops \ {i} /\ ~Deferred(i)
      /\ ~IsLocal(i) /\ in_degree' = Decremented(i) /\ online_wave' = online_wave
      /\ result' = result /\ open' /\ local_operations' = local_operations
      /\ network_operations' = Append(network_operations, i) /\ wave' = Tail(wave)
      /\ offline_rounds' = offline_rounds /\ online_rounds' = online_rounds
  BY DEF ScheduleNetwork, rounds
<1>3. Shape' /\ Shape /\ Processing /\ Processing' /\ Traversal
  BY <1>2, ScheduleNetworkIInv DEF IInv, Popping, Processing
<1>4. /\ i \in Range(wave) /\ Range(Tail(wave)) \subseteq Range(wave)
  BY <1>2, PopFacts
<1>5. PICK new : new = last
  OBVIOUS
<1> HIDE DEF last
<1>6. /\ LaidOnce' /\ LaidInOrder'
      /\ Laid' = Laid \cup {new} /\ Here' = Here /\ LaidOp(new)' = i
      /\ new.round = Here /\ new.stage = 1
      /\ \A p \in Laid : LaidOp(p)' = LaidOp(p)
      /\ \A j, r : LocalProducer(j, r) => LocalProducer(j, r)'
  <2>1. Appended(i, 1)
    BY <1>2 DEF Appended
  <2> QED BY <1>2, <1>3, <1>4, <1>5, <2>1, TakeLaid DEF last
<1>7. \A j \in Range(wave) : ~Feeds(i, j)
  <2>1. Range(wave) \subseteq InQueue /\ i \in InQueue
    BY <1>4 DEF InQueue
  <2>2. \A k \in ops : \A j \in InQueue : ~Feeds(k, j)
    BY <1>3, WaitersFree
  <2>3. i \in ops
    BY <1>3, <2>1 DEF Traversal, QueuedExactly
  <2> QED BY <2>1, <2>2, <2>3
<1>8. WaveReady'
  <2>1. SUFFICES ASSUME NEW j \in Range(wave), NEW p \in Laid \cup {new},
                        Feeds(LaidOp(p)', j), p.round = Here, p.stage = 1
                 PROVE  LocalProducer(j, Here)'
    BY <1>2, <1>4, <1>6, SameProducers DEF WaveReady
  <2>2. p \in Laid
    BY <2>1, <1>6, <1>7
  <2> QED BY <2>1, <2>2, <1>6 DEF RInv, WaveReady
<1>9. Halves'
  BY <1>2, <1>3, <1>6, TakeHalves
<1>10. Settled'
  BY <1>2, <1>3 DEF Settled, RInv, IInv, Stages, Processing
<1> QED BY <1>6, <1>8, <1>9, <1>10 DEF RInv

LEMMA RejectRInv == IInv /\ RInv /\ Reject => RInv'
<1> SUFFICES ASSUME IInv, RInv, Reject PROVE RInv'
  OBVIOUS
<1>1. /\ pc = "new" /\ pc' = "done" /\ raw_ops' = raw_ops /\ ops' = ops /\ wave' = wave
      /\ ~open /\ open' = open /\ wave = << >> /\ result' \notin {"Ok", "CircuitCyclic"}
      /\ local_operations' = local_operations /\ network_operations' = network_operations
      /\ offline_rounds' = offline_rounds /\ online_rounds' = online_rounds
  <2>1. Verdict \notin {"Ok", "CircuitCyclic"}
    BY DEF Verdict
  <2> QED BY <2>1 DEF Reject, queues, current, rounds, IInv, Stages
<1>2. /\ Laid' = Laid /\ Here' = Here /\ \A p : LaidOp(p)' = LaidOp(p)
      /\ \A j, r : LocalProducer(j, r)' = LocalProducer(j, r)
  BY <1>1, LayoutKept
<1>3. LaidOnce' /\ LaidInOrder'
  BY <1>1, <1>2, SameGraph, SameProducers DEF RInv, LaidOnce, LaidInOrder, Precedes
<1>4. Settled' /\ WaveReady' /\ Halves'
  BY <1>1, EmptyFacts DEF RInv, Settled, WaveReady, Halves
<1> QED BY <1>3, <1>4 DEF RInv

LEMMA BuildGraphRInv == IInv /\ RInv /\ BuildGraph => RInv'
<1> SUFFICES ASSUME IInv, RInv, BuildGraph PROVE RInv'
  OBVIOUS
<1>1. /\ pc = "new" /\ pc' = "offline" /\ raw_ops' = raw_ops /\ ops' = ops /\ ops = Indices
      /\ ~open /\ open' = open /\ result = "none" /\ result' = result
      /\ online_wave = << >> /\ online_wave' = online_wave
      /\ local_operations' = local_operations /\ network_operations' = network_operations
      /\ offline_rounds' = offline_rounds /\ online_rounds' = online_rounds
  BY DEF BuildGraph, queues, current, rounds, IInv, Stages
<1>2. /\ Laid' = Laid /\ Here' = Here /\ \A p : LaidOp(p)' = LaidOp(p)
      /\ \A j, r : LocalProducer(j, r)' = LocalProducer(j, r)
  BY <1>1, LayoutKept
<1>3. LaidOnce' /\ LaidInOrder'
  BY <1>1, <1>2, SameGraph, SameProducers DEF RInv, LaidOnce, LaidInOrder, Precedes
<1>4. Laid = {}
  <2>1. {LaidOp(p) : p \in Laid} = {}
    BY <1>1 DEF RInv, LaidOnce
  <2> QED BY <2>1
<1>5. Settled' /\ WaveReady' /\ Halves'
  BY <1>1, <1>2, <1>4, SameGraph, EmptyFacts DEF RInv, Settled, WaveReady, Halves
<1> QED BY <1>3, <1>5 DEF RInv

LEMMA DeferInputRInv == \A i \in Indices : IInv /\ RInv /\ DeferInput(i) => RInv'
<1> SUFFICES ASSUME NEW i \in Indices, IInv, RInv, DeferInput(i) PROVE RInv'
  OBVIOUS
<1>1. /\ pc = "offline" /\ IsInput(i) /\ wave # << >> /\ wave' = Tail(wave) /\ open'
      /\ online_wave' = Append(online_wave, i) /\ raw_ops' = raw_ops /\ ops' = ops
      /\ pc' = pc /\ result' = result /\ result = "none" /\ Processing
      /\ local_operations' = local_operations /\ network_operations' = network_operations
      /\ offline_rounds' = offline_rounds /\ online_rounds' = online_rounds
  BY DEF DeferInput, Deferred, Popping, rounds, IInv, Stages, Processing
<1>2. /\ Laid' = Laid /\ Here' = Here /\ \A p : LaidOp(p)' = LaidOp(p)
      /\ \A j, r : LocalProducer(j, r)' = LocalProducer(j, r)
  BY <1>1, LayoutKept
<1>3. LaidOnce' /\ LaidInOrder'
  BY <1>1, <1>2, SameGraph, SameProducers DEF RInv, LaidOnce, LaidInOrder, Precedes
<1>4. Range(wave') \subseteq Range(wave) /\ Range(online_wave') = Range(online_wave) \cup {i}
  <2>1. wave \in Seq(Indices) /\ online_wave \in Seq(Indices) /\ Distinct(wave)
    BY <1>1 DEF IInv, Shape, Traversal, NoRepeats
  <2> QED BY <2>1, <1>1, TailFacts, AppendFacts
<1>5. WaveReady'
  BY <1>1, <1>2, <1>4, SameProducers DEF RInv, WaveReady
<1>6. Settled' /\ Halves'
  BY <1>1, <1>4, SameGraph, SameProducers DEF RInv, Settled, Halves
<1> QED BY <1>3, <1>5, <1>6 DEF RInv

\* No place stands in a round whose two halves are empty.
LEMMA HereEmpty ==
  ASSUME Shape, local_operations = << >>, network_operations = << >>, NEW p \in Laid
  PROVE  p.round # Here
<1>1. /\ p.stage \in {0, 1} /\ p.at \in DOMAIN StageOf(Layout, p.round, p.stage)
  BY PlaceFacts DEF Laid
<1>2. Layout[Here] = CurrentRound
  BY LayoutFacts
<1>3. p.round = Here => StageOf(Layout, p.round, p.stage) = << >>
  BY <1>1, <1>2 DEF StageOf, CurrentRound
<1> QED BY <1>1, <1>3, EmptySeq

\* Pushing the current round and starting an empty one keeps every place.
LEMMA RoundPushed ==
  ASSUME Shape, NEW e \in Round, e.local_operations = << >>, e.network_operations = << >>,
         NEW off \in Seq(Round), NEW on \in Seq(Round),
         \/ off = offline_rounds /\ on = Append(online_rounds, CurrentRound)
         \/ /\ off = Append(offline_rounds, CurrentRound)
            /\ on = online_rounds /\ online_rounds = << >>
  PROVE  /\ off \o on = Layout
         /\ PlacesIn(Append(off \o on, e)) = Laid
         /\ \A p \in Laid : OpIn(Append(off \o on, e), p) = LaidOp(p)
<1>1. CurrentRound \in Round /\ Layout \in Seq(Round)
  BY LayoutFacts
<1>2. offline_rounds \in Seq(Round) /\ online_rounds \in Seq(Round) /\ <<CurrentRound>> \in Seq(Round)
  BY <1>1 DEF Shape
<1>3. Layout = (offline_rounds \o online_rounds) \o <<CurrentRound>>
  BY <1>1, <1>2, ConcatProperties, AppendIsConcat DEF Layout, AllRounds
<1>4. off \o on = Layout
  <2>1. CASE off = offline_rounds /\ on = Append(online_rounds, CurrentRound)
    <3>1. on = online_rounds \o <<CurrentRound>>
      BY <1>1, <1>2, <2>1, AppendIsConcat
    <3> QED BY <3>1, <2>1, <1>2, <1>3, ConcatAssociative
  <2>2. CASE /\ off = Append(offline_rounds, CurrentRound)
             /\ on = online_rounds /\ online_rounds = << >>
    <3>1. off \o on = off /\ offline_rounds \o online_rounds = offline_rounds
      BY <1>2, <2>2, ConcatEmptySeq
    <3> QED BY <3>1, <2>2 DEF Layout, AllRounds
  <2> QED BY <2>1, <2>2
<1> QED BY <1>1, <1>4, NoPlaceMore DEF Laid, LaidOp

LEMMA CloseRoundRInv == IInv /\ RInv /\ CloseRound => RInv'
<1> SUFFICES ASSUME IInv, RInv, CloseRound PROVE RInv'
  OBVIOUS
<1>1. /\ wave' = next_wave /\ online_wave' = online_wave /\ ~open' /\ Processing
      /\ raw_ops' = raw_ops /\ ops' = ops /\ pc' = pc /\ result' = result /\ result = "none"
      /\ local_operations' = << >> /\ network_operations' = << >> /\ open /\ pc # "done"
  BY DEF CloseRound, IInv, Stages, RInv, Settled, Processing
<1>2. \/ /\ pc = "online" /\ offline_rounds' = offline_rounds
         /\ online_rounds' = Append(online_rounds, CurrentRound)
      \/ /\ pc = "offline" /\ offline_rounds' = Append(offline_rounds, CurrentRound)
         /\ online_rounds' = online_rounds /\ online_rounds = << >>
  BY DEF CloseRound, RInv, Settled
<1>3. Shape /\ Shape'
  BY CloseRoundIInv DEF IInv
<1>4. /\ Laid' = Laid /\ AllRounds' = Layout /\ \A p \in Laid : LaidOp(p)' = LaidOp(p)
  <2>1. /\ CurrentRound' \in Round
        /\ CurrentRound'.local_operations = << >> /\ CurrentRound'.network_operations = << >>
    BY <1>1, <1>3, SameGraph, LayoutFacts, EmptyFacts DEF CurrentRound, Round
  <2>2. offline_rounds' \in Seq(Round) /\ online_rounds' \in Seq(Round)
    BY <1>1, <1>3, SameGraph DEF Shape
  <2>3. PICK e \in Round : e = CurrentRound'
    BY <2>1
  <2>4. PICK off \in Seq(Round) : off = offline_rounds'
    BY <2>2
  <2>5. PICK on \in Seq(Round) : on = online_rounds'
    BY <2>2
  <2>6. /\ off \o on = Layout
        /\ PlacesIn(Append(off \o on, e)) = Laid
        /\ \A p \in Laid : OpIn(Append(off \o on, e), p) = LaidOp(p)
    BY <1>2, <1>3, <2>1, <2>3, <2>4, <2>5, RoundPushed
  <2>7. AllRounds' = off \o on /\ Layout' = Append(off \o on, e)
    BY <2>3, <2>4, <2>5 DEF AllRounds, Layout
  <2> QED BY <2>6, <2>7 DEF Laid, LaidOp
<1>5. Here' = Here + 1 /\ Here \in Nat
  BY <1>3, <1>4, LayoutFacts DEF Here
<1>6. \A p \in Laid : p.round \in Nat /\ p.round <= Here
  BY <1>3, LaidRound
<1>7. \A j, r : LocalProducer(j, r) => LocalProducer(j, r)'
  BY <1>1, <1>4, SameProducers DEF LocalProducer
<1>8. LaidOnce'
  BY <1>1, <1>4, SameGraph, SameProducers DEF RInv, LaidOnce
<1>9. LaidInOrder'
  <2>1. SUFFICES ASSUME NEW p \in Laid, NEW q \in Laid, NEW j, j = LaidOp(q), Feeds(LaidOp(p), j)
                 PROVE  /\ p.round <= q.round
                        /\ Precedes(p, q) \/ (p.stage = 1 /\ LocalProducer(j, q.round)')
    BY <1>1, <1>4, SameProducers DEF LaidInOrder, Precedes
  <2> QED BY <2>1, <1>7 DEF RInv, LaidInOrder
<1>10. WaveReady'
  BY <1>4, <1>5, <1>6 DEF WaveReady
<1>11. Settled'
  BY <1>1, <1>2 DEF RInv, Settled
<1>12. Halves'
  <2>1. pc = "online" => LaidOffline' = LaidOffline
    BY <1>2, <1>4 DEF LaidOffline
  <2> QED BY <1>1, <2>1, SameGraph, SameProducers DEF RInv, Halves, Processing
<1> QED BY <1>8, <1>9, <1>10, <1>11, <1>12 DEF RInv

\* When the offline wave runs dry, what has been taken is free of inputs and
\* closed under producers; what another such set holds beyond it is stuck.
LEMMA StartOnlineRInv == IInv /\ RInv /\ StartOnline => RInv'
<1> SUFFICES ASSUME IInv, RInv, StartOnline PROVE RInv'
  OBVIOUS
<1>1. /\ pc = "offline" /\ pc' = "online" /\ ~open /\ open' = open /\ wave = << >>
      /\ wave' = online_wave /\ raw_ops' = raw_ops /\ ops' = ops /\ result' = result
      /\ local_operations' = local_operations /\ network_operations' = network_operations
      /\ offline_rounds' = offline_rounds /\ online_rounds' = online_rounds
      /\ Processing /\ result = "none" /\ next_wave = << >>
  BY DEF StartOnline, current, rounds, IInv, Stages, Processing
<1>2. /\ Shape /\ Traversal /\ Settled /\ Halves /\ LaidOnce
      /\ local_operations = << >> /\ network_operations = << >> /\ online_rounds = << >>
  BY <1>1 DEF IInv, RInv, Settled
<1>3. /\ Laid' = Laid /\ Here' = Here /\ \A p : LaidOp(p)' = LaidOp(p)
      /\ LaidOffline' = LaidOffline /\ \A j, r : LocalProducer(j, r)' = LocalProducer(j, r)
  BY <1>1, LayoutKept
<1>4. LaidOnce' /\ LaidInOrder'
  BY <1>1, <1>3, SameGraph, SameProducers DEF RInv, LaidOnce, LaidInOrder, Precedes
<1>5. \A p \in Laid : p.round # Here
  BY <1>2, HereEmpty
<1>6. WaveReady'
  BY <1>3, <1>5 DEF WaveReady
<1>7. LaidOffline = Indices \ ops
  <2>1. Here = Len(offline_rounds) + 1 /\ Len(offline_rounds) \in Nat
    BY <1>2, LayoutFacts, EmptySeq
  <2>2. \A p \in Laid : p.round <= Len(offline_rounds)
    BY <2>1, <1>2, <1>5, LaidRound
  <2>3. LaidOffline = {LaidOp(p) : p \in Laid}
    BY <2>2 DEF LaidOffline
  <2> QED BY <2>3, <1>2 DEF LaidOnce
<1>8. InputFree(LaidOffline)
  BY <1>1, <1>2, <1>7, WaitersFree DEF InputFree, Halves
<1>9. ASSUME NEW S \in SUBSET Indices, InputFree(S), ~(S \subseteq LaidOffline)
      PROVE  Core(S \ LaidOffline)
  <2>1. SUFFICES ASSUME NEW j \in S, j \in ops PROVE \E k \in S \ LaidOffline : Feeds(k, j)
    BY <1>2, <1>7, <1>9 DEF Core, Shape
  <2>2. InQueue = Range(online_wave)
    BY <1>1, EmptyFacts DEF InQueue
  <2>3. j \notin InQueue
    BY <1>1, <1>2, <1>9, <2>1, <2>2 DEF Halves, InputFree
  <2>4. Unresolved(j) # {}
    BY <1>2, <2>1, <2>3 DEF Traversal, QueuedExactly
  <2>5. PICK k \in ops : Feeds(k, j)
    BY <2>4 DEF Unresolved, Feeds
  <2>6. k \in Indices
    BY <2>5, <1>2 DEF Shape
  <2>7. k \in S \ LaidOffline
    BY <1>7, <1>9, <2>1, <2>5, <2>6 DEF InputFree
  <2> QED BY <2>5, <2>7
<1>10. Settled'
  BY <1>1, <1>2 DEF Settled
<1>11. Halves'
  BY <1>1, <1>3, <1>7, <1>8, <1>9, SameGraph, SameProducers DEF Halves
<1> QED BY <1>4, <1>6, <1>10, <1>11 DEF RInv

LEMMA ReturnRInv == IInv /\ RInv /\ Return => RInv'
<1> SUFFICES ASSUME IInv, RInv, Return PROVE RInv'
  OBVIOUS
<1>1. /\ pc = "online" /\ pc' = "done" /\ ~open /\ open' = open /\ wave = << >> /\ wave' = wave
      /\ raw_ops' = raw_ops /\ ops' = ops
      /\ result' = (IF ops # {} THEN "CircuitCyclic" ELSE "Ok")
      /\ local_operations' = local_operations /\ network_operations' = network_operations
      /\ offline_rounds' = offline_rounds /\ online_rounds' = online_rounds
  BY DEF Return, queues, current, rounds, Outcome
<1>2. /\ Laid' = Laid /\ Here' = Here /\ \A p : LaidOp(p)' = LaidOp(p)
      /\ LaidOffline' = LaidOffline /\ \A j, r : LocalProducer(j, r)' = LocalProducer(j, r)
  BY <1>1, LayoutKept
<1>3. LaidOnce' /\ LaidInOrder'
  BY <1>1, <1>2, SameGraph, SameProducers DEF RInv, LaidOnce, LaidInOrder, Precedes
<1>4. Settled' /\ WaveReady'
  BY <1>1, EmptyFacts DEF RInv, Settled, WaveReady
<1>5. Halves'
  BY <1>1, <1>2, SameGraph, SameProducers DEF RInv, Halves
<1> QED BY <1>3, <1>4, <1>5 DEF RInv

LEMMA NextRInv == IInv /\ RInv /\ [Next]_vars => RInv'
<1> SUFFICES ASSUME IInv, RInv, [Next]_vars PROVE RInv'
  OBVIOUS
<1>1. CASE Next
  BY <1>1, RejectRInv, BuildGraphRInv, DeferInputRInv, ScheduleLocalRInv, ScheduleNetworkRInv,
     CloseRoundRInv, StartOnlineRInv, ReturnRInv DEF Next
<1>2. CASE UNCHANGED vars
  <2>1. /\ raw_ops' = raw_ops /\ pc' = pc /\ ops' = ops /\ open' = open /\ result' = result
        /\ wave' = wave /\ online_wave' = online_wave
        /\ local_operations' = local_operations /\ network_operations' = network_operations
        /\ offline_rounds' = offline_rounds /\ online_rounds' = online_rounds
    BY <1>2 DEF vars, queues, current, rounds
  <2>2. /\ Laid' = Laid /\ Here' = Here /\ \A p : LaidOp(p)' = LaidOp(p)
        /\ LaidOffline' = LaidOffline /\ \A j, r : LocalProducer(j, r)' = LocalProducer(j, r)
    BY <2>1, LayoutKept
  <2>3. LaidOnce' /\ LaidInOrder' /\ WaveReady'
    BY <2>1, <2>2, SameGraph, SameProducers DEF RInv, LaidOnce, LaidInOrder, WaveReady, Precedes
  <2>4. Settled' /\ Halves'
    BY <2>1, <2>2, SameGraph, SameProducers DEF RInv, Settled, Halves
  <2> QED BY <2>3, <2>4 DEF RInv
<1> QED BY <1>1, <1>2

\* What is laid out in rounds agrees, throughout, with what has been taken.
THEOREM LayoutInvariance == Spec => [](IInv /\ RInv)
<1>1. Init => IInv /\ RInv
  BY InitIInv, InitRInv
<1>2. (IInv /\ RInv) /\ [Next]_vars => (IInv /\ RInv)'
  BY NextIInv, NextRInv
<1> QED BY <1>1, <1>2, PTL DEF Spec

\* Once the constructor has succeeded no round is under construction: the
\* places of the layout are those of the rounds handed back.
LEMMA AllLaid ==
  ASSUME Shape, Settled, result = "Ok"
  PROVE  Places = Laid /\ \A p \in Laid : OpAt(p) = LaidOp(p)
<1>1. /\ CurrentRound \in Round
      /\ CurrentRound.local_operations = << >> /\ CurrentRound.network_operations = << >>
  BY LayoutFacts DEF Settled, CurrentRound
<1>2. AllRounds \in Seq(Round)
  BY ConcatProperties DEF AllRounds, Shape
<1>3. Laid = PlacesIn(AllRounds) /\ \A p \in Laid : LaidOp(p) = OpIn(AllRounds, p)
  BY <1>1, <1>2, NoPlaceMore DEF Laid, LaidOp, Layout
<1>4. \A r : /\ LocalPlaces(r) = StagePlaces(AllRounds, r, 0)
             /\ NetworkPlaces(r) = StagePlaces(AllRounds, r, 1)
  BY DEF LocalPlaces, NetworkPlaces, StagePlaces, StageOf
<1>5. Places = PlacesIn(AllRounds)
  BY <1>4 DEF Places, PlacesIn
<1>6. \A p \in Laid : OpAt(p) = LaidOp(p)
  BY <1>3 DEF OpAt, OpIn, StageOf
<1> QED BY <1>3, <1>5, <1>6

\* The constructor succeeds only with lists that it has found valid.
OkIfValid == result = "Ok" => Verdict = "Valid"

LEMMA StaysOkIfValid == IInv /\ OkIfValid /\ [Next]_vars => OkIfValid'
<1> SUFFICES ASSUME IInv, OkIfValid, [Next]_vars PROVE OkIfValid'
  OBVIOUS
<1>1. raw_ops' = raw_ops
  BY DEF Next, vars, Reject, BuildGraph, DeferInput, ScheduleLocal, ScheduleNetwork, CloseRound, StartOnline, Return
<1>2. Verdict' = Verdict
  BY <1>1 DEF Verdict, Indices, IsInput, IsLocal, ProducedManyTimes, ConsumedNotProduced, OutputSlots, OutputAt,
     Slots, Fed
<1>3. result' = "Ok" => result = "Ok" \/ Verdict = "Valid"
  BY DEF Next, vars, Reject, BuildGraph, DeferInput, ScheduleLocal, ScheduleNetwork, CloseRound, StartOnline, Return,
     IInv, Stages, Processing, queues, current, rounds, Verdict
<1> QED BY <1>2, <1>3 DEF OkIfValid

LEMMA LaidScheduledOnce == IInv /\ RInv => ScheduledOnce
<1> SUFFICES ASSUME IInv, RInv, result = "Ok" PROVE ScheduledOnce
  BY DEF ScheduledOnce
<1>1. Places = Laid /\ \A p \in Laid : OpAt(p) = LaidOp(p)
  BY AllLaid DEF IInv, RInv
<1>2. ops = {} /\ LaidOnce
  BY DEF RInv, Settled
<1>3. \A i \in Indices : \E p \in Places : OpAt(p) = i
  BY <1>1, <1>2 DEF LaidOnce
<1>4. \A p, q \in Places : OpAt(p) = OpAt(q) => p = q
  BY <1>1, <1>2 DEF LaidOnce
<1>5. \A p \in Places : p.stage = 0 <=> IsLocal(OpAt(p))
  BY <1>1, <1>2 DEF LaidOnce
<1> QED BY <1>3, <1>4, <1>5 DEF ScheduledOnce

\* An accepted circuit runs each operation of the list at exactly one place,
\* local ones and only they in the local half of a round (circuit.rs:213-219).
THEOREM EachScheduledOnce == Spec => []ScheduledOnce
BY LaidScheduledOnce, LayoutInvariance, PTL

LEMMA LaidOfflineExact == IInv /\ RInv => OfflineIsInputIndependent
<1> SUFFICES ASSUME IInv, RInv, result = "Ok" PROVE OfflineIsInputIndependent
  BY DEF OfflineIsInputIndependent
<1>1. Places = Laid /\ \A p \in Laid : OpAt(p) = LaidOp(p)
  BY AllLaid DEF IInv, RInv
<1>2. {OpAt(p) : p \in {q \in Places : q.round <= Len(offline_rounds)}} = LaidOffline
  BY <1>1 DEF LaidOffline
<1>3. /\ InputFree(LaidOffline) /\ LaidOffline \subseteq Indices
      /\ \A S \in SUBSET Indices : InputFree(S) => S \subseteq LaidOffline \/ Core(S \ LaidOffline)
  BY DEF RInv, Halves
<1>4. \A S \in SUBSET Indices : ~Core(S)
  BY DEF IInv, CyclicExactly
<1>5. \A S \in SUBSET Indices : InputFree(S) => S \subseteq LaidOffline
  BY <1>3, <1>4
<1>6. InputIndependent = LaidOffline
  BY <1>3, <1>5 DEF InputIndependent
<1> QED BY <1>2, <1>6 DEF OfflineIsInputIndependent

\* The offline rounds of an accepted circuit hold the operations that depend on
\* no input, all of them and nothing else (circuit.rs:254).
THEOREM OfflineExact == Spec => []OfflineIsInputIndependent
BY LaidOfflineExact, LayoutInvariance, PTL

LEMMA LaidEarlyOnlyIfMixed == IInv /\ RInv => EarlyOnlyIfMixed
<1> SUFFICES ASSUME IInv, RInv, result = "Ok",
                    NEW p \in Laid, NEW q \in Laid, Feeds(LaidOp(p), LaidOp(q))
             PROVE  /\ p.round <= q.round
                    /\ Precedes(p, q) \/ \E l \in Laid : /\ Feeds(LaidOp(l), LaidOp(q))
                                                         /\ l.round = q.round /\ l.stage = 0
                                                         /\ p.stage = 1
  BY AllLaid DEF EarlyOnlyIfMixed, IInv, RInv
<1> QED BY DEF RInv, LaidInOrder, LocalProducer

\* The order in which an accepted circuit runs breaks the order of its wires
\* only where a wave mixed network and local producers (circuit.rs:221-231).
THEOREM EarlyOnlyWhenMixed == Spec => []EarlyOnlyIfMixed
BY LaidEarlyOnlyIfMixed, LayoutInvariance, PTL

=============================================================================
