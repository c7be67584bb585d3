--------------------------- MODULE Session_proofs ---------------------------
(***************************************************************************)
(* A list of operations from MpcCircuit::new to the outputs.               *)
(***************************************************************************)
EXTENDS Session, SequenceTheorems, TLAPS

\* The constructor with its theorems.
Built == INSTANCE Circuit_proofs WITH
  Wires <- UNION {{op.output} \cup Range(op.inputs) : op \in UNION {Range(l) : l \in Lists}},
  Circuits <- {Shapes(l) : l \in Lists},
  Unsound <- {}

\* The circuits that contexts can run: what Execution supposes of its Plans.
Operation == UNION {Range(l) : l \in Lists}
PlanRound == [local_operations : Seq(Operation), network_operations : Seq(Operation)]
WritesOnce(pl) ==
  LET rounds == Contexts!RoundsInOrder(pl)
  IN \A j, k \in DOMAIN rounds :
       \A m \in DOMAIN Contexts!OpsInOrder(rounds[j]), n \in DOMAIN Contexts!OpsInOrder(rounds[k]) :
         Contexts!OpsInOrder(rounds[j])[m].output = Contexts!OpsInOrder(rounds[k])[n].output => j = k /\ m = n
Runnable(pl) ==
  /\ \A r \in Contexts!RoundsOf(pl) : /\ \A op \in Range(r.local_operations) : IsOperationLocal(op)
                                      /\ \A op \in Range(r.network_operations) : ~IsOperationLocal(op)
  /\ WritesOnce(pl)
  /\ \A r \in Range(pl.offline_rounds) : \A op \in Range(r.network_operations) : op.kind # "Input"
Plans == {pl \in [offline_rounds : Seq(PlanRound), online_rounds : Seq(PlanRound)] : Runnable(pl)}

\* The contexts with their theorems.
Proved == INSTANCE Execution_proofs WITH Plans <- Plans, MaxRetries <- 0

LEMMA SeqRange == ASSUME NEW S, NEW s \in Seq(S) PROVE s \in Seq(Range(s))
<1>1. s \in [1..Len(s) -> S] /\ Len(s) \in Nat
  OBVIOUS
<1>2. s \in [1..Len(s) -> Range(s)]
  BY <1>1 DEF Range
<1> QED BY <1>1, <1>2, SeqDef

\* The assumptions of Circuit and of Execution hold of what is substituted.
LEMMA BuiltSupposes == Built!CircuitsAssumption
<1> SUFFICES ASSUME NEW l \in Lists PROVE Shapes(l) \in Seq(Built!Operation)
  BY DEF Built!CircuitsAssumption
<1> DEFINE wires == UNION {{op.output} \cup Range(op.inputs) : op \in UNION {Range(m) : m \in Lists}}
<1>1. l \in Seq(Range(l)) /\ l \in [1..Len(l) -> Range(l)] /\ Len(l) \in Nat /\ DOMAIN l = 1..Len(l)
  BY SessionAssumption
<1>2. ASSUME NEW i \in DOMAIN l PROVE Shape(l[i]) \in Built!Operation
  <2>1. l[i] \in Range(l) /\ l[i].inputs \in Seq(Range(l[i].inputs))
    BY SessionAssumption DEF Range
  <2>2. Range(l[i].inputs) \subseteq wires /\ l[i].output \in wires
    BY <2>1
  <2>3. l[i].inputs \in Seq(wires) /\ <<l[i].output>> \in Seq(wires)
    BY <2>1, <2>2
  <2>4. (l[i].kind = "Input") \in BOOLEAN /\ IsOperationLocal(l[i]) \in BOOLEAN
    BY DEF IsOperationLocal
  <2> QED BY <2>3, <2>4 DEF Shape, Built!Operation
<1>3. Shapes(l) \in [1..Len(l) -> Built!Operation]
  BY <1>1, <1>2 DEF Shapes
<1> QED BY <1>1, <1>3, SeqDef

LEMMA ContextsSuppose == Proved!ExecutionAssumption /\ Proved!PlansAssumption
<1>1. Proved!ExecutionAssumption
  BY SessionAssumption DEF Proved!ExecutionAssumption, Proved!Range, Range
<1>2. ASSUME NEW pl \in Plans
      PROVE  /\ pl.offline_rounds \in Seq(Range(pl.offline_rounds))
             /\ pl.online_rounds \in Seq(Range(pl.online_rounds))
             /\ \A r \in Contexts!RoundsOf(pl) :
                  /\ r.local_operations \in Seq(Range(r.local_operations))
                  /\ r.network_operations \in Seq(Range(r.network_operations))
  <2>1. pl.offline_rounds \in Seq(PlanRound) /\ pl.online_rounds \in Seq(PlanRound)
    BY DEF Plans
  <2>2. \A r \in Contexts!RoundsOf(pl) : r \in PlanRound
    BY <2>1 DEF Contexts!RoundsOf, Contexts!Range
  <2> QED BY <2>1, <2>2, SeqRange DEF PlanRound
<1>3. /\ \A pl : Proved!RoundsOf(pl) = Contexts!RoundsOf(pl) /\ Proved!RoundsInOrder(pl) = Contexts!RoundsInOrder(pl)
      /\ \A r : Proved!OpsInOrder(r) = Contexts!OpsInOrder(r)
      /\ \A s : Proved!Range(s) = Range(s)
      /\ \A op : Proved!IsOperationLocal(op) = IsOperationLocal(op)
  BY DEF Proved!RoundsOf, Contexts!RoundsOf, Proved!RoundsInOrder, Contexts!RoundsInOrder, Proved!OpsInOrder,
     Contexts!OpsInOrder, Proved!Range, Contexts!Range, Range, Proved!IsOperationLocal, IsOperationLocal
<1>4. Proved!PlansAssumption
  <2>1. ASSUME NEW pl \in Plans PROVE Runnable(pl) /\ WritesOnce(pl)
    BY DEF Plans, Runnable
  <2> QED BY <1>2, <1>3, <2>1 DEF Proved!PlansAssumption, Runnable, WritesOnce
<1> QED BY <1>1, <1>4

-----------------------------------------------------------------------------
(* A circuit that the constructor accepts is one that contexts can run.    *)

\* MpcCircuit::new has returned Ok.
Accepted == /\ list \in Lists /\ raw_ops = Shapes(list) /\ result = "Ok"
            /\ Built!IInv /\ Built!RInv /\ Built!OkIfValid

ThePlan == [offline_rounds |-> Laid(offline_rounds), online_rounds |-> Laid(online_rounds)]
TheRounds == Contexts!RoundsInOrder(ThePlan)

\* What the constructor's theorems say of it.
LEMMA AcceptedFacts ==
  ASSUME Accepted
  PROVE  /\ Built!ScheduledOnce /\ Built!OfflineIsInputIndependent /\ Built!EarlyOnlyIfMixed
         /\ Built!Shape /\ Built!Verdict = "Valid"
<1>1. Built!ScheduledOnce /\ Built!OfflineIsInputIndependent /\ Built!EarlyOnlyIfMixed
  BY BuiltSupposes, Built!LaidScheduledOnce, Built!LaidOfflineExact, Built!LaidEarlyOnlyIfMixed DEF Accepted
<1>2. Built!Shape /\ Built!Verdict = "Valid"
  BY DEF Accepted, Built!IInv, Built!OkIfValid
<1> QED BY <1>1, <1>2

LEMMA ShapeFields ==
  \A op : /\ Shape(op).inputs = op.inputs /\ Shape(op).outputs = <<op.output>>
          /\ Shape(op).is_input <=> op.kind = "Input"
          /\ Shape(op).is_local <=> IsOperationLocal(op)
BY DEF Shape

LEMMA ListTyped ==
  ASSUME Accepted
  PROVE  /\ Len(list) \in Nat /\ DOMAIN list = 1..Len(list) /\ Built!Indices = DOMAIN list
         /\ \A i \in DOMAIN list : /\ list[i] \in Operation /\ list[i].inputs \in Seq(Range(list[i].inputs))
                                   /\ raw_ops[i] = Shape(list[i])
<1>1. list \in Lists /\ list \in Seq(Range(list)) /\ raw_ops = Shapes(list)
  BY SessionAssumption DEF Accepted
<1>2. Len(list) \in Nat /\ DOMAIN list = 1..Len(list)
  BY <1>1
<1>3. Built!Indices = DOMAIN list /\ \A i \in DOMAIN list : raw_ops[i] = Shape(list[i])
  BY <1>1 DEF Built!Indices, Shapes
<1>4. ASSUME NEW i \in DOMAIN list
      PROVE  list[i] \in Operation /\ list[i].inputs \in Seq(Range(list[i].inputs))
  <2>1. list[i] \in Range(list)
    BY DEF Range
  <2> QED BY <1>1, <2>1, SessionAssumption DEF Operation
<1> QED BY <1>2, <1>3, <1>4

\* The operations at the indices of a half of a round.
LEMMA OperationsTyped ==
  ASSUME Accepted, NEW s \in Seq(Built!Indices)
  PROVE  /\ Operations(s) \in Seq(Operation) /\ DOMAIN Operations(s) = DOMAIN s
         /\ \A k \in DOMAIN s : Operations(s)[k] = list[s[k]]
<1>1. Len(s) \in Nat /\ DOMAIN s = 1..Len(s) /\ \A k \in DOMAIN s : s[k] \in DOMAIN list
  BY ListTyped
<1>2. Operations(s) \in [1..Len(s) -> Operation]
  BY <1>1, ListTyped DEF Operations
<1> QED BY <1>1, <1>2, SeqDef DEF Operations

LaidRound(r) == [local_operations |-> Operations(r.local_operations),
                 network_operations |-> Operations(r.network_operations)]

LEMMA LaidTyped ==
  ASSUME Accepted, NEW rs \in Seq(Built!Round)
  PROVE  /\ Laid(rs) \in Seq(PlanRound) /\ Len(Laid(rs)) = Len(rs) /\ DOMAIN Laid(rs) = DOMAIN rs
         /\ \A j \in DOMAIN rs : Laid(rs)[j] = LaidRound(rs[j])
<1>1. Len(rs) \in Nat /\ DOMAIN rs = 1..Len(rs) /\ \A j \in DOMAIN rs : rs[j] \in Built!Round
  OBVIOUS
<1>2. ASSUME NEW j \in DOMAIN rs PROVE LaidRound(rs[j]) \in PlanRound
  <2>1. rs[j].local_operations \in Seq(Built!Indices) /\ rs[j].network_operations \in Seq(Built!Indices)
    BY <1>1 DEF Built!Round
  <2> QED BY <2>1, OperationsTyped DEF LaidRound, PlanRound
<1>3. Laid(rs) \in [1..Len(rs) -> PlanRound] /\ \A j \in DOMAIN rs : Laid(rs)[j] = LaidRound(rs[j])
  BY <1>1, <1>2 DEF Laid, LaidRound
<1>4. Laid(rs) \in Seq(PlanRound)
  BY <1>1, <1>3, SeqDef
<1> QED BY <1>1, <1>3, <1>4

\* The rounds of the plan are those of the constructor.
LEMMA TheRoundsAre ==
  ASSUME Accepted
  PROVE  /\ Built!AllRounds \in Seq(Built!Round)
         /\ DOMAIN TheRounds = DOMAIN Built!AllRounds
         /\ \A j \in DOMAIN TheRounds : TheRounds[j] = LaidRound(Built!AllRounds[j])
         /\ Contexts!RoundsOf(ThePlan) = {TheRounds[j] : j \in DOMAIN TheRounds}
         /\ \A r \in Range(ThePlan.offline_rounds) :
              \E j \in DOMAIN TheRounds : r = TheRounds[j] /\ j <= Len(offline_rounds)
<1>1. offline_rounds \in Seq(Built!Round) /\ online_rounds \in Seq(Built!Round)
  BY AcceptedFacts DEF Built!Shape
<1>2. PICK n, m \in Nat :
        /\ n = Len(offline_rounds) /\ m = Len(online_rounds)
        /\ DOMAIN offline_rounds = 1..n /\ DOMAIN online_rounds = 1..m
  BY <1>1
<1>3. /\ Built!AllRounds \in Seq(Built!Round) /\ DOMAIN Built!AllRounds = 1..n + m
      /\ \A j \in 1..n + m : Built!AllRounds[j] = IF j <= n THEN offline_rounds[j] ELSE online_rounds[j - n]
  <2>1. /\ offline_rounds \o online_rounds \in Seq(Built!Round)
        /\ Len(offline_rounds \o online_rounds) = n + m
        /\ \A j \in 1..n + m : (offline_rounds \o online_rounds)[j] = IF j <= n THEN offline_rounds[j] ELSE online_rounds[j - n]
    BY <1>1, <1>2, ConcatProperties
  <2> QED BY <2>1, LenProperties DEF Built!AllRounds
<1> DEFINE off == Laid(offline_rounds)
           on == Laid(online_rounds)
<1>4. /\ off \in Seq(PlanRound) /\ Len(off) = n /\ DOMAIN off = 1..n
      /\ on \in Seq(PlanRound) /\ Len(on) = m /\ DOMAIN on = 1..m
      /\ \A j \in 1..n : off[j] = LaidRound(offline_rounds[j])
      /\ \A j \in 1..m : on[j] = LaidRound(online_rounds[j])
  BY <1>1, <1>2, LaidTyped
<1> HIDE DEF off, on
<1>5. TheRounds = off \o on /\ ThePlan.offline_rounds = off /\ ThePlan.online_rounds = on
  BY DEF TheRounds, ThePlan, Contexts!RoundsInOrder, off, on
<1>6. /\ DOMAIN TheRounds = 1..n + m
      /\ \A j \in 1..n + m : TheRounds[j] = IF j <= n THEN off[j] ELSE on[j - n]
  <2>1. /\ off \o on \in Seq(PlanRound) /\ Len(off \o on) = n + m
        /\ \A j \in 1..n + m : (off \o on)[j] = IF j <= n THEN off[j] ELSE on[j - n]
    BY <1>4, ConcatProperties
  <2> QED BY <1>5, <2>1, LenProperties
<1>7. ASSUME NEW j \in 1..n + m PROVE TheRounds[j] = LaidRound(Built!AllRounds[j])
  <2>1. CASE j <= n
    BY <1>3, <1>4, <1>6, <2>1
  <2>2. CASE ~(j <= n)
    <3>1. j - n \in 1..m
      BY <2>2
    <3> QED BY <1>3, <1>4, <1>6, <2>2, <3>1
  <2> QED BY <2>1, <2>2
<1>8. ASSUME NEW r \in Range(off) PROVE \E j \in 1..n + m : r = TheRounds[j] /\ j <= n
  <2>1. PICK j \in 1..n : r = off[j]
    BY <1>4 DEF Range
  <2>2. j \in 1..n + m /\ j <= n
    OBVIOUS
  <2> QED BY <1>6, <2>1, <2>2
<1>9. ASSUME NEW r \in Range(on) PROVE \E j \in 1..n + m : r = TheRounds[j]
  <2>1. PICK j \in 1..m : r = on[j]
    BY <1>4 DEF Range
  <2>2. PICK k : k = n + j
    OBVIOUS
  <2>3. k \in 1..n + m /\ ~(k <= n) /\ k - n = j
    BY <2>2
  <2> QED BY <1>6, <2>1, <2>3
<1>10. ASSUME NEW j \in 1..n + m PROVE TheRounds[j] \in Range(off) \cup Range(on)
  <2>1. j <= n => j \in 1..n
    OBVIOUS
  <2>2. ~(j <= n) => j - n \in 1..m
    OBVIOUS
  <2> QED BY <1>4, <1>6, <2>1, <2>2 DEF Range
<1>11. Contexts!RoundsOf(ThePlan) = Range(off) \cup Range(on)
  BY <1>5 DEF Contexts!RoundsOf, Contexts!Range, Range
<1>12. Contexts!RoundsOf(ThePlan) = {TheRounds[j] : j \in 1..n + m}
  BY <1>8, <1>9, <1>10, <1>11
<1> QED BY <1>2, <1>3, <1>5, <1>6, <1>7, <1>8, <1>12

Place(j, s, k) == [round |-> j, stage |-> s, at |-> k]
HalfOf(r, s) == IF s = 0 THEN r.local_operations ELSE r.network_operations

\* What stands where in the plan.
LEMMA PlanPlaces ==
  ASSUME Accepted
  PROVE  /\ \A j \in DOMAIN TheRounds : \A s \in {0, 1} :
              /\ HalfOf(TheRounds[j], s) \in Seq(Operation)
              /\ \A k \in DOMAIN HalfOf(TheRounds[j], s) :
                   /\ Place(j, s, k) \in Built!Places
                   /\ Built!OpAt(Place(j, s, k)) \in DOMAIN list
                   /\ HalfOf(TheRounds[j], s)[k] = list[Built!OpAt(Place(j, s, k))]
         /\ \A p \in Built!Places :
              /\ p = Place(p.round, p.stage, p.at)
              /\ p.round \in DOMAIN TheRounds /\ p.stage \in {0, 1}
              /\ p.at \in DOMAIN HalfOf(TheRounds[p.round], p.stage)
<1> DEFINE AR == Built!AllRounds
<1>1. ASSUME NEW j \in DOMAIN TheRounds, NEW s \in {0, 1}
      PROVE  /\ j \in DOMAIN AR /\ HalfOf(AR[j], s) \in Seq(Built!Indices)
             /\ HalfOf(TheRounds[j], s) = Operations(HalfOf(AR[j], s))
             /\ HalfOf(TheRounds[j], s) \in Seq(Operation)
             /\ DOMAIN HalfOf(TheRounds[j], s) = DOMAIN HalfOf(AR[j], s)
  <2>1. j \in DOMAIN AR /\ AR[j] \in Built!Round /\ TheRounds[j] = LaidRound(AR[j])
    <3>1. AR \in Seq(Built!Round) /\ j \in DOMAIN AR /\ TheRounds[j] = LaidRound(AR[j])
      BY TheRoundsAre
    <3> HIDE DEF AR
    <3> QED BY <3>1
  <2>2. HalfOf(AR[j], s) \in Seq(Built!Indices) /\ HalfOf(TheRounds[j], s) = Operations(HalfOf(AR[j], s))
    BY <2>1 DEF HalfOf, LaidRound, Built!Round
  <2> QED BY <2>1, <2>2, OperationsTyped
<1>2. ASSUME NEW j \in DOMAIN TheRounds, NEW s \in {0, 1}, NEW k \in DOMAIN HalfOf(TheRounds[j], s)
      PROVE  /\ Place(j, s, k) \in Built!Places
             /\ Built!OpAt(Place(j, s, k)) \in DOMAIN list
             /\ HalfOf(TheRounds[j], s)[k] = list[Built!OpAt(Place(j, s, k))]
  <2>1. Built!OpAt(Place(j, s, k)) = HalfOf(AR[j], s)[k]
    BY DEF Built!OpAt, Place, HalfOf
  <2>2. k \in DOMAIN HalfOf(AR[j], s) /\ HalfOf(AR[j], s)[k] \in Built!Indices
    <3>1. \A S : \A q \in Seq(S) : \A i \in DOMAIN q : q[i] \in S
      OBVIOUS
    <3> QED BY <1>1, <3>1
  <2>3. HalfOf(TheRounds[j], s)[k] = list[HalfOf(AR[j], s)[k]]
    BY <1>1, <2>2, OperationsTyped
  <2>4. Place(j, s, k) \in Built!Places
    BY <1>1, <2>2 DEF Built!Places, Built!LocalPlaces, Built!NetworkPlaces, Place, HalfOf
  <2> QED BY <2>1, <2>2, <2>3, <2>4, ListTyped
<1>3. ASSUME NEW p \in Built!Places
      PROVE  /\ p = Place(p.round, p.stage, p.at)
             /\ p.round \in DOMAIN TheRounds /\ p.stage \in {0, 1}
             /\ p.at \in DOMAIN HalfOf(TheRounds[p.round], p.stage)
  <2>1. PICK j \in DOMAIN AR, s \in {0, 1} : \E k \in DOMAIN HalfOf(AR[j], s) : p = Place(j, s, k)
    BY DEF Built!Places, Built!LocalPlaces, Built!NetworkPlaces, Place, HalfOf
  <2>2. PICK k \in DOMAIN HalfOf(AR[j], s) : p = Place(j, s, k)
    BY <2>1
  <2>3. p.round = j /\ p.stage = s /\ p.at = k
    BY <2>2 DEF Place
  <2>4. j \in DOMAIN TheRounds
    BY TheRoundsAre
  <2> QED BY <1>1, <2>2, <2>3, <2>4
<1> QED BY <1>1, <1>2, <1>3

\* Operations of the list are known by the wires they write.
LEMMA OutputsApart ==
  ASSUME Accepted, NEW i \in DOMAIN list, NEW j \in DOMAIN list, list[i].output = list[j].output
  PROVE  i = j
<1>1. /\ i \in Built!Indices /\ j \in Built!Indices
      /\ raw_ops[i].outputs = <<list[i].output>> /\ raw_ops[j].outputs = <<list[j].output>>
  BY ListTyped, ShapeFields
<1>2. <<i, 1>> \in Built!OutputSlots /\ <<j, 1>> \in Built!OutputSlots
  <2>1. 1 \in DOMAIN raw_ops[i].outputs /\ 1 \in DOMAIN raw_ops[j].outputs
    BY <1>1
  <2> QED BY <1>1, <2>1 DEF Built!OutputSlots
<1>3. Built!OutputAt(<<i, 1>>) = list[i].output /\ Built!OutputAt(<<j, 1>>) = list[j].output
  BY <1>1 DEF Built!OutputAt
<1>4. ~Built!ProducedManyTimes
  BY AcceptedFacts DEF Built!Verdict
<1>5. <<i, 1>> = <<j, 1>>
  BY <1>2, <1>3, <1>4 DEF Built!ProducedManyTimes
<1> QED BY <1>5

\* What the two halves of a round put in order.
LEMMA OpsPlaced ==
  ASSUME Accepted, NEW j \in DOMAIN TheRounds
  PROVE  \E a, b \in Nat :
           /\ DOMAIN HalfOf(TheRounds[j], 0) = 1..a /\ DOMAIN HalfOf(TheRounds[j], 1) = 1..b
           /\ DOMAIN Contexts!OpsInOrder(TheRounds[j]) = 1..a + b
           /\ \A m \in 1..a + b :
                Contexts!OpsInOrder(TheRounds[j])[m] = IF m <= a THEN HalfOf(TheRounds[j], 0)[m]
                                                       ELSE HalfOf(TheRounds[j], 1)[m - a]
<1> DEFINE r == TheRounds[j]
<1>1. r.local_operations \in Seq(Operation) /\ r.network_operations \in Seq(Operation)
  BY PlanPlaces DEF HalfOf
<1>2. PICK a, b \in Nat :
           /\ a = Len(r.local_operations) /\ b = Len(r.network_operations)
           /\ DOMAIN r.local_operations = 1..a /\ DOMAIN r.network_operations = 1..b
  BY <1>1, LenProperties
<1> HIDE DEF r
<1>3. /\ Contexts!OpsInOrder(r) \in Seq(Operation) /\ Len(Contexts!OpsInOrder(r)) = a + b
      /\ \A m \in 1..a + b :
           Contexts!OpsInOrder(r)[m] = IF m <= a THEN r.local_operations[m] ELSE r.network_operations[m - a]
  BY <1>1, <1>2, ConcatProperties DEF Contexts!OpsInOrder
<1>4. DOMAIN Contexts!OpsInOrder(r) = 1..a + b
  BY <1>3, LenProperties
<1>5. HalfOf(r, 0) = r.local_operations /\ HalfOf(r, 1) = r.network_operations
  BY DEF HalfOf
<1>6. /\ DOMAIN HalfOf(r, 0) = 1..a /\ DOMAIN HalfOf(r, 1) = 1..b
      /\ DOMAIN Contexts!OpsInOrder(r) = 1..a + b
      /\ \A m \in 1..a + b :
           Contexts!OpsInOrder(r)[m] = IF m <= a THEN HalfOf(r, 0)[m] ELSE HalfOf(r, 1)[m - a]
  BY <1>2, <1>3, <1>4, <1>5
<1> QED BY <1>6 DEF r

\* The place of an operation, from its turn in a round whose local half is a long.
Spot(j, a, m) == IF m <= a THEN Place(j, 0, m) ELSE Place(j, 1, m - a)

LEMMA Spots ==
  ASSUME Accepted, NEW j \in DOMAIN TheRounds
  PROVE  \E a \in Nat : \A m \in DOMAIN Contexts!OpsInOrder(TheRounds[j]) :
           /\ m \in Nat /\ Spot(j, a, m) \in Built!Places
           /\ Built!OpAt(Spot(j, a, m)) \in DOMAIN list
           /\ Contexts!OpsInOrder(TheRounds[j])[m] = list[Built!OpAt(Spot(j, a, m))]
<1>1. PICK a, b \in Nat :
           /\ DOMAIN HalfOf(TheRounds[j], 0) = 1..a /\ DOMAIN HalfOf(TheRounds[j], 1) = 1..b
           /\ DOMAIN Contexts!OpsInOrder(TheRounds[j]) = 1..a + b
           /\ \A m \in 1..a + b :
                Contexts!OpsInOrder(TheRounds[j])[m] = IF m <= a THEN HalfOf(TheRounds[j], 0)[m]
                                                       ELSE HalfOf(TheRounds[j], 1)[m - a]
  BY OpsPlaced
<1>2. ASSUME NEW m \in 1..a + b
      PROVE  /\ Spot(j, a, m) \in Built!Places
             /\ Built!OpAt(Spot(j, a, m)) \in DOMAIN list
             /\ Contexts!OpsInOrder(TheRounds[j])[m] = list[Built!OpAt(Spot(j, a, m))]
  <2>1. CASE m <= a
    <3>1. m \in 1..a /\ Spot(j, a, m) = Place(j, 0, m)
      BY <2>1 DEF Spot
    <3> QED BY <1>1, <2>1, <3>1, PlanPlaces
  <2>2. CASE ~(m <= a)
    <3>1. m - a \in 1..b /\ Spot(j, a, m) = Place(j, 1, m - a)
      BY <2>2 DEF Spot
    <3> QED BY <1>1, <2>2, <3>1, PlanPlaces
  <2> QED BY <2>1, <2>2
<1> QED BY <1>1, <1>2

\* No wire of the plan is written twice.
LEMMA ThePlanWritesOnce == Accepted => WritesOnce(ThePlan)
<1> SUFFICES ASSUME Accepted,
                    NEW j \in DOMAIN TheRounds, NEW k \in DOMAIN TheRounds,
                    NEW m \in DOMAIN Contexts!OpsInOrder(TheRounds[j]), NEW n \in DOMAIN Contexts!OpsInOrder(TheRounds[k]),
                    Contexts!OpsInOrder(TheRounds[j])[m].output = Contexts!OpsInOrder(TheRounds[k])[n].output
             PROVE  j = k /\ m = n
  BY DEF WritesOnce, TheRounds
<1>1. PICK a \in Nat : \A x \in DOMAIN Contexts!OpsInOrder(TheRounds[j]) :
           /\ x \in Nat /\ Spot(j, a, x) \in Built!Places
           /\ Built!OpAt(Spot(j, a, x)) \in DOMAIN list
           /\ Contexts!OpsInOrder(TheRounds[j])[x] = list[Built!OpAt(Spot(j, a, x))]
  BY Spots
<1>2. PICK c \in Nat :
        /\ j = k => a = c
        /\ \A x \in DOMAIN Contexts!OpsInOrder(TheRounds[k]) :
             /\ x \in Nat /\ Spot(k, c, x) \in Built!Places
             /\ Built!OpAt(Spot(k, c, x)) \in DOMAIN list
             /\ Contexts!OpsInOrder(TheRounds[k])[x] = list[Built!OpAt(Spot(k, c, x))]
  <2>1. CASE j = k
    BY <1>1, <2>1
  <2>2. CASE j # k
    BY <2>2, Spots
  <2> QED BY <2>1, <2>2
<1>3. Built!OpAt(Spot(j, a, m)) = Built!OpAt(Spot(k, c, n))
  BY <1>1, <1>2, OutputsApart
<1>4. Spot(j, a, m) = Spot(k, c, n)
  BY <1>1, <1>2, <1>3, AcceptedFacts DEF Accepted, Built!ScheduledOnce
<1>5. j = k
  BY <1>4 DEF Spot, Place
<1>6. m \in Nat /\ n \in Nat /\ a = c
  BY <1>1, <1>2, <1>5
<1> QED BY <1>4, <1>5, <1>6 DEF Spot, Place

\* The half that an operation of the plan stands in, and the phase.
LEMMA HalvesRight ==
  ASSUME Accepted, NEW j \in DOMAIN TheRounds, NEW s \in {0, 1}, NEW op \in Range(HalfOf(TheRounds[j], s))
  PROVE  /\ op \in Operation
         /\ s = 0 <=> IsOperationLocal(op)
         /\ j <= Len(offline_rounds) => op.kind # "Input"
<1>1. PICK k \in DOMAIN HalfOf(TheRounds[j], s) : op = HalfOf(TheRounds[j], s)[k]
  BY DEF Range
<1> DEFINE p == Place(j, s, k)
<1>2. /\ p \in Built!Places /\ Built!OpAt(p) \in DOMAIN list /\ op = list[Built!OpAt(p)]
      /\ p.stage = s /\ p.round = j
  BY <1>1, PlanPlaces DEF Place
<1> HIDE DEF p
<1>3. s = 0 <=> IsOperationLocal(op)
  <2>1. s = 0 <=> Built!IsLocal(Built!OpAt(p))
    BY <1>2, AcceptedFacts DEF Accepted, Built!ScheduledOnce
  <2>2. Built!IsLocal(Built!OpAt(p)) <=> IsOperationLocal(op)
    BY <1>2, ListTyped, ShapeFields DEF Built!IsLocal
  <2> QED BY <2>1, <2>2
<1>4. ASSUME j <= Len(offline_rounds) PROVE op.kind # "Input"
  <2>1. Built!OpAt(p) \in Built!InputIndependent
    BY <1>2, <1>4, AcceptedFacts DEF Accepted, Built!OfflineIsInputIndependent
  <2>2. ~Built!IsInput(Built!OpAt(p))
    BY <2>1 DEF Built!InputIndependent, Built!InputFree
  <2> QED BY <1>2, <2>2, ListTyped, ShapeFields DEF Built!IsInput
<1> QED BY <1>2, <1>3, <1>4, ListTyped

\* What is accepted can be run, and is not the absence of a plan.
LEMMA ThePlanRuns == Accepted => ThePlan \in Plans /\ ThePlan # NoPlan
<1> SUFFICES ASSUME Accepted PROVE ThePlan \in Plans /\ ThePlan # NoPlan
  OBVIOUS
<1>1. ThePlan \in [offline_rounds : Seq(PlanRound), online_rounds : Seq(PlanRound)]
  <2>1. offline_rounds \in Seq(Built!Round) /\ online_rounds \in Seq(Built!Round)
    BY AcceptedFacts DEF Built!Shape
  <2> QED BY <2>1, LaidTyped DEF ThePlan
<1>2. ASSUME NEW r \in Contexts!RoundsOf(ThePlan)
      PROVE  /\ \A op \in Range(r.local_operations) : IsOperationLocal(op)
             /\ \A op \in Range(r.network_operations) : ~IsOperationLocal(op)
  <2>1. PICK j \in DOMAIN TheRounds : r = TheRounds[j]
    BY TheRoundsAre
  <2>2. HalfOf(r, 0) = r.local_operations /\ HalfOf(r, 1) = r.network_operations
    BY DEF HalfOf
  <2> QED BY <2>1, <2>2, HalvesRight
<1>3. ASSUME NEW r \in Range(ThePlan.offline_rounds), NEW op \in Range(r.network_operations)
      PROVE  op.kind # "Input"
  <2>1. PICK j \in DOMAIN TheRounds : r = TheRounds[j] /\ j <= Len(offline_rounds)
    BY TheRoundsAre
  <2>2. HalfOf(r, 1) = r.network_operations
    BY DEF HalfOf
  <2> QED BY <2>1, <2>2, HalvesRight
<1>4. ThePlan \in Plans
  BY <1>1, <1>2, <1>3, ThePlanWritesOnce DEF Plans, Runnable
<1>5. ThePlan # NoPlan
  <2>1. raw_ops # << >>
    BY AcceptedFacts DEF Built!Verdict
  <2>2. PICK i : i \in Built!Indices
    <3>1. raw_ops \in Seq(Built!Operation)
      BY AcceptedFacts, BuiltSupposes DEF Built!Shape, Built!CircuitsAssumption
    <3>2. 1 \in DOMAIN raw_ops
      BY <2>1, <3>1, EmptySeq
    <3> QED BY <3>2 DEF Built!Indices
  <2>3. PICK p \in Built!Places : Built!OpAt(p) = i
    BY <2>2, AcceptedFacts DEF Accepted, Built!ScheduledOnce
  <2>4. p.round \in DOMAIN TheRounds
    BY <2>3, PlanPlaces
  <2>5. ThePlan = NoPlan => TheRounds = << >>
    BY DEF NoPlan, TheRounds, Contexts!RoundsInOrder
  <2> QED BY <2>4, <2>5
<1> QED BY <1>4, <1>5

LEMMA HalfRanges ==
  \A r : /\ Range(HalfOf(r, 0)) = Range(r.local_operations) /\ Range(HalfOf(r, 1)) = Range(r.network_operations)
         /\ Contexts!RoundOps(r) = Range(HalfOf(r, 0)) \cup Range(HalfOf(r, 1))
BY DEF HalfOf, Contexts!RoundOps, Contexts!Range, Range

\* The plan holds the operations of the list.
LEMMA ThePlanHoldsList == Accepted => Contexts!PlanOps(ThePlan) = Range(list)
<1> SUFFICES ASSUME Accepted PROVE Contexts!PlanOps(ThePlan) = Range(list)
  OBVIOUS
<1>1. ASSUME NEW op \in Contexts!PlanOps(ThePlan) PROVE op \in Range(list)
  <2>1. PICK j \in DOMAIN TheRounds : op \in Contexts!RoundOps(TheRounds[j])
    BY <1>1, TheRoundsAre DEF Contexts!PlanOps
  <2>2. PICK s \in {0, 1} : op \in Range(HalfOf(TheRounds[j], s))
    BY <2>1, HalfRanges
  <2>3. PICK k \in DOMAIN HalfOf(TheRounds[j], s) : op = HalfOf(TheRounds[j], s)[k]
    BY <2>2 DEF Range
  <2> QED BY <2>3, PlanPlaces DEF Range
<1>2. ASSUME NEW i \in DOMAIN list PROVE list[i] \in Contexts!PlanOps(ThePlan)
  <2>1. PICK p \in Built!Places : Built!OpAt(p) = i
    BY ListTyped, AcceptedFacts DEF Accepted, Built!ScheduledOnce
  <2>2. PICK j \in DOMAIN TheRounds, s \in {0, 1} :
          j = p.round /\ s = p.stage /\ p = Place(j, s, p.at) /\ p.at \in DOMAIN HalfOf(TheRounds[j], s)
    BY <2>1, PlanPlaces
  <2>3. HalfOf(TheRounds[j], s)[p.at] = list[i]
    BY <2>1, <2>2, PlanPlaces
  <2>4. list[i] \in Contexts!RoundOps(TheRounds[j])
    BY <2>2, <2>3, HalfRanges DEF Range
  <2>5. TheRounds[j] \in Contexts!RoundsOf(ThePlan)
    BY TheRoundsAre
  <2> QED BY <2>4, <2>5 DEF Contexts!PlanOps
<1> QED BY <1>1, <1>2 DEF Range

\* The two names that Execution's operators have here.
LEMMA SamePlans ==
  /\ \A pl : /\ Proved!RoundsOf(pl) = Contexts!RoundsOf(pl) /\ Proved!RoundsInOrder(pl) = Contexts!RoundsInOrder(pl)
             /\ Proved!PlanOps(pl) = Contexts!PlanOps(pl)
  /\ \A r : Proved!OpsInOrder(r) = Contexts!OpsInOrder(r) /\ Proved!RoundOps(r) = Contexts!RoundOps(r)
  /\ \A s : Proved!Range(s) = Range(s) /\ Contexts!Range(s) = Range(s)
BY DEF Proved!RoundsOf, Contexts!RoundsOf, Proved!RoundsInOrder, Contexts!RoundsInOrder, Proved!OpsInOrder,
   Contexts!OpsInOrder, Proved!PlanOps, Contexts!PlanOps, Proved!RoundOps, Contexts!RoundOps,
   Proved!Range, Contexts!Range, Range

\* A wire that an operation of the plan reads is written before it, unless that
\* operation is mixed.
LEMMA WrittenBefore ==
  ASSUME Accepted, ~Mixed, NEW j \in DOMAIN TheRounds, NEW s \in {0, 1},
         NEW k \in DOMAIN HalfOf(TheRounds[j], s), NEW w \in Range(HalfOf(TheRounds[j], s)[k].inputs)
  PROVE  \E g \in DOMAIN TheRounds, t \in {0, 1} : \E m \in DOMAIN HalfOf(TheRounds[g], t) :
           /\ HalfOf(TheRounds[g], t)[m].output = w
           /\ Built!Precedes(Place(g, t, m), Place(j, s, k))
<1> DEFINE q == Place(j, s, k)
           i == Built!OpAt(q)
<1>1. q \in Built!Places /\ i \in DOMAIN list /\ HalfOf(TheRounds[j], s)[k] = list[i]
      /\ q.round = j /\ q.stage = s /\ q.at = k
  BY PlanPlaces DEF Place
<1> HIDE DEF q, i
<1>2. PICK x \in Built!Slots(i) : raw_ops[i].inputs[x] = w
  <2>1. raw_ops[i].inputs = list[i].inputs /\ Built!Slots(i) = DOMAIN list[i].inputs
    BY <1>1, ListTyped, ShapeFields DEF Built!Slots
  <2> QED BY <1>1, <2>1 DEF Range
<1>3. PICK h \in Built!Indices : x \in Built!Fed(h, i)
  <2>1. ~Built!ConsumedNotProduced
    BY AcceptedFacts DEF Built!Verdict
  <2>2. i \in Built!Indices
    BY <1>1, ListTyped
  <2> QED BY <1>2, <2>1, <2>2 DEF Built!ConsumedNotProduced
<1>4. h \in DOMAIN list /\ list[h].output = w
  <2>1. w \in Built!Range(raw_ops[h].outputs)
    BY <1>2, <1>3 DEF Built!Fed
  <2>2. raw_ops[h].outputs = <<list[h].output>> /\ h \in DOMAIN list
    BY <1>3, ListTyped, ShapeFields
  <2> QED BY <2>1, <2>2 DEF Built!Range
<1>5. ASSUME NEW f \in DOMAIN list, Built!Feeds(f, i) PROVE Reads(list[i], list[f])
  <2>1. PICK y \in Built!Slots(i) : raw_ops[i].inputs[y] \in Built!Range(raw_ops[f].outputs)
    BY <1>5 DEF Built!Feeds, Built!Fed
  <2>2. /\ raw_ops[i].inputs = list[i].inputs /\ Built!Slots(i) = DOMAIN list[i].inputs
        /\ raw_ops[f].outputs = <<list[f].output>>
    BY <1>1, ListTyped, ShapeFields DEF Built!Slots
  <2>3. raw_ops[i].inputs[y] = list[f].output
    BY <2>1, <2>2 DEF Built!Range
  <2> QED BY <2>1, <2>2, <2>3 DEF Reads, Range
<1>6. Built!Feeds(h, i)
  BY <1>3 DEF Built!Feeds
<1>7. PICK p \in Built!Places : Built!OpAt(p) = h
  BY <1>3, AcceptedFacts DEF Accepted, Built!ScheduledOnce
<1>8. Built!Precedes(p, q)
  <2> SUFFICES ASSUME NEW l \in Built!Places, Built!Feeds(Built!OpAt(l), i), l.stage = 0, p.stage = 1
               PROVE  FALSE
    BY <1>1, <1>6, <1>7, AcceptedFacts DEF Accepted, Built!EarlyOnlyIfMixed, i
  <2>1. PICK f \in DOMAIN list : f = Built!OpAt(l)
    <3>1. l = Place(l.round, l.stage, l.at) /\ l.round \in DOMAIN TheRounds /\ l.stage \in {0, 1}
          /\ l.at \in DOMAIN HalfOf(TheRounds[l.round], l.stage)
      BY PlanPlaces
    <3> QED BY <3>1, PlanPlaces
  <2>2. Reads(list[i], list[h]) /\ Reads(list[i], list[f])
    BY <1>4, <1>5, <1>6, <2>1
  <2>3. ~IsOperationLocal(list[h]) /\ IsOperationLocal(list[f])
    <3>1. ~Built!IsLocal(h) /\ Built!IsLocal(f)
      BY <1>7, <2>1, AcceptedFacts DEF Accepted, Built!ScheduledOnce
    <3> QED BY <1>4, <2>1, <3>1, ListTyped, ShapeFields DEF Built!IsLocal
  <2>4. list[i] \in Range(list) /\ list[h] \in Range(list) /\ list[f] \in Range(list)
    BY <1>1, <1>4, <2>1 DEF Range
  <2> QED BY <2>2, <2>3, <2>4 DEF Mixed
<1>9. PICK g \in DOMAIN TheRounds, t \in {0, 1} : \E m \in DOMAIN HalfOf(TheRounds[g], t) : p = Place(g, t, m)
  BY PlanPlaces
<1>10. PICK m \in DOMAIN HalfOf(TheRounds[g], t) : p = Place(g, t, m)
  BY <1>9
<1>11. HalfOf(TheRounds[g], t)[m].output = w
  BY <1>4, <1>7, <1>10, PlanPlaces
<1> QED BY <1>8, <1>10, <1>11 DEF q

\* Unless the list is mixed, every round of the plan finds the wires it reads.
LEMMA ThePlanInOrder == Accepted /\ ~Mixed => Proved!InOrder(ThePlan)
<1> SUFFICES ASSUME Accepted, ~Mixed, NEW g \in DOMAIN TheRounds
             PROVE  LET r == TheRounds[g]
                        before == Proved!OutputsOf(Proved!Before(ThePlan, g))
                    IN /\ \A k \in DOMAIN r.local_operations :
                            Proved!Range(r.local_operations[k].inputs) \subseteq
                              before \cup {r.local_operations[j].output : j \in 1 .. k - 1}
                       /\ \A op \in Proved!Range(r.network_operations) :
                            Proved!Range(op.inputs) \subseteq
                              before \cup Proved!OutputsOf(Proved!Range(r.local_operations))
  BY SamePlans DEF Proved!InOrder, TheRounds
<1> DEFINE r == TheRounds[g]
           before == Proved!OutputsOf(Proved!Before(ThePlan, g))
<1>1. ASSUME NEW h \in DOMAIN TheRounds, h < g, NEW t \in {0, 1}, NEW m \in DOMAIN HalfOf(TheRounds[h], t)
      PROVE  HalfOf(TheRounds[h], t)[m].output \in before
  <2>1. HalfOf(TheRounds[h], t)[m] \in Contexts!RoundOps(TheRounds[h])
    BY HalfRanges DEF Range
  <2>2. HalfOf(TheRounds[h], t)[m] \in Proved!Before(ThePlan, g)
    BY <1>1, <2>1, SamePlans DEF Proved!Before, TheRounds
  <2> QED BY <2>2 DEF Proved!OutputsOf
<1>2. HalfOf(r, 0) = r.local_operations /\ HalfOf(r, 1) = r.network_operations
  BY DEF HalfOf
<1>3. DOMAIN HalfOf(r, 0) \subseteq Nat \ {0}
  <2>1. HalfOf(r, 0) \in Seq(Operation)
    BY PlanPlaces
  <2> QED BY <2>1
<1> HIDE DEF before
<1>4. ASSUME NEW k \in DOMAIN HalfOf(r, 0), NEW w \in Range(HalfOf(r, 0)[k].inputs)
      PROVE  w \in before \cup {HalfOf(r, 0)[j].output : j \in 1 .. k - 1}
  <2>1. PICK h \in DOMAIN TheRounds, t \in {0, 1} : \E m \in DOMAIN HalfOf(TheRounds[h], t) :
           /\ HalfOf(TheRounds[h], t)[m].output = w
           /\ Built!Precedes(Place(h, t, m), Place(g, 0, k))
    BY WrittenBefore
  <2>2. PICK m \in DOMAIN HalfOf(TheRounds[h], t) :
           /\ HalfOf(TheRounds[h], t)[m].output = w
           /\ Built!Precedes(Place(h, t, m), Place(g, 0, k))
    BY <2>1
  <2>3. h < g \/ (h = g /\ t = 0 /\ m < k)
    BY <2>2 DEF Built!Precedes, Place
  <2>4. h = g /\ t = 0 /\ m < k => m \in 1 .. k - 1
    BY <1>3, <2>2
  <2> QED BY <1>1, <2>2, <2>3, <2>4
<1>5. ASSUME NEW k \in DOMAIN HalfOf(r, 1), NEW w \in Range(HalfOf(r, 1)[k].inputs)
      PROVE  w \in before \cup Proved!OutputsOf(Range(HalfOf(r, 0)))
  <2>1. PICK h \in DOMAIN TheRounds, t \in {0, 1} : \E m \in DOMAIN HalfOf(TheRounds[h], t) :
           /\ HalfOf(TheRounds[h], t)[m].output = w
           /\ Built!Precedes(Place(h, t, m), Place(g, 1, k))
    BY WrittenBefore
  <2>2. PICK m \in DOMAIN HalfOf(TheRounds[h], t) :
           /\ HalfOf(TheRounds[h], t)[m].output = w
           /\ Built!Precedes(Place(h, t, m), Place(g, 1, k))
    BY <2>1
  <2>3. h < g \/ (h = g /\ t = 0)
    BY <2>2 DEF Built!Precedes, Place
  <2>4. h = g /\ t = 0 => w \in Proved!OutputsOf(Range(HalfOf(r, 0)))
    BY <2>2 DEF Proved!OutputsOf, Range
  <2> QED BY <1>1, <2>2, <2>3, <2>4
<1>6. ASSUME NEW op \in Range(HalfOf(r, 1)) PROVE Range(op.inputs) \subseteq before \cup Proved!OutputsOf(Range(HalfOf(r, 0)))
  <2>1. PICK k \in DOMAIN HalfOf(r, 1) : op = HalfOf(r, 1)[k]
    BY DEF Range
  <2> QED BY <1>5, <2>1
<1>7. ASSUME NEW k \in DOMAIN HalfOf(r, 0)
      PROVE  Range(HalfOf(r, 0)[k].inputs) \subseteq before \cup {HalfOf(r, 0)[j].output : j \in 1 .. k - 1}
  BY <1>4
<1> HIDE DEF r
<1>8. /\ \A k \in DOMAIN r.local_operations :
           Proved!Range(r.local_operations[k].inputs) \subseteq before \cup {r.local_operations[j].output : j \in 1 .. k - 1}
      /\ \A op \in Proved!Range(r.network_operations) :
           Proved!Range(op.inputs) \subseteq before \cup Proved!OutputsOf(Proved!Range(r.local_operations))
  BY <1>2, <1>6, <1>7, SamePlans
<1> QED BY <1>8 DEF r, before

-----------------------------------------------------------------------------
(* The invariant of a session.                                             *)

LEMMA SameSteps ==
  /\ Contexts!InitContexts <=> Proved!InitContexts
  /\ \A p : /\ Contexts!Work(p) <=> Proved!Work(p)
            /\ Contexts!Crash(p) <=> Proved!Crash(p)
            /\ \A given : Contexts!PrepareInput(p, given) <=> Proved!PrepareInput(p, given)
            /\ \A op : Contexts!Due(p, op) = Proved!Due(p, op)
<1>1. Contexts!InitContexts <=> Proved!InitContexts
  BY DEF Contexts!InitContexts, Proved!InitContexts, Contexts!Parties, Proved!Parties,
     Contexts!Links, Proved!Links, Contexts!Peers, Proved!Peers
<1>2. ASSUME NEW p PROVE Contexts!Work(p) <=> Proved!Work(p)
  BY DEF Contexts!Work, Proved!Work, Contexts!CallHandshake, Proved!CallHandshake,
     Contexts!CallOffline, Proved!CallOffline, Contexts!CallOnline, Proved!CallOnline,
     Contexts!AwaitHashes, Proved!AwaitHashes, Contexts!CompareHashes, Proved!CompareHashes,
     Contexts!BeginRound, Proved!BeginRound, Contexts!AwaitShares, Proved!AwaitShares,
     Contexts!FinishRound, Proved!FinishRound, Contexts!FinishCall, Proved!FinishCall,
     Contexts!BroadcastFrame, Proved!BroadcastFrame, Contexts!SendFrame, Proved!SendFrame,
     Contexts!ReceiveFrame, Proved!ReceiveFrame, Contexts!ReceiveEnd, Proved!ReceiveEnd,
     Contexts!Drop, Proved!Drop, Contexts!Parties, Proved!Parties, Contexts!Links, Proved!Links,
     Contexts!Peers, Proved!Peers, Contexts!program, Proved!program, Contexts!batch, Proved!batch,
     Contexts!position, Proved!position, Contexts!net, Proved!net, Contexts!Rounds, Proved!Rounds,
     Contexts!Current, Proved!Current, Contexts!LocalOps, Proved!LocalOps, Contexts!NetworkOps,
     Proved!NetworkOps, Contexts!Share, Proved!Share, Contexts!HashFrame, Proved!HashFrame,
     Contexts!DataFrame, Proved!DataFrame, Contexts!Objects, Proved!Objects, Contexts!SharesOf,
     Proved!SharesOf, Contexts!Up, Proved!Up, Contexts!Idle, Proved!Idle, Contexts!Close,
     Proved!Close, Contexts!ClearBatch, Proved!ClearBatch, Contexts!EndCall, Proved!EndCall,
     Contexts!Leave, Proved!Leave, Contexts!NetworkFailure, Proved!NetworkFailure,
     Contexts!ExtractionFails, Proved!ExtractionFails, Contexts!Write, Proved!Write,
     Contexts!WriteFails, Proved!WriteFails, Contexts!Failed, Proved!Failed, Contexts!Enter,
     Proved!Enter, Contexts!Await, Proved!Await, Contexts!Computed, Proved!Computed,
     Contexts!Runnable, Proved!Runnable, Contexts!LocalPanics, Proved!LocalPanics,
     Contexts!AfterLocal, Proved!AfterLocal, Contexts!NetworkPanics, Proved!NetworkPanics,
     Contexts!Receivers, Proved!Receivers, Contexts!Senders, Proved!Senders, Contexts!Nth,
     Proved!Nth, Contexts!Batch, Proved!Batch, Contexts!Expected, Proved!Expected, Contexts!PlaceOf,
     Proved!PlaceOf, Contexts!Given, Proved!Given, Contexts!IsInputOf, Proved!IsInputOf,
     Contexts!IsOperationLocal, Proved!IsOperationLocal, Contexts!Sends, Proved!Sends,
     Contexts!Receives, Proved!Receives, Contexts!Range, Proved!Range, Contexts!Cardinality,
     Proved!Cardinality
<1>3. ASSUME NEW p PROVE Contexts!Crash(p) <=> Proved!Crash(p)
  BY DEF Contexts!Crash, Proved!Crash, Contexts!Crashed, Proved!Crashed, Contexts!Parties,
     Proved!Parties, Contexts!Links, Proved!Links, Contexts!program, Proved!program, Contexts!batch,
     Proved!batch, Contexts!net, Proved!net, Contexts!Up, Proved!Up, Contexts!Close, Proved!Close,
     Contexts!ClearBatch, Proved!ClearBatch, Contexts!EndCall, Proved!EndCall, Contexts!Leave,
     Proved!Leave, Contexts!Cardinality, Proved!Cardinality
<1>4. ASSUME NEW p, NEW given PROVE Contexts!PrepareInput(p, given) <=> Proved!PrepareInput(p, given)
  BY DEF Contexts!PrepareInput, Proved!PrepareInput, Contexts!PrepareVerdict, Proved!PrepareVerdict,
     Contexts!Offending, Proved!Offending, Contexts!InputWires, Proved!InputWires, Contexts!program,
     Proved!program, Contexts!batch, Proved!batch, Contexts!position, Proved!position, Contexts!net,
     Proved!net, Contexts!Up, Proved!Up, Contexts!Idle, Proved!Idle, Contexts!IsInputOf,
     Proved!IsInputOf, Contexts!Range, Proved!Range, Contexts!Cardinality, Proved!Cardinality
<1>5. ASSUME NEW p, NEW op PROVE Contexts!Due(p, op) = Proved!Due(p, op)
  BY DEF Contexts!Due, Proved!Due, Contexts!Share, Proved!Share, Contexts!Peers, Proved!Peers,
     Contexts!Parties, Proved!Parties, Contexts!Receives, Proved!Receives, Contexts!IsInputOf,
     Proved!IsInputOf
<1> QED BY <1>1, <1>2, <1>3, <1>4, <1>5

LEMMA SameConstruction ==
  /\ Construction!Init <=> Built!Init
  /\ Construction!Next <=> Built!Next
BY DEF
   Construction!Next, Built!Next, Construction!Reject, Built!Reject, Construction!BuildGraph,
   Built!BuildGraph, Construction!DeferInput, Built!DeferInput, Construction!ScheduleLocal,
   Built!ScheduleLocal, Construction!ScheduleNetwork, Built!ScheduleNetwork, Construction!CloseRound,
   Built!CloseRound, Construction!StartOnline, Built!StartOnline, Construction!Return, Built!Return,
   Construction!Init, Built!Init, Construction!Indices, Built!Indices, Construction!IsInput,
   Built!IsInput, Construction!IsLocal, Built!IsLocal, Construction!Slots, Built!Slots, Construction!Fed,
   Built!Fed, Construction!Feeds, Built!Feeds, Construction!OutputSlots, Built!OutputSlots,
   Construction!OutputAt, Built!OutputAt, Construction!ProducedManyTimes, Built!ProducedManyTimes,
   Construction!ConsumedNotProduced, Built!ConsumedNotProduced, Construction!Verdict, Built!Verdict,
   Construction!Ascending, Built!Ascending, Construction!Deferred, Built!Deferred, Construction!Popping,
   Built!Popping, Construction!Decremented, Built!Decremented, Construction!Released, Built!Released,
   Construction!CurrentRound, Built!CurrentRound, Construction!Outcome, Built!Outcome,
   Construction!queues, Built!queues, Construction!current, Built!current, Construction!rounds,
   Built!rounds, Construction!Range, Built!Range, Construction!Cardinality, Built!Cardinality,
   Construction!vars, Built!vars

\* The constructor's part, and that of the contexts: they are new until a circuit
\* is accepted, and run that circuit from then on.
Made == /\ list \in Lists /\ raw_ops = Shapes(list)
        /\ Built!IInv /\ Built!RInv /\ Built!OkIfValid
Waiting == plan = [p \in Parties |-> NoPlan] /\ Contexts!InitContexts
Running == /\ result = "Ok" /\ plan = [p \in Parties |-> ThePlan]
           /\ Proved!WireInv
           /\ Mixed \/ Proved!Calm
SessionInv == Made /\ (Waiting \/ Running)

LEMMA SomeParty == 0 \in Parties /\ Proved!Parties = Parties /\ Contexts!Parties = Parties
BY SessionAssumption DEF Parties, Proved!Parties, Contexts!Parties

LEMMA NotBoth == ASSUME SessionInv PROVE Established <=> Running
<1>1. Waiting => ~Established
  BY SomeParty DEF Waiting, Established
<1>2. Running => Established
  <2>1. Running => Accepted
    BY DEF Running, Accepted, SessionInv, Made
  <2> QED BY <2>1, ThePlanRuns DEF Running, Established
<1> QED BY <1>1, <1>2 DEF SessionInv

LEMMA InitSession == Init => SessionInv
<1> SUFFICES ASSUME Init PROVE SessionInv
  OBVIOUS
<1>1. Built!Init /\ list \in Lists /\ raw_ops = Shapes(list) /\ Waiting
  BY SameConstruction DEF Init, Waiting
<1>2. Built!IInv /\ Built!RInv
  BY <1>1, BuiltSupposes, Built!InitIInv, Built!InitRInv
<1>3. Built!OkIfValid
  BY <1>1 DEF Built!OkIfValid, Built!Init
<1> QED BY <1>1, <1>2, <1>3 DEF SessionInv, Made

\* A circuit that is accepted is built no further.
LEMMA ConstructSession == SessionInv /\ Construct => SessionInv'
<1> SUFFICES ASSUME SessionInv, Construct PROVE SessionInv'
  OBVIOUS
<1>1. Built!Next /\ list' = list /\ contexts' = contexts
  BY SameConstruction DEF Construct
<1>2. Built!IInv' /\ Built!RInv' /\ Built!OkIfValid'
  BY <1>1, BuiltSupposes, Built!NextIInv, Built!NextRInv, Built!StaysOkIfValid DEF SessionInv, Made
<1>3. raw_ops' = raw_ops /\ result # "Ok"
  <2>1. result = "Ok" => pc = "done" /\ ~open
    BY DEF SessionInv, Made, Built!RInv, Built!Settled
  <2> QED BY <1>1, <2>1 DEF Built!Next, Built!Reject, Built!BuildGraph, Built!DeferInput, Built!ScheduleLocal,
          Built!ScheduleNetwork, Built!CloseRound, Built!StartOnline, Built!Return, Built!Popping
<1>4. Waiting
  BY <1>3 DEF SessionInv, Running
<1>5. Waiting'
  BY <1>1, <1>4 DEF Waiting, contexts, progress, Contexts!InitContexts, Contexts!Parties, Contexts!Peers,
     Contexts!Links
<1>6. Made'
  BY <1>1, <1>2, <1>3 DEF Made, SessionInv, Shapes
<1> QED BY <1>5, <1>6 DEF SessionInv

LEMMA SameBuilt ==
  ASSUME UNCHANGED <<list, construction>>, SessionInv
  PROVE  Made' /\ (Mixed' <=> Mixed) /\ result' = result /\ ThePlan' = ThePlan
<1>1. /\ list' = list /\ raw_ops' = raw_ops /\ pc' = pc /\ ops' = ops /\ in_degree' = in_degree /\ wave' = wave
      /\ next_wave' = next_wave /\ online_wave' = online_wave /\ open' = open
      /\ local_operations' = local_operations /\ network_operations' = network_operations
      /\ offline_rounds' = offline_rounds /\ online_rounds' = online_rounds /\ result' = result
  BY DEF construction
<1>2. UNCHANGED Built!vars
  BY <1>1 DEF Built!vars, Built!queues, Built!current, Built!rounds
<1>3. Built!IInv' /\ Built!RInv' /\ Built!OkIfValid'
  BY <1>2, BuiltSupposes, Built!NextIInv, Built!NextRInv, Built!StaysOkIfValid DEF SessionInv, Made
<1>4. Made'
  BY <1>1, <1>3 DEF SessionInv, Made, Shapes
<1> QED BY <1>1, <1>4 DEF Mixed, Reads, ThePlan, Laid, Operations

LEMMA NewContextsSession == SessionInv /\ NewContexts => SessionInv'
<1> SUFFICES ASSUME SessionInv, NewContexts PROVE SessionInv'
  OBVIOUS
<1>1. /\ result = "Ok" /\ UNCHANGED <<list, construction>> /\ progress' = progress
      /\ plan' = [p \in Parties |-> ThePlan] /\ Waiting
  BY NotBoth DEF NewContexts, ThePlan, SessionInv
<1>2. Accepted
  BY <1>1 DEF SessionInv, Made, Accepted
<1>3. Made' /\ result' = "Ok" /\ ThePlan' = ThePlan
  BY <1>1, SameBuilt
<1>4. Proved!Init'
  <2>1. plan' \in [Proved!Parties -> Plans]
    BY <1>1, <1>2, ThePlanRuns, SomeParty
  <2>2. Proved!InitContexts
    BY <1>1, SameSteps DEF Waiting
  <2>3. Proved!InitContexts'
    BY <1>1, <2>2 DEF progress, Proved!InitContexts, Proved!Parties, Proved!Peers, Proved!Links
  <2> QED BY <2>1, <2>3 DEF Proved!Init
<1>5. Proved!WireInv'
  BY <1>4, ContextsSuppose, Proved!InitWires, PTL
<1>6. Proved!Calm'
  BY <1>4 DEF Proved!Init, Proved!InitContexts, Proved!Calm
<1> QED BY <1>1, <1>3, <1>5, <1>6 DEF SessionInv, Running

LEMMA RunSession ==
  ASSUME SessionInv, Established, UNCHANGED <<list, construction>>, Proved!Next
  PROVE  SessionInv'
<1>1. Running
  BY NotBoth
<1>2. Proved!WireInv'
  BY <1>1, ContextsSuppose, Proved!NextWires DEF Running
<1>3. plan' = plan
  BY ContextsSuppose, Proved!CircuitsStay
<1>4. ~Mixed => Proved!Calm'
  <2> SUFFICES ASSUME ~Mixed PROVE Proved!Calm'
    OBVIOUS
  <2>1. \A p \in Proved!Parties : Proved!InOrder(plan[p])
    BY <1>1, ThePlanInOrder, SomeParty DEF Running, Accepted, SessionInv, Made
  <2> QED BY <1>1, <2>1, ContextsSuppose, Proved!CalmStays DEF Running
<1>5. Made' /\ (Mixed' <=> Mixed) /\ result' = result /\ ThePlan' = ThePlan
  BY SameBuilt
<1> QED BY <1>1, <1>2, <1>3, <1>4, <1>5 DEF SessionInv, Running

LEMMA NextSession == SessionInv /\ [Next]_vars => SessionInv'
<1> SUFFICES ASSUME SessionInv, [Next]_vars PROVE SessionInv'
  OBVIOUS
<1>1. CASE Construct
  BY <1>1, ConstructSession
<1>2. CASE NewContexts
  BY <1>2, NewContextsSession
<1>3. ASSUME NEW p \in Parties,
             Run(p) \/ Crash(p) \/ \E given \in InputLists : Prepare(p, given)
      PROVE  SessionInv'
  <2>1. Established /\ UNCHANGED <<list, construction>>
    BY <1>3 DEF Run, Crash, Prepare
  <2>2. Proved!Work(p) \/ Proved!Crash(p) \/ \E given \in InputLists : Proved!PrepareInput(p, given)
    BY <1>3, SameSteps DEF Run, Crash, Prepare
  <2>3. Proved!Next
    BY <2>2, SomeParty DEF Proved!Next
  <2> QED BY <2>1, <2>3, RunSession
<1>4. CASE UNCHANGED vars
  <2>1. UNCHANGED <<list, construction>> /\ contexts' = contexts
    BY <1>4 DEF vars
  <2>2. Made' /\ (Mixed' <=> Mixed) /\ result' = result /\ ThePlan' = ThePlan
    BY <2>1, SameBuilt
  <2>3. CASE Waiting
    <3>1. Waiting'
      BY <2>1, <2>3 DEF Waiting, contexts, progress, Contexts!InitContexts, Contexts!Parties, Contexts!Peers,
         Contexts!Links
    <3> QED BY <2>2, <3>1 DEF SessionInv
  <2>4. CASE Running
    <3>1. UNCHANGED Proved!vars
      BY <2>1 DEF contexts, progress, Proved!vars, Proved!program, Proved!position, Proved!batch, Proved!net
    <3>2. Proved!WireInv'
      BY <2>4, <3>1, ContextsSuppose, Proved!NextWires DEF Running
    <3>3. Proved!Calm => Proved!Calm'
      BY <3>1 DEF Proved!vars, Proved!Calm
    <3>4. plan' = plan
      BY <2>1 DEF contexts
    <3> QED BY <2>2, <2>4, <3>2, <3>3, <3>4 DEF SessionInv, Running
  <2> QED BY <2>3, <2>4 DEF SessionInv
<1> QED BY <1>1, <1>2, <1>3, <1>4 DEF Next

LEMMA SessionInvariant == Spec => []SessionInv
BY InitSession, NextSession, PTL DEF Spec

\* Of a circuit that MpcCircuit::new accepts, no unwrap and no assertion of a round
\* fails at any party, unless an operation of the list reads both an exchanged and
\* a locally made wire.
THEOREM PanicsAreMixed == Spec => []PanicsOnlyIfMixed
<1>1. Waiting => PanicsOnlyIfMixed
  BY SomeParty DEF Waiting, Contexts!InitContexts, PanicsOnlyIfMixed
<1>2. Running => PanicsOnlyIfMixed
  BY SomeParty DEF Running, Proved!Calm, PanicsOnlyIfMixed
<1>3. SessionInv => PanicsOnlyIfMixed
  BY <1>1, <1>2 DEF SessionInv
<1> QED BY <1>3, SessionInvariant, PTL

\* Whoever finishes has every wire of the list it was given, each made from the
\* shares that its operation is due, however the constructor laid the list out and
\* whatever the mesh and the other parties did.
THEOREM ListsEvaluated == Spec => []ListEvaluated
<1>1. ASSUME Waiting PROVE ListEvaluated
  BY <1>1, SomeParty DEF Waiting, Contexts!InitContexts, ListEvaluated
<1>2. ASSUME SessionInv, Running PROVE ListEvaluated
  <2> SUFFICES ASSUME NEW p \in Parties, execution_state[p] = "Finished"
               PROVE  /\ DOMAIN wire_contents[p] = {op.output : op \in Range(list)}
                      /\ \A op \in Range(list) : wire_contents[p][op.output] = Contexts!Due(p, op)
    BY DEF ListEvaluated
  <2>1. Proved!RoutingCorrect
    BY <1>2, ContextsSuppose, Proved!WiresRouted DEF Running
  <2>2. Proved!PlanOps(plan[p]) = Range(list)
    BY <1>2, ThePlanHoldsList, SamePlans DEF Running, Accepted, SessionInv, Made
  <2> QED BY <2>1, <2>2, SomeParty, SameSteps DEF Proved!RoutingCorrect
<1>3. SessionInv => ListEvaluated
  BY <1>1, <1>2 DEF SessionInv
<1> QED BY <1>3, SessionInvariant, PTL
=============================================================================
