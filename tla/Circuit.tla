------------------------------- MODULE Circuit -------------------------------
(***************************************************************************)
(* The constructor MpcCircuit::new (src/src/mpc/circuit.rs): validation of  *)
(* an operation list, then a Kahn traversal that batches the operations     *)
(* into rounds, first the offline wave and then the online one.             *)
(*                                                                         *)
(* An operation is known by its index in the list, as in the code.  Its     *)
(* behaviour towards the traversal is all that is kept of it: whether it    *)
(* is an input, whether the scheme calls it local, and the wires it reads   *)
(* and writes, in order and with repetitions.                               *)
(***************************************************************************)
EXTENDS Naturals, Sequences, FiniteSets, Functions

CONSTANTS
  Wires,     \* wire identifiers (WireId)
  Circuits,  \* the operation lists handed to MpcCircuit::new
  Unsound    \* those that the scheme's is_circuit_sound refuses

Operation == [is_input : BOOLEAN, is_local : BOOLEAN,
              inputs : Seq(Wires), outputs : Seq(Wires)]

ASSUME CircuitsAssumption ==
  /\ Circuits \subseteq Seq(Operation)
  /\ Unsound \subseteq Circuits

VARIABLES
  raw_ops,             \* the operation list under construction
  pc,                  \* "new", then the wave being processed, then "done"
  ops,                 \* indices whose slot of the Vec<Option<_>> is still Some
  in_degree,           \* unresolved input slots of each operation
  wave, next_wave,     \* queues of the wave being processed
  online_wave,         \* input operations set aside by the offline wave
  open,                \* inside the body of `while !wave.is_empty()`
  local_operations,    \* the round under construction
  network_operations,
  offline_rounds,
  online_rounds,
  result               \* "none", "Ok", or the MpcCircuitError returned

queues == <<wave, next_wave, online_wave>>
current == <<open, local_operations, network_operations>>
rounds == <<offline_rounds, online_rounds>>
vars == <<raw_ops, pc, ops, in_degree, queues, current, rounds, result>>

-----------------------------------------------------------------------------
(* The graph: which operation feeds which input slot.                      *)

Indices == DOMAIN raw_ops
IsInput(i) == raw_ops[i].is_input
IsLocal(i) == raw_ops[i].is_local
Slots(j) == DOMAIN raw_ops[j].inputs

\* The input slots of j that read an output of i: one entry of adj[i] each.
Fed(i, j) == {s \in Slots(j) : raw_ops[j].inputs[s] \in Range(raw_ops[i].outputs)}
Feeds(i, j) == Fed(i, j) # {}

OutputSlots == UNION {{i} \X DOMAIN raw_ops[i].outputs : i \in Indices}
OutputAt(p) == raw_ops[p[1]].outputs[p[2]]
ProducedManyTimes == \E p, q \in OutputSlots : p # q /\ OutputAt(p) = OutputAt(q)
ConsumedNotProduced ==
  \E j \in Indices : \E s \in Slots(j) : \A i \in Indices : s \notin Fed(i, j)

\* The first check of the constructor that fails, in the order of the code.
Verdict ==
  IF raw_ops = << >> THEN "EmptyCircuit"
  ELSE IF raw_ops \in Unsound THEN "CircuitUnsound"
  ELSE IF \E i \in Indices : IsInput(i) /\ IsLocal(i) THEN "LocalInputOperation"
  ELSE IF ProducedManyTimes THEN "WireProducedManyTimes"
  ELSE IF ConsumedNotProduced THEN "WireConsumedButNotProduced"
  ELSE "Valid"

\* The one sequence that lists S in increasing order: adj is filled by
\* consumer index, and the first wave by operation index.
Ascending(S) ==
  {q \in [1..Cardinality(S) -> S] :
     /\ \A m, n \in DOMAIN q : m < n => q[m] < q[n]
     /\ \A x \in S : \E m \in DOMAIN q : q[m] = x}

-----------------------------------------------------------------------------
Init ==
  /\ raw_ops \in Circuits
  /\ pc = "new"
  /\ ops = Indices
  /\ in_degree = [j \in Indices |-> 0]
  /\ wave = << >> /\ next_wave = << >> /\ online_wave = << >>
  /\ open = FALSE
  /\ local_operations = << >> /\ network_operations = << >>
  /\ offline_rounds = << >> /\ online_rounds = << >>
  /\ result = "none"

\* A plausible slip: in-degrees count distinct wires while adj has one entry
\* per slot, so that a wire read twice is resolved twice.
BuildGraph_DistinctWires ==
  /\ pc = "new"
  /\ Verdict = "Valid"
  /\ pc' = "offline"
  /\ in_degree' = [j \in Indices |-> Cardinality(Range(raw_ops[j].inputs))]
  /\ wave' \in Ascending({j \in Indices : Slots(j) = {}})
  /\ UNCHANGED <<raw_ops, ops, next_wave, online_wave, current, rounds, result>>

\* An early return of one of the five validation errors.
Reject ==
  /\ pc = "new"
  /\ Verdict # "Valid"
  /\ pc' = "done"
  /\ result' = Verdict
  /\ UNCHANGED <<raw_ops, ops, in_degree, queues, current, rounds>>

\* adj and in_degree are built and the operations without inputs queued.
BuildGraph ==
  /\ pc = "new"
  /\ Verdict = "Valid"
  /\ pc' = "offline"
  /\ in_degree' = [j \in Indices |-> Len(raw_ops[j].inputs)]
  /\ wave' \in Ascending({j \in Indices : Slots(j) = {}})
  /\ UNCHANGED <<raw_ops, ops, next_wave, online_wave, current, rounds, result>>

-----------------------------------------------------------------------------
(* process_wave, one iteration of its inner loop per action.               *)

\* A plausible slip: the first wave is given no online queue.
Deferred_Never(i) == FALSE

\* target_online_wave is Some only while the offline wave is processed.
Deferred(i) == pc = "offline" /\ IsInput(i)

Popping(i) == pc \in {"offline", "online"} /\ wave # << >> /\ i = Head(wave)

\* A plausible slip: adj deduplicated, one decrement per consumer.
Decremented_PerConsumer(i) == [j \in Indices |-> in_degree[j] - (IF Feeds(i, j) THEN 1 ELSE 0)]

\* One decrement per entry of adj[i], so one per slot that i feeds.
Decremented(i) == [j \in Indices |-> in_degree[j] - Cardinality(Fed(i, j))]

\* A plausible slip: the in-degree is compared before it is decremented.
Released_OffByOne(i) == {j \in Indices : Feeds(i, j) /\ in_degree[j] <= Cardinality(Fed(i, j)) + 1}

\* Consumers whose last unresolved slots are fed by i.
Released(i) == {j \in Indices : Feeds(i, j) /\ in_degree[j] = Cardinality(Fed(i, j))}

\* A plausible slip: the input goes to the back of the queue it came from.
DeferInput_SameQueue(i) ==
  /\ Popping(i)
  /\ Deferred(i)
  /\ open' = TRUE
  /\ wave' = Append(Tail(wave), i)
  /\ UNCHANGED <<raw_ops, pc, ops, in_degree, next_wave, online_wave, local_operations,
                 network_operations, rounds, result>>

DeferInput(i) ==
  /\ Popping(i)
  /\ Deferred(i)
  /\ open' = TRUE
  /\ wave' = Tail(wave)
  /\ online_wave' = Append(online_wave, i)
  /\ UNCHANGED <<raw_ops, pc, ops, in_degree, next_wave, local_operations,
                 network_operations, rounds, result>>

ScheduleLocal(i) ==
  /\ Popping(i)
  /\ ~Deferred(i)
  /\ IsLocal(i)
  /\ open' = TRUE
  /\ ops' = ops \ {i}
  /\ local_operations' = Append(local_operations, i)
  /\ in_degree' = Decremented(i)
  /\ \E released \in Ascending(Released(i)) : wave' = Tail(wave) \o released
  /\ UNCHANGED <<raw_ops, pc, next_wave, online_wave, network_operations, rounds, result>>

\* A plausible slip: consumers of a network operation join its own wave.
ScheduleNetwork_SameWave(i) ==
  /\ Popping(i)
  /\ ~Deferred(i)
  /\ ~IsLocal(i)
  /\ open' = TRUE
  /\ ops' = ops \ {i}
  /\ network_operations' = Append(network_operations, i)
  /\ in_degree' = Decremented(i)
  /\ \E released \in Ascending(Released(i)) : wave' = Tail(wave) \o released
  /\ UNCHANGED <<raw_ops, pc, next_wave, online_wave, local_operations, rounds, result>>

ScheduleNetwork(i) ==
  /\ Popping(i)
  /\ ~Deferred(i)
  /\ ~IsLocal(i)
  /\ open' = TRUE
  /\ ops' = ops \ {i}
  /\ network_operations' = Append(network_operations, i)
  /\ in_degree' = Decremented(i)
  /\ wave' = Tail(wave)
  /\ \E released \in Ascending(Released(i)) : next_wave' = next_wave \o released
  /\ UNCHANGED <<raw_ops, pc, online_wave, local_operations, rounds, result>>

\* A plausible slip: a round whose network half is empty loses its local half.
CurrentRound_NetworkOnly ==
  IF network_operations = << >>
    THEN [local_operations |-> << >>, network_operations |-> << >>]
    ELSE [local_operations |-> local_operations, network_operations |-> network_operations]

CurrentRound == [local_operations |-> local_operations,
                 network_operations |-> network_operations]

\* The wave ran dry: the round is pushed, empty or not, and the waves swapped.
CloseRound ==
  /\ open
  /\ wave = << >>
  /\ open' = FALSE
  /\ \/ /\ pc = "offline"
        /\ offline_rounds' = Append(offline_rounds, CurrentRound)
        /\ UNCHANGED online_rounds
     \/ /\ pc = "online"
        /\ online_rounds' = Append(online_rounds, CurrentRound)
        /\ UNCHANGED offline_rounds
  /\ local_operations' = << >> /\ network_operations' = << >>
  /\ wave' = next_wave
  /\ next_wave' = << >>
  /\ UNCHANGED <<raw_ops, pc, ops, in_degree, online_wave, result>>

\* process_wave returns and is called again on the inputs set aside.
StartOnline ==
  /\ pc = "offline" /\ ~open /\ wave = << >>
  /\ pc' = "online"
  /\ wave' = online_wave
  /\ online_wave' = << >>
  /\ UNCHANGED <<raw_ops, ops, in_degree, next_wave, current, rounds, result>>

\* A plausible slip: the final test is forgotten.
Outcome_Unchecked == "Ok"

\* Operations never popped lie on or behind a cycle.
Outcome == IF ops # {} THEN "CircuitCyclic" ELSE "Ok"

Return ==
  /\ pc = "online" /\ ~open /\ wave = << >>
  /\ pc' = "done"
  /\ result' = Outcome
  /\ UNCHANGED <<raw_ops, ops, in_degree, queues, current, rounds>>

Next ==
  \/ Reject
  \/ BuildGraph
  \/ \E i \in Indices : DeferInput(i) \/ ScheduleLocal(i) \/ ScheduleNetwork(i)
  \/ CloseRound
  \/ StartOnline
  \/ Return

\* The constructor is sequential code: it takes every step it can take.
Fairness == WF_vars(Next)

Spec == Init /\ [][Next]_vars
FairSpec == Spec /\ Fairness

-----------------------------------------------------------------------------
(* Properties                                                              *)

Errors == {"EmptyCircuit", "CircuitUnsound", "LocalInputOperation",
           "WireProducedManyTimes", "WireConsumedButNotProduced", "CircuitCyclic"}

Round == [local_operations : Seq(Indices), network_operations : Seq(Indices)]

\* Every variable has its type; in_degree, a usize, never underflows.
TypeOK ==
  /\ raw_ops \in Circuits
  /\ pc \in {"new", "offline", "online", "done"}
  /\ ops \subseteq Indices
  /\ in_degree \in [Indices -> Nat]
  /\ wave \in Seq(Indices) /\ next_wave \in Seq(Indices) /\ online_wave \in Seq(Indices)
  /\ open \in BOOLEAN
  /\ local_operations \in Seq(Indices) /\ network_operations \in Seq(Indices)
  /\ offline_rounds \in Seq(Round) /\ online_rounds \in Seq(Round)
  /\ result \in {"none", "Ok"} \cup Errors

Processing == pc \in {"offline", "online"}
Queued == wave \o next_wave \o online_wave

\* The two `unwrap` of process_wave never meet an emptied slot: a queued
\* operation has not been taken and is queued once.
QueueSound ==
  Processing => /\ Range(Queued) \subseteq ops
                /\ Cardinality(Range(Queued)) = Len(Queued)

Unresolved(j) == {s \in Slots(j) : \E i \in ops : s \in Fed(i, j)}

\* in_degree is, throughout the traversal, the number of input slots whose
\* producer has not been taken yet, repeated wires counted once per slot.
InDegreeExact ==
  Processing => \A j \in Indices : in_degree[j] = Cardinality(Unresolved(j))

\* Where an operation stands in the order of execution: do_local_operations
\* runs the local half of a round one by one, do_network_operations then its
\* network half as one batch.
AllRounds == offline_rounds \o online_rounds
LocalPlaces(r) == {[round |-> r, stage |-> 0, at |-> k] :
                   k \in DOMAIN AllRounds[r].local_operations}
NetworkPlaces(r) == {[round |-> r, stage |-> 1, at |-> k] :
                     k \in DOMAIN AllRounds[r].network_operations}
Places == UNION {LocalPlaces(r) \cup NetworkPlaces(r) : r \in DOMAIN AllRounds}
OpAt(p) == IF p.stage = 0 THEN AllRounds[p.round].local_operations[p.at]
                          ELSE AllRounds[p.round].network_operations[p.at]
Precedes(p, q) ==
  \/ p.round < q.round
  \/ p.round = q.round /\ p.stage < q.stage
  \/ p.round = q.round /\ p.stage = 0 /\ q.stage = 0 /\ p.at < q.at

\* A circuit that is accepted runs every operation exactly once, and local
\* operations only in the local half of a round.
ScheduledOnce ==
  result = "Ok" =>
    /\ \A i \in Indices : \E p \in Places : OpAt(p) = i
    /\ \A p, q \in Places : OpAt(p) = OpAt(q) => p = q
    /\ \A p \in Places : p.stage = 0 <=> IsLocal(OpAt(p))

\* The operations that can run before any input is known: the greatest set
\* free of inputs that holds the producers of all its members.
InputFree(S) == \A j \in S : ~IsInput(j) /\ \A i \in Indices : Feeds(i, j) => i \in S
InputIndependent == UNION {S \in SUBSET Indices : InputFree(S)}

\* The offline phase of an accepted circuit runs all of the input-independent
\* operations and nothing else (the closing debug_assert, and its converse).
OfflineIsInputIndependent ==
  result = "Ok" =>
    {OpAt(p) : p \in {q \in Places : q.round <= Len(offline_rounds)}} = InputIndependent

\* In an accepted circuit an operation runs before one of its producers only
\* when the same wave held a network producer of it and, popped later, a local
\* one; no producer ever stands in a later round.
EarlyOnlyIfMixed ==
  result = "Ok" =>
    \A p, q \in Places : Feeds(OpAt(p), OpAt(q)) =>
      /\ p.round <= q.round
      /\ Precedes(p, q) \/ \E l \in Places : /\ Feeds(OpAt(l), OpAt(q))
                                             /\ l.round = q.round /\ l.stage = 0
                                             /\ p.stage = 1

\* README.md:40, "No wire is consumed before it is produced".
NoWireConsumedBeforeProduced ==
  result = "Ok" => \A p, q \in Places : Feeds(OpAt(p), OpAt(q)) => Precedes(p, q)

\* A circuit of single-producer wires is refused as cyclic exactly when some
\* operations all wait for one another.
Core(S) == S # {} /\ \A j \in S : \E i \in S : Feeds(i, j)
CyclicExactly ==
  result \in {"Ok", "CircuitCyclic"} =>
    (result = "CircuitCyclic" <=> \E S \in SUBSET Indices : Core(S))

\* The constructor returns, whatever the operation list.
Terminates == <>(pc = "done")

=============================================================================
