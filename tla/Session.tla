------------------------------- MODULE Session -------------------------------
(***************************************************************************)
(* From a list of operations to the outputs: the circuit that              *)
(* MpcCircuit::new lays out in rounds (Circuit) is the one that the        *)
(* parties' ExecutionContexts run (Execution).  The constructor is         *)
(* deterministic, so that parties with one list have one circuit, and it   *)
(* is built once here for all.                                             *)
(***************************************************************************)
EXTENDS Additive, FiniteSets, Functions, SequencesExt

CONSTANTS
  N,           \* number of parties
  Lists,       \* lists of additive operations that is_circuit_sound accepts
  InputLists, HashLength, Capacity, MaxCrashes  \* as in Execution

Kinds == {"Input", "GenRandom", "Add", "Reveal"}

ASSUME SessionAssumption ==
  /\ N \in Nat \ {0} /\ Capacity \in Nat \ {0} /\ MaxCrashes \in Nat
  /\ \A given \in InputLists : given \in Seq(Range(given))
  /\ \A l \in Lists : /\ l \in Seq(Range(l))
                      /\ \A op \in Range(l) : op.kind \in Kinds /\ op.inputs \in Seq(Range(op.inputs))

VARIABLES
  list,        \* the list given to all parties
  \* the constructor's (Circuit)
  raw_ops, pc, ops, in_degree, wave, next_wave, online_wave, open,
  local_operations, network_operations, offline_rounds, online_rounds, result,
  \* the contexts' and their network's (Execution)
  plan, execution_state, wire_contents, user_inputs, call, step, round, outbox,
  awaiting, inbox, held, channels, in_flight, outcome, status, retries

\* What the constructor sees of an operation.
Shape(op) == [is_input |-> op.kind = "Input", is_local |-> IsOperationLocal(op),
              inputs |-> op.inputs, outputs |-> <<op.output>>]
Shapes(l) == [i \in DOMAIN l |-> Shape(l[i])]

Construction == INSTANCE Circuit WITH
  Wires <- UNION {{op.output} \cup Range(op.inputs) : op \in UNION {Range(l) : l \in Lists}},
  Circuits <- {Shapes(l) : l \in Lists},
  Unsound <- {}

\* The plans are those that are built.
Contexts == INSTANCE Execution WITH Plans <- {}, MaxRetries <- 0

construction == <<raw_ops, pc, ops, in_degree, wave, next_wave, online_wave, open,
                  local_operations, network_operations, offline_rounds, online_rounds, result>>
progress == <<execution_state, wire_contents, user_inputs, call, step, round, outbox,
              awaiting, inbox, held, channels, in_flight, outcome, status, retries>>
contexts == <<plan, progress>>
vars == <<list, construction, contexts>>

Parties == 0 .. N - 1
NoPlan == [offline_rounds |-> << >>, online_rounds |-> << >>]

Init ==
  /\ list \in Lists
  /\ Construction!Init /\ raw_ops = Shapes(list)
  /\ plan = [p \in Parties |-> NoPlan]
  /\ Contexts!InitContexts

Construct == Construction!Next /\ UNCHANGED <<list, contexts>>

\* MpcCircuit::new returned a circuit, and ExecutionContext::new takes it.
Operations(indices) == [k \in DOMAIN indices |-> list[indices[k]]]
Laid(rounds) ==
  [r \in DOMAIN rounds |-> [local_operations |-> Operations(rounds[r].local_operations),
                            network_operations |-> Operations(rounds[r].network_operations)]]
Established == \A p \in Parties : plan[p] # NoPlan
NewContexts ==
  /\ result = "Ok" /\ ~Established
  /\ plan' = [p \in Parties |-> [offline_rounds |-> Laid(offline_rounds),
                                 online_rounds |-> Laid(online_rounds)]]
  /\ UNCHANGED <<list, construction, progress>>

Run(p) == Established /\ Contexts!Work(p) /\ UNCHANGED <<list, construction>>
Prepare(p, given) == Established /\ Contexts!PrepareInput(p, given) /\ UNCHANGED <<list, construction>>
Crash(p) == Established /\ Contexts!Crash(p) /\ UNCHANGED <<list, construction>>

Next ==
  \/ Construct \/ NewContexts
  \/ \E p \in Parties : Run(p) \/ Crash(p) \/ \E given \in InputLists : Prepare(p, given)

Spec == Init /\ [][Next]_vars

\* As in Circuit and in Execution.
Prepared(p) == \E given \in InputLists : Contexts!PrepareVerdict(p, given) = "Ok" /\ Prepare(p, given)
Fairness ==
  /\ WF_vars(Construct) /\ WF_vars(NewContexts)
  /\ \A p \in Parties : WF_vars(Run(p)) /\ WF_vars(Prepared(p))
FairSpec == Spec /\ Fairness

-----------------------------------------------------------------------------
(* Properties                                                              *)

Reads(op, other) == other.output \in Range(op.inputs)

\* An operation that reads a wire made by an exchange and one made locally.
Mixed == \E op, net, loc \in Range(list) : /\ Reads(op, net) /\ ~IsOperationLocal(net)
                                          /\ Reads(op, loc) /\ IsOperationLocal(loc)

\* A circuit that the constructor accepts makes a party panic only if some
\* operation of its list reads both an exchanged and a locally made wire:
\* otherwise every round finds the wires it reads, and makes new ones.
PanicsOnlyIfMixed == (\E p \in Parties : status[p] = "panicked") => Mixed

\* A party that finishes has made every wire of the list it was given, from
\* the shares that the operation of that wire is due.
ListEvaluated ==
  \A p \in Parties : execution_state[p] = "Finished" =>
    /\ DOMAIN wire_contents[p] = {op.output : op \in Range(list)}
    /\ \A op \in Range(list) : wire_contents[p][op.output] = Contexts!Due(p, op)

\* A list is refused or, unless it is mixed or a party crashes, run to its end
\* by all parties.
RefusedOrFinished ==
  ~Mixed => <>(\/ result \notin {"none", "Ok"}
               \/ Contexts!Crashed # {}
               \/ \A p \in Parties : execution_state[p] = "Finished")
=============================================================================
