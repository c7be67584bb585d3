----------------------------- MODULE Execution -----------------------------
(***************************************************************************)
(* N parties, each running an ExecutionContext (src/src/mpc/execution.rs)   *)
(* of the additive scheme over a MeshNetwork                               *)
(* (src/src/networking/secure_mesh/mesh_network.rs).                       *)
(*                                                                         *)
(* A step is what a party does between two awaits, and a batched send or   *)
(* receive takes one step per frame, since try_join_all polls its tasks in *)
(* any order.  A share is known by the wire it is for, its sender and its  *)
(* receiver; a circuit by its rounds.                                      *)
(***************************************************************************)
EXTENDS Additive, FiniteSets, Functions, SequencesExt

CONSTANTS
  N,           \* number of parties
  Plans,       \* the circuits that the parties may be given
  InputLists,  \* the wires for which a user may offer values to prepare_input
  HashLength,  \* what a hash frame yields to a party that reads shares from it
  Capacity,    \* frames that the socket buffers of one direction hold
  MaxCrashes,  \* bound on the parties that crash
  MaxRetries   \* bound on the calls a user makes again after an error

Parties == 0 .. N - 1
Links == {l \in Parties \X Parties : l[1] # l[2]}
Peers(p) == Parties \ {p}

ASSUME ExecutionAssumption ==
  /\ N \in Nat \ {0}
  /\ Capacity \in Nat \ {0}
  /\ MaxCrashes \in Nat /\ MaxRetries \in Nat
  /\ \A given \in InputLists : given \in Seq(Range(given))

VARIABLES
  plan,             \* the circuit of each party
  execution_state,
  wire_contents,    \* the shares each wire was made from, for wires computed
  user_inputs,      \* wires with a prepared input, in the scheme's context
  call,             \* the method whose future is being awaited
  step,             \* where in it
  round,            \* index of the round in the current phase
  outbox,           \* frames of the batch still to be sent, by receiver
  awaiting,         \* peers of the batch whose frame has not come
  inbox,            \* frames of the batch received, by sender
  held,             \* peers whose channel was taken out for the batch
  channels,         \* peers whose stream is open on this party's side
  in_flight,        \* frames sent and not yet read, on each link
  outcome,          \* what the last method call returned
  status,           \* whether the context still exists
  retries

program == <<plan, execution_state, wire_contents, user_inputs>>
batch == <<outbox, awaiting, inbox, held>>
position == <<call, step, round>>
net == <<channels, in_flight>>
vars == <<program, position, batch, net, outcome, status, retries>>

-----------------------------------------------------------------------------
(* Plans and frames.                                                       *)

Rounds(p) == IF call[p] = "do_offline" THEN plan[p].offline_rounds ELSE plan[p].online_rounds
Current(p) == Rounds(p)[round[p]]
LocalOps(p) == Current(p).local_operations
NetworkOps(p) == Current(p).network_operations

RoundsOf(pl) == Range(pl.offline_rounds) \cup Range(pl.online_rounds)
RoundOps(r) == Range(r.local_operations) \cup Range(r.network_operations)
PlanOps(pl) == UNION {RoundOps(r) : r \in RoundsOf(pl)}

RoundsInOrder(pl) == pl.offline_rounds \o pl.online_rounds
OpsInOrder(r) == r.local_operations \o r.network_operations

\* What MpcCircuit::new returns: the operations that the scheme calls local, which
\* have no requests to the network, stand in the local half of a round; no two
\* operations write one wire; and the offline phase asks for no input.
ASSUME PlansAssumption ==
  \A pl \in Plans :
    /\ pl.offline_rounds \in Seq(Range(pl.offline_rounds))
    /\ pl.online_rounds \in Seq(Range(pl.online_rounds))
    /\ \A r \in RoundsOf(pl) :
         /\ r.local_operations \in Seq(Range(r.local_operations))
         /\ r.network_operations \in Seq(Range(r.network_operations))
         /\ \A op \in Range(r.local_operations) : IsOperationLocal(op)
         /\ \A op \in Range(r.network_operations) : ~IsOperationLocal(op)
    /\ LET rounds == RoundsInOrder(pl)
       IN \A j, k \in DOMAIN rounds :
            \A m \in DOMAIN OpsInOrder(rounds[j]), n \in DOMAIN OpsInOrder(rounds[k]) :
              OpsInOrder(rounds[j])[m].output = OpsInOrder(rounds[k])[n].output => j = k /\ m = n
    /\ \A r \in Range(pl.offline_rounds) : \A op \in Range(r.network_operations) : op.kind # "Input"

\* get_input_operation_wire_ids_of_party
InputWires(p) ==
  {op.output : op \in {o \in UNION {Range(r.network_operations) : r \in Range(plan[p].online_rounds)} :
                       IsInputOf(o, p)}}

Share(output, from, to, default) == [output |-> output, from |-> from, to |-> to, default |-> default]
HashFrame(pl) == [kind |-> "hash", plan |-> pl]
DataFrame(shares) == [kind |-> "data", shares |-> shares]

\* Number of objects a frame decodes to: a hash is one, whatever is expected.
Objects(frame) == IF frame.kind = "hash" THEN 1 ELSE Len(frame.shares)

\* Decoding ignores trailing bytes: a hash frame read as shares yields one,
\* the length of the hash.
SharesOf(frame, from, to) ==
  IF frame.kind = "hash" THEN <<Share(HashLength, from, to, FALSE)>> ELSE frame.shares

-----------------------------------------------------------------------------
(* Connections.                                                            *)

Up(p) == status[p] = "up"
Idle(p) == Up(p) /\ call[p] = "none"

\* p closes its streams to the peers in lost.  What it has not read is gone;
\* closing over unread data, or dying, may cut the tail of what is in flight.
Close(p, lost, abrupt) ==
  /\ channels' = [channels EXCEPT ![p] = @ \ lost]
  /\ \E kept \in [lost -> 0..Capacity] :
       /\ \A q \in lost : \/ kept[q] = Len(in_flight[<<p, q>>])
                          \/ /\ kept[q] < Len(in_flight[<<p, q>>])
                             /\ abrupt \/ in_flight[<<q, p>>] # << >>
       /\ in_flight' = [l \in Links |->
                          IF l[1] = p /\ l[2] \in lost THEN SubSeq(in_flight[l], 1, kept[l[2]])
                          ELSE IF l[2] = p /\ l[1] \in lost THEN << >>
                          ELSE in_flight[l]]

ClearBatch(p) ==
  /\ outbox' = [outbox EXCEPT ![p] = << >>]
  /\ awaiting' = [awaiting EXCEPT ![p] = {}]
  /\ inbox' = [inbox EXCEPT ![p] = << >>]
  /\ held' = [held EXCEPT ![p] = {}]

\* The awaited future is over: its method has returned or panicked.
EndCall(p) ==
  /\ call' = [call EXCEPT ![p] = "none"]
  /\ step' = [step EXCEPT ![p] = "idle"]
  /\ UNCHANGED round
  /\ ClearBatch(p)

\* The context goes away, between two calls or in the middle of one.
Leave(p, how) ==
  /\ status' = [status EXCEPT ![p] = how]
  /\ EndCall(p)
  /\ Close(p, channels[p], how = "crashed")
  /\ UNCHANGED <<program, outcome, retries>>

\* A plausible slip: the channels of a failed batch are put back.
NetworkFailure_KeepsChannels(p, dropped) ==
  /\ outcome' = [outcome EXCEPT ![p] = "SchemeError"]
  /\ EndCall(p)
  /\ UNCHANGED <<plan, execution_state, wire_contents, net, status, retries>>

\* An I/O error ends the call, and comes out as a SchemeError.  The channels
\* held by the tasks of the batch are dropped with them.
NetworkFailure(p, dropped) ==
  /\ outcome' = [outcome EXCEPT ![p] = "SchemeError"]
  /\ EndCall(p)
  /\ Close(p, dropped, FALSE)
  /\ UNCHANGED <<plan, execution_state, wire_contents, status, retries>>

\* A batch takes its channels in the order of a hash map until one is missing,
\* which drops those it has.
ExtractionFails(p, wanted) ==
  /\ ~(wanted \subseteq channels[p])
  /\ \E taken \in SUBSET (wanted \cap channels[p]) : NetworkFailure(p, taken)

\* The write of one frame: it waits for room in the buffers, and vanishes when
\* the peer has closed, whose reset may cut what was in flight from it.
Write(p, q, frame) ==
  \/ /\ p \in channels[q]
     /\ Len(in_flight[<<p, q>>]) < Capacity
     /\ in_flight' = [in_flight EXCEPT ![<<p, q>>] = Append(@, frame)]
  \/ /\ p \notin channels[q]
     /\ \E n \in 0..Len(in_flight[<<q, p>>]) :
          in_flight' = [in_flight EXCEPT ![<<q, p>>] = SubSeq(@, 1, n)]

\* Writing to a peer that has closed may also fail.
WriteFails(p, q) == p \notin channels[q]

-----------------------------------------------------------------------------
\* Contexts that ExecutionContext::new has just made, on open connections.
InitContexts ==
  /\ execution_state = [p \in Parties |-> "NewBorn"]
  /\ wire_contents = [p \in Parties |-> << >>]
  /\ user_inputs = [p \in Parties |-> {}]
  /\ call = [p \in Parties |-> "none"]
  /\ step = [p \in Parties |-> "idle"]
  /\ round = [p \in Parties |-> 1]
  /\ outbox = [p \in Parties |-> << >>]
  /\ awaiting = [p \in Parties |-> {}]
  /\ inbox = [p \in Parties |-> << >>]
  /\ held = [p \in Parties |-> {}]
  /\ channels = [p \in Parties |-> Peers(p)]
  /\ in_flight = [l \in Links |-> << >>]
  /\ outcome = [p \in Parties |-> "none"]
  /\ status = [p \in Parties |-> "up"]
  /\ retries = [p \in Parties |-> 0]

Init == plan \in [Parties -> Plans] /\ InitContexts

Failed(p) == outcome[p] \in {"SchemeError", "PlanNotAgreed"}

\* The user awaits one method at a time, in any order; assert_state refuses it
\* with no effect in any other state than the one required.
Enter(p, method, required, first) ==
  /\ Idle(p)
  /\ execution_state[p] = required
  /\ Failed(p) => retries[p] < MaxRetries
  /\ retries' = [retries EXCEPT ![p] = IF Failed(p) THEN @ + 1 ELSE @]
  /\ call' = [call EXCEPT ![p] = method]
  /\ step' = [step EXCEPT ![p] = first]
  /\ outcome' = [outcome EXCEPT ![p] = "none"]

\* A plausible slip: broadcast does not leave the party itself out.
CallHandshake_SelfToo(p) ==
  /\ Enter(p, "handshake", "NewBorn", "broadcast")
  /\ outbox' = [outbox EXCEPT ![p] = [q \in Parties |-> HashFrame(plan[p])]]
  /\ UNCHANGED <<program, round, awaiting, inbox, held, net, status>>

CallHandshake(p) ==
  /\ Enter(p, "handshake", "NewBorn", "broadcast")
  /\ outbox' = [outbox EXCEPT ![p] = [q \in Peers(p) |-> HashFrame(plan[p])]]
  /\ UNCHANGED <<program, round, awaiting, inbox, held, net, status>>

CallOffline(p) ==
  /\ Enter(p, "do_offline", "Handshaked", "round")
  /\ round' = [round EXCEPT ![p] = 1]
  /\ UNCHANGED <<program, batch, net, status>>

CallOnline(p) ==
  /\ Enter(p, "do_online", "ReadyOnline", "round")
  /\ round' = [round EXCEPT ![p] = 1]
  /\ UNCHANGED <<program, batch, net, status>>

\* What prepare_input answers: the first offending entry decides.
Offending(p, given, k) ==
  given[k] \notin InputWires(p) \/ \E j \in 1 .. k - 1 : given[j] = given[k]
PrepareVerdict(p, given) ==
  IF \E k \in DOMAIN given : Offending(p, given, k)
    THEN LET first == CHOOSE k \in DOMAIN given :
                        Offending(p, given, k) /\ \A j \in 1 .. k - 1 : ~Offending(p, given, j)
         IN IF given[first] \in InputWires(p) THEN "DuplicateInput" ELSE "InvalidInputWire"
    ELSE IF Len(given) < Cardinality(InputWires(p)) THEN "NotEnoughInputs"
    ELSE "Ok"

PrepareInput(p, given) ==
  /\ Idle(p)
  /\ execution_state[p] = "FinishedOffline"
  /\ outcome' = [outcome EXCEPT ![p] = PrepareVerdict(p, given)]
  /\ \/ /\ PrepareVerdict(p, given) = "Ok"
        /\ user_inputs' = [user_inputs EXCEPT ![p] = @ \cup Range(given)]
        /\ execution_state' = [execution_state EXCEPT ![p] = "ReadyOnline"]
     \/ /\ PrepareVerdict(p, given) # "Ok"
        /\ UNCHANGED <<user_inputs, execution_state>>
  /\ UNCHANGED <<plan, wire_contents, position, batch, net, status, retries>>

-----------------------------------------------------------------------------
(* handshake.                                                              *)

\* broadcast sends to one peer after another, in index order.
BroadcastFrame(p, q) ==
  /\ Up(p) /\ step[p] = "broadcast"
  /\ q \in DOMAIN outbox[p] /\ \A r \in DOMAIN outbox[p] : q <= r
  /\ \/ /\ q \in channels[p]
        /\ Write(p, q, outbox[p][q])
        /\ outbox' = [outbox EXCEPT ![p] = [r \in DOMAIN @ \ {q} |-> @[r]]]
        /\ UNCHANGED <<program, position, awaiting, inbox, held, channels, outcome, status, retries>>
     \/ /\ q \notin channels[p] \/ WriteFails(p, q)
        /\ NetworkFailure(p, {})
        /\ UNCHANGED user_inputs

\* recv_objects_many takes every channel it is to read from.
Await(p, wanted) ==
  \/ /\ wanted \subseteq channels[p]
     /\ step' = [step EXCEPT ![p] = "recv"]
     /\ awaiting' = [awaiting EXCEPT ![p] = wanted]
     /\ held' = [held EXCEPT ![p] = wanted]
     /\ UNCHANGED <<program, call, round, outbox, inbox, net, outcome, status, retries>>
  \/ /\ ExtractionFails(p, wanted)
     /\ UNCHANGED user_inputs

\* A plausible slip: the hashes are awaited before one's own is sent.
AwaitHashes_Unsent(p) ==
  /\ Up(p) /\ step[p] = "broadcast" /\ DOMAIN outbox[p] = Peers(p)
  /\ Await(p, Peers(p))

AwaitHashes(p) ==
  /\ Up(p) /\ step[p] = "broadcast" /\ DOMAIN outbox[p] = {}
  /\ Await(p, Peers(p))

\* A plausible slip: one equal hash is enough (`all` for `any`).
CompareHashes_AnyEqual(p) ==
  /\ Up(p) /\ call[p] = "handshake" /\ step[p] = "recv" /\ awaiting[p] = {}
  /\ EndCall(p)
  /\ \/ /\ \E q \in Peers(p) : inbox[p][q] = HashFrame(plan[p])
        /\ execution_state' = [execution_state EXCEPT ![p] = "Handshaked"]
        /\ user_inputs' = [user_inputs EXCEPT ![p] = {}]
        /\ outcome' = [outcome EXCEPT ![p] = "Ok"]
     \/ /\ \A q \in Peers(p) : inbox[p][q] # HashFrame(plan[p])
        /\ outcome' = [outcome EXCEPT ![p] = "PlanNotAgreed"]
        /\ UNCHANGED <<execution_state, user_inputs>>
  /\ UNCHANGED <<plan, wire_contents, net, status, retries>>

CompareHashes(p) ==
  /\ Up(p) /\ call[p] = "handshake" /\ step[p] = "recv" /\ awaiting[p] = {}
  /\ EndCall(p)
  /\ \/ /\ \A q \in Peers(p) : inbox[p][q] = HashFrame(plan[p])
        /\ execution_state' = [execution_state EXCEPT ![p] = "Handshaked"]
        /\ user_inputs' = [user_inputs EXCEPT ![p] = {}]
        /\ outcome' = [outcome EXCEPT ![p] = "Ok"]
     \/ /\ \E q \in Peers(p) : inbox[p][q] # HashFrame(plan[p])
        /\ outcome' = [outcome EXCEPT ![p] = "PlanNotAgreed"]
        /\ UNCHANGED <<execution_state, user_inputs>>
  /\ UNCHANGED <<plan, wire_contents, net, status, retries>>

-----------------------------------------------------------------------------
(* do_offline and do_online.                                               *)

\* Wires computed before the k-th local operation of the round runs.
Computed(p, k) == DOMAIN wire_contents[p] \cup {LocalOps(p)[j].output : j \in 1 .. k - 1}
Runnable(op, computed) == Range(op.inputs) \subseteq computed

\* do_local_operations unwraps the inputs and asserts that the output is new.
LocalPanics(p) ==
  \E k \in DOMAIN LocalOps(p) : \/ ~Runnable(LocalOps(p)[k], Computed(p, k))
                                \/ LocalOps(p)[k].output \in Computed(p, k)
AfterLocal(p) ==
  [w \in Computed(p, Len(LocalOps(p)) + 1) |->
     IF w \in DOMAIN wire_contents[p] THEN wire_contents[p][w] ELSE {}]

\* do_network_operations unwraps the inputs of its operations.
NetworkPanics(p) ==
  \E k \in DOMAIN NetworkOps(p) : ~Runnable(NetworkOps(p)[k], DOMAIN AfterLocal(p))

Receivers(p) == IF \E op \in Range(NetworkOps(p)) : Sends(op, p) THEN Peers(p) ELSE {}
\* A plausible slip: nothing is awaited for a Reveal.
Senders_InputsOnly(p) ==
  {q \in Peers(p) : \E op \in Range(NetworkOps(p)) : IsInputOf(op, q)}
Senders(p) == {q \in Peers(p) : \E op \in Range(NetworkOps(p)) : Receives(op, p, q)}

\* The n-th of a set of places in a list.
Nth(places, n) == CHOOSE k \in places : Cardinality({j \in places : j <= k}) = n

\* The shares for one peer, in the order of the operations.  An inputter whose
\* input is gone from the context shares a default.
Batch(p, q) ==
  LET sending == {k \in DOMAIN NetworkOps(p) : Sends(NetworkOps(p)[k], p)}
  IN [n \in 1 .. Cardinality(sending) |->
        LET op == NetworkOps(p)[Nth(sending, n)]
        IN Share(op.output, p, q, IsInputOf(op, p) /\ op.output \notin user_inputs[p])]

\* The local half of a round and the network phase of its other half, up to
\* the first await.
BeginRound(p) ==
  /\ Up(p) /\ step[p] = "round" /\ round[p] <= Len(Rounds(p))
  /\ \/ /\ LocalPanics(p) \/ NetworkPanics(p)
        /\ Leave(p, "panicked")
     \/ /\ ~LocalPanics(p) /\ ~NetworkPanics(p)
        /\ wire_contents' = [wire_contents EXCEPT ![p] = AfterLocal(p)]
        /\ user_inputs' = [user_inputs EXCEPT ![p] = @ \ {op.output : op \in Range(NetworkOps(p))}]
        /\ \/ /\ Receivers(p) \subseteq channels[p]
              /\ step' = [step EXCEPT ![p] = "send"]
              /\ outbox' = [outbox EXCEPT ![p] = [q \in Receivers(p) |-> DataFrame(Batch(p, q))]]
              /\ held' = [held EXCEPT ![p] = Receivers(p)]
              /\ UNCHANGED <<plan, execution_state, call, round, awaiting, inbox, net, outcome,
                             status, retries>>
           \/ /\ ~(Receivers(p) \subseteq channels[p])
              /\ \E taken \in SUBSET (Receivers(p) \cap channels[p]) :
                   /\ outcome' = [outcome EXCEPT ![p] = "SchemeError"]
                   /\ EndCall(p)
                   /\ Close(p, taken, FALSE)
              /\ UNCHANGED <<plan, execution_state, status, retries>>

\* One task of the send batch.
SendFrame(p, q) ==
  /\ Up(p) /\ step[p] = "send" /\ q \in DOMAIN outbox[p]
  /\ \/ /\ Write(p, q, outbox[p][q])
        /\ outbox' = [outbox EXCEPT ![p] = [r \in DOMAIN @ \ {q} |-> @[r]]]
        /\ UNCHANGED <<program, position, awaiting, inbox, held, channels, outcome, status, retries>>
     \/ /\ WriteFails(p, q)
        /\ NetworkFailure(p, held[p])
        /\ UNCHANGED user_inputs

AwaitShares(p) ==
  /\ Up(p) /\ step[p] = "send" /\ DOMAIN outbox[p] = {}
  /\ Await(p, Senders(p))

\* Objects that the requests to one peer add up to.
Expected(p, q) ==
  IF call[p] = "handshake" THEN 1
  ELSE Cardinality({k \in DOMAIN NetworkOps(p) : Receives(NetworkOps(p)[k], p, q)})

\* One task of a receive batch, for the hashes and the shares alike.
ReceiveFrame(p, q) ==
  /\ Up(p) /\ step[p] = "recv" /\ q \in awaiting[p]
  /\ in_flight[<<q, p>>] # << >>
  /\ LET frame == Head(in_flight[<<q, p>>])
     IN \/ /\ Objects(frame) = Expected(p, q)
           /\ in_flight' = [in_flight EXCEPT ![<<q, p>>] = Tail(@)]
           /\ awaiting' = [awaiting EXCEPT ![p] = @ \ {q}]
           /\ inbox' = [inbox EXCEPT ![p] = [r \in DOMAIN @ \cup {q} |-> IF r = q THEN frame ELSE @[r]]]
           /\ UNCHANGED <<program, position, outbox, held, channels, outcome, status, retries>>
        \/ /\ Objects(frame) # Expected(p, q)
           /\ NetworkFailure(p, held[p])
           /\ UNCHANGED user_inputs

\* A plausible slip: the end of a stream is taken for a frame still to come.
ReceiveEnd_Ignored(p, q) == FALSE

\* The end of a stream that the peer has closed.
ReceiveEnd(p, q) ==
  /\ Up(p) /\ step[p] = "recv" /\ q \in awaiting[p]
  /\ in_flight[<<q, p>>] = << >> /\ p \notin channels[q]
  /\ NetworkFailure(p, held[p])
  /\ UNCHANGED user_inputs

\* A plausible slip: the objects of a frame are handed out from the back.
PlaceOf_FromTheBack(p, q, k) ==
  Cardinality({j \in k .. Len(NetworkOps(p)) : Receives(NetworkOps(p)[j], p, q)})

\* The shares handed to the k-th network operation: of each frame, the one at
\* the operation's place among those that read from that sender.
PlaceOf(p, q, k) == Cardinality({j \in 1..k : Receives(NetworkOps(p)[j], p, q)})
Given(p, k) ==
  {SharesOf(inbox[p][q], q, p)[PlaceOf(p, q, k)] :
     q \in {r \in DOMAIN inbox[p] : Receives(NetworkOps(p)[k], p, r)}}

\* A plausible slip: the round is run again.
FinishRound_Again(p) ==
  /\ Up(p) /\ call[p] \in {"do_offline", "do_online"} /\ step[p] = "recv" /\ awaiting[p] = {}
  /\ LET ops == NetworkOps(p)
         outputs == {op.output : op \in Range(ops)}
         writer == [w \in outputs |-> CHOOSE k \in DOMAIN ops : ops[k].output = w]
     IN wire_contents' = [wire_contents EXCEPT ![p] =
                            [w \in DOMAIN @ \cup outputs |->
                               IF w \in outputs THEN Given(p, writer[w]) ELSE @[w]]]
  /\ step' = [step EXCEPT ![p] = "round"]
  /\ ClearBatch(p)
  /\ UNCHANGED <<plan, execution_state, user_inputs, call, round, net, outcome, status, retries>>

\* do_finalize_phase of every operation, then the insertion of the outputs,
\* which assert!(prev.is_none()) takes to be new (see OutputsNew).
FinishRound(p) ==
  /\ Up(p) /\ call[p] \in {"do_offline", "do_online"} /\ step[p] = "recv" /\ awaiting[p] = {}
  /\ LET ops == NetworkOps(p)
         outputs == {op.output : op \in Range(ops)}
         writer == [w \in outputs |-> CHOOSE k \in DOMAIN ops : ops[k].output = w]
     IN wire_contents' = [wire_contents EXCEPT ![p] =
                            [w \in DOMAIN @ \cup outputs |->
                               IF w \in outputs THEN Given(p, writer[w]) ELSE @[w]]]
  /\ step' = [step EXCEPT ![p] = "round"]
  /\ round' = [round EXCEPT ![p] = @ + 1]
  /\ ClearBatch(p)
  /\ UNCHANGED <<plan, execution_state, user_inputs, call, net, outcome, status, retries>>

FinishCall(p) ==
  /\ Up(p) /\ step[p] = "round" /\ round[p] > Len(Rounds(p))
  /\ execution_state' = [execution_state EXCEPT ![p] =
                           IF call[p] = "do_offline" THEN "FinishedOffline" ELSE "Finished"]
  /\ outcome' = [outcome EXCEPT ![p] = "Ok"]
  /\ EndCall(p)
  /\ UNCHANGED <<plan, wire_contents, user_inputs, net, status, retries>>

-----------------------------------------------------------------------------
(* The environment.                                                        *)

Crashed == {p \in Parties : status[p] = "crashed"}

Crash(p) ==
  /\ Up(p)
  /\ Cardinality(Crashed) < MaxCrashes
  /\ Leave(p, "crashed")

\* The user is done with the context, or gives up on it after an error.
Drop(p) ==
  /\ Idle(p)
  /\ Failed(p) \/ execution_state[p] = "Finished"
  /\ Leave(p, "dropped")

Work(p) ==
  \/ CallHandshake(p) \/ CallOffline(p) \/ CallOnline(p)
  \/ AwaitHashes(p) \/ CompareHashes(p)
  \/ BeginRound(p) \/ AwaitShares(p) \/ FinishRound(p) \/ FinishCall(p)
  \/ \E q \in Peers(p) : \/ BroadcastFrame(p, q) \/ SendFrame(p, q)
                         \/ ReceiveFrame(p, q) \/ ReceiveEnd(p, q)
  \/ Drop(p)

Next == \E p \in Parties : \/ Work(p)
                           \/ \E given \in InputLists : PrepareInput(p, given)
                           \/ Crash(p)

\* A user who follows the documented sequence, and a runtime that polls what
\* can make progress.  Giving prepare_input the right wires is up to the user
\* as well, and so is dropping a context that failed.
Prepared(p) == \E given \in InputLists : PrepareVerdict(p, given) = "Ok" /\ PrepareInput(p, given)
Fairness == \A p \in Parties : WF_vars(Work(p)) /\ WF_vars(Prepared(p))

Spec == Init /\ [][Next]_vars
FairSpec == Spec /\ Fairness

-----------------------------------------------------------------------------
(* Properties                                                              *)

Element == [output : {op.output : op \in UNION {PlanOps(pl) : pl \in Plans}} \cup {HashLength},
            from : Parties, to : Parties, default : BOOLEAN]
HashFrames == {HashFrame(pl) : pl \in Plans}
DataFrames == [kind : {"data"}, shares : Seq(Element)]
Frame == HashFrames \cup DataFrames

\* Every variable has its type; no link holds more than the buffers can.
TypeOK ==
  /\ plan \in [Parties -> Plans]
  /\ execution_state \in [Parties -> {"NewBorn", "Handshaked", "FinishedOffline", "ReadyOnline", "Finished"}]
  /\ call \in [Parties -> {"none", "handshake", "do_offline", "do_online"}]
  /\ step \in [Parties -> {"idle", "broadcast", "send", "recv", "round"}]
  /\ round \in [Parties -> Nat]
  /\ \A p \in Parties : /\ awaiting[p] \subseteq held[p] /\ held[p] \subseteq channels[p]
                        /\ channels[p] \subseteq Peers(p)
                        /\ DOMAIN outbox[p] \subseteq Peers(p) /\ Range(outbox[p]) \subseteq Frame
                        /\ DOMAIN inbox[p] \subseteq Peers(p) /\ Range(inbox[p]) \subseteq Frame
                        /\ \A w \in DOMAIN wire_contents[p] : wire_contents[p][w] \subseteq Element
  /\ \A l \in Links : in_flight[l] \in Seq(Frame) /\ Len(in_flight[l]) <= Capacity
  /\ outcome \in [Parties -> {"none", "Ok", "SchemeError", "PlanNotAgreed", "DuplicateInput",
                              "InvalidInputWire", "NotEnoughInputs"}]
  /\ status \in [Parties -> {"up", "dropped", "panicked", "crashed"}]
  /\ retries \in [Parties -> 0..MaxRetries]

\* A party that got past the handshake runs the same circuit as every other
\* party, whatever crashed and however often handshakes were tried again.
PlanAgreement ==
  \A p, q \in Parties : execution_state[p] # "NewBorn" => plan[p] = plan[q]

\* The shares that the operation writing w is due, from the parties that
\* evaluate the same operation.
Due(p, op) == {Share(op.output, q, p, FALSE) : q \in {r \in Peers(p) : Receives(op, p, r)}}

\* Each wire is made from the shares that its own operation is due: rounds
\* never mix, nor the operations of a batch, nor hashes and shares; and a party
\* that finishes has computed every wire of its circuit.
RoutingCorrect ==
  \A p \in Parties :
    /\ \A op \in PlanOps(plan[p]) :
         op.output \in DOMAIN wire_contents[p] => wire_contents[p][op.output] = Due(p, op)
    /\ execution_state[p] = "Finished" =>
         DOMAIN wire_contents[p] = {op.output : op \in PlanOps(plan[p])}

\* A party that finishes has read all that was sent to it and, on the links
\* that nobody has closed, all that will be: its context can be dropped
\* without cutting off the shares others still have to read.
CleanClose ==
  \A p \in Parties : execution_state[p] = "Finished" =>
    \A q \in Peers(p) : in_flight[<<q, p>>] = << >> /\ p \notin DOMAIN outbox[q]

\* The share of an input that was never given, which do_network_phase makes up
\* when the context holds none, does not reach the network.
DefaultShareNeverSent ==
  \A l \in Links : \A f \in Range(in_flight[l]) :
    f.kind = "data" => \A s \in Range(f.shares) : ~s.default

\* Parties with one circuit all finish, unless one of them crashes.
AllFinish ==
  (\A p, q \in Parties : plan[p] = plan[q]) =>
    <>(Crashed # {} \/ \A p \in Parties : execution_state[p] = "Finished")

\* No call is awaited for ever, although the code has no timeout: a peer that
\* dies or gives up is noticed by all who wait for it.
CallsReturn == \A p \in Parties : call[p] # "none" ~> call[p] = "none"

\* The two assertions that outputs are new, assert!(prev.is_none()): they hold of
\* network operations (execution.rs:394) even when a phase is called again after
\* an error, and with circuits whose rounds are in order they fail of local
\* operations (execution.rs:312) only then.
OutputsNew ==
  \A p \in Parties :
    /\ (call[p] \in {"do_offline", "do_online"} /\ step[p] = "recv" /\ awaiting[p] = {}) =>
         \A op \in Range(NetworkOps(p)) : op.output \notin DOMAIN wire_contents[p]
    /\ status[p] = "panicked" => retries[p] > 0

\* The rounds of a circuit as the exchanges of Lockstep, and how many of them,
\* with the handshake, a party has completed.
Exchanges(pl, p) ==
  LET rounds == RoundsInOrder(pl)
  IN [k \in DOMAIN rounds |->
        {q \in Peers(p) : \E op \in Range(rounds[k].network_operations) : Receives(op, p, q)}]
InPhase(p) == IF outcome[p] = "Ok" THEN 0 ELSE round[p] - 1
Progress(p) ==
  CASE execution_state[p] = "NewBorn" -> 0
    [] execution_state[p] = "Handshaked" -> 1 + InPhase(p)
    [] execution_state[p] = "FinishedOffline" -> 1 + Len(plan[p].offline_rounds)
    [] execution_state[p] = "ReadyOnline" -> 1 + Len(plan[p].offline_rounds) + InPhase(p)
    [] execution_state[p] = "Finished" ->
         1 + Len(plan[p].offline_rounds) + Len(plan[p].online_rounds)

Steps == INSTANCE Lockstep WITH
  circuit <- plan, progress <- [p \in Parties |-> Progress(p)], Circuits <- Plans

\* With nothing but hashes and shares to go by, the parties keep in step: each
\* method, await by await and whatever crashes, is a step of Lockstep or none.
ImplementsLockstep == Steps!Spec
=============================================================================
