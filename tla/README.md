# Verification of mpc-core

TLA+ modules that model mpc-core (the crate under `src/`), TLC configurations
that check them on small instances, and theorems that the TLA+ proof system
checks for instances of any size. `PROJECT.json` maps every definition to the
lines of code it stands for.

## The system

mpc-core compiles a list of operations into a *circuit* of rounds, and lets N
parties evaluate it together over a network.

| Component | Code | State | Operations |
|---|---|---|---|
| Circuit construction | `src/src/mpc/circuit.rs` | in-degrees, two waves, the operations not yet taken, the rounds built | `MpcCircuit::new`: validation, offline wave, online wave, test for cycles |
| Soundness of additive circuits | `src/src/example/additive.rs`, `is_circuit_sound` | types of wires, the `changed` flag | passes over the list until nothing changes |
| Execution engine | `src/src/mpc/execution.rs` | `execution_state`, `wire_contents`, the scheme's context | `handshake`, `do_offline`, `prepare_input`, `do_online`, drop |
| Additive scheme | `src/src/example/additive.rs` | prepared inputs | `establish_context`, `prepare_user_input`, the two phases of four operations, in arithmetic modulo M |
| Mesh transport | `src/src/networking/secure_mesh/mesh_network.rs` | a table of channels, from which a batch takes its own | `send`, `recv`, `broadcast`, `send_objects_many`, `recv_objects_many` |
| Mesh setup | the same file, `from_identities` | connections accepted and made | accept loop, connectors that retry |
| Secure stream | `src/src/networking/secure_mesh/secure_stream.rs` | two counters, a cipher, a role | key agreement, framed `send` and `recv` |
| Interfaces | `src/src/mpc/scheme.rs`, `src/src/networking/network.rs` | none | traits, typed wrappers |

`MpcCircuit::new` asks the scheme whether the list is sound and which operations
are local. The engine takes the circuit's rounds in order: it runs the local
operations one by one, asks the scheme for the send and receive requests of all
network operations, sends everything as one frame per peer, receives one frame
per peer, and hands the objects back to the operations by position. Parties
share nothing but the streams between them; within a party there is one task,
which polls the frames of a batch in any order.

What is hard about it:

- **Concurrency**: N parties that are at different points of their calls; frames
  of a batch that go out and come in in any order; parties that set up their
  connections in any order.
- **Failure**: a party may die, panic or give up anywhere. There is no timeout:
  others notice by the end of a stream. A failed batch closes all of its
  channels. A failed call leaves `execution_state` where it was, so that it may
  be called again. A caller may drop any future, in the middle of a frame too.
- **Identification by position**: frames carry no round, kind or operation.
- **Scheduling**: the traversal of the graph is one loop with four queues, in
  which order decides the round of an operation.
- **Fixpoints**: passes that must end.
- **Arithmetic**: sums are taken in machine words before they are reduced.

What makes each component correct:

- *Construction*: it returns; `unwrap` never meets a taken operation; in-degrees
  are exact; every operation is scheduled once, in the half and the phase where
  it belongs, and after its producers; cycles are refused and nothing else is.
- *Soundness*: it answers, with the least fixpoint of the typing rules.
- *Engine*: nobody gets past a handshake unless all have one circuit; wires are
  made of the shares meant for them; parties keep in step with no more than the
  frames they wait for; calls return; with no faults everybody finishes; retries
  do no harm.
- *Scheme*: shares sum to what the circuit has in the clear, and sums fit words.
- *Transport*: objects in order, each once, no more and no fewer than were asked
  for, and none skipped before one that is given, whatever calls fail or are
  dropped; none lost at all unless a receive is dropped in the middle of a frame.
- *Stream*: messages whole and in order, under nonces used once.
- *Setup*: one connection for each pair, and no waiting for each other.

The hazards behind these properties are listed one by one, at their lines, in
`PROJECT.json`.

## Modules

| Module | Models |
|---|---|
| `Circuit` | `MpcCircuit::new`. An operation is its index; `BuildGraph` is the validation and the adjacency lists, and one iteration of the inner loop of `process_wave` is `DeferInput`, `ScheduleLocal` or `ScheduleNetwork`. |
| `Additive` | the operations of the additive scheme: what they read and write, who sends a share to whom |
| `Soundness` | `is_circuit_sound` and the tests of the constructor around it; one step of a pass is `TypeOutput` |
| `Execution` | N parties, each with an `ExecutionContext` over a `MeshNetwork` |
| `Lockstep` | abstract: parties that go through the exchanges of a circuit, each when those it waits for have begun it. `Execution` implements it. |
| `Session` | `Circuit` and `Execution` composed, from the list of operations to the outputs |
| `Evaluation` | abstract: the wires of a circuit of additive operations, evaluated in the clear |
| `Sharing` | the additive scheme with values: N parties, shares modulo M, unsigned words. It implements `Evaluation`. |
| `MeshChannels` | the channel table of one party and all operations of `MeshNetwork` and of the trait `Network` |
| `SecureStream` | the two ends of a stream after the key agreement, byte by byte |
| `MeshSetup` | N parties in `from_identities`, with the key agreement read by read |
| `Circuit_proofs`, `Soundness_proofs`, `Execution_proofs`, `Session_proofs`, `Sharing_proofs`, `SecureStream_proofs`, `MeshSetup_proofs`, `MeshChannels_proofs` | theorems |
| `MC_*` | the circuits, requests and messages that TLC is given |

*Execution.* A step is what a party does between two awaits. `call`, `step`
and `round` say where its future is suspended; `outbox`, `awaiting` and `inbox`
are the tasks of the batch in hand, and `held` the channels they own. A share is
the wire it is for, its sender and its receiver (values play no part in control),
a frame is a hash or a sequence of shares, and `in_flight` holds the frames in
the socket buffers. A frame of any kind decodes into as many objects as it
starts with, since `postcard::from_bytes` ignores trailing bytes: a hash read as
shares is one object. `BeginRound` is all of a round up to its first
await, with its two ways to panic; `FinishRound` is all that follows the last
frame. `NetworkFailure` is the common end of all I/O errors; `Close` says what
becomes of the frames in flight when a side closes its streams, a reset
included. Methods called in a wrong state return an error with no effect and are
left out.

*Lockstep under Execution.* A party's progress is the number of exchanges it has
completed: none as a newborn, the handshake, then the rounds of both phases
(`Progress`). Whom an exchange waits for is read off the operations of its round
(`Exchanges`).

*Session.* It instantiates both modules over one set of variables. `NewContexts`
hands the rounds built, with the operations put in for their indices, to the
contexts of all parties. The constructor is deterministic, so it runs once.

*Sharing.* Each loop over the other parties takes one step per party
(`DealShare`, `AddReceived`), as that is where a sum may overflow: the party then
panics, or the word wraps around, as `OverflowChecks` says. A share that is drawn
is any residue. That shares reach the operation they are meant for is
`RoutingCorrect` of `Execution`; here a share in transit is known by its link and
its wire. The mapping to `Evaluation` gives a wire, once everybody has its share,
the sum of the shares, or the common value of a public wire.

*MeshChannels.* A batch takes its channels out of the table when it is called,
`get_mut(..).take()` one by one in the order of a hash map, and puts them back
only when all tasks have ended well; every other end loses them. A single
operation borrows its channel, and leaves it torn when it is dropped in the
middle of a frame. The bytes that a receive has read by then were in buffers of
its future (secure_stream.rs:67): `Drop` takes that frame out of `inbox`, and from
a torn stream nothing more can be read, since no later receive finds the beginning
of a frame there, or the counter of its nonce. The channel stays in the table all
the same (mesh_network.rs:58). The objects of a peer are numbered, so that an object lost,
repeated or given out of order shows.

*SecureStream.* A byte of a header or a body is known by what it belongs to, and
the cipher is ideal: a body opens under its own header and nonce only. A header
that is pieced together from other bytes says any length.

*MeshSetup.* A connection is a record of how far its two ends are, who has closed
and whether it was reset. The kernel's backlog is there: a connector may be in the
middle of a key agreement that nobody has accepted yet.

## Runs

| Run | Instance | Checks |
|---|---|---|
| `circuit_schedule` | `MpcCircuit::new` on all 19,683 lists of three operations, each an input, a local or a network operation that reads up to two wires (own output, cycles and repetitions included), on all such lists of two, and on 13 shapes outside that family | `TypeOK`, `QueueSound`, `InDegreeExact`, `ScheduledOnce`, `OfflineIsInputIndependent`, `EarlyOnlyIfMixed`, `CyclicExactly`, `Terminates` |
| `circuit_early` | the lists of two and the shapes | **violation** of `NoWireConsumedBeforeProduced` |
| `soundness_types` | all lists of two and three additive operations with one writer per wire, some with two writers of a wire, M = 0 and M > 0 | `LeastFixpoint`, `TypesNeverRevised`, `Answers` |
| `soundness_twice` | wires written with two types | **violation** of `DuplicatesRefused` |
| `retry` | three parties, each with two inputs to open or two random values to open, in frames of two shares; a crash anywhere, two calls made again by each; prepared inputs right and wrong | `TypeOK`, `PlanAgreement`, `RoutingCorrect`, `CleanClose`, `DefaultShareNeverSent`, `OutputsNew` |
| `return` | three parties, each with the sum of two inputs or one random value to open; buffers of one frame; a crash anywhere | `ImplementsLockstep`, `CallsReturn`, `AllFinish` |
| `session` | two parties; all lists of three additive operations that write wires 1 to 3, and three longer ones (both phases and out of order; mixed; mixed and panicking); a crash anywhere | `PanicsOnlyIfMixed`, `ListEvaluated`, `RefusedOrFinished` |
| `sharing` | three parties, M = 3 in words of 6 values with overflow checks: a mask added to an input and opened, the sum of two inputs opened; all choices of shares | `TypeOK`, `NeverPanics`, `RevealsCorrect`, `ImplementsEvaluation` |
| `sharing_mixed` | two parties, the sum of a public and a shared wire opened | **violation** of `RevealsCorrect` |
| `stream` | two rounds of send and receive at both ends, one message too long for the header among those sent, two futures dropped between any two bytes | `TypeOK`, `InOrder`, `FailsOnlyIfTorn`, `NoncesOnce`, `RoundsComplete` |
| `mesh` | three parties, one reset or one restart anywhere | `TypeOK`, `OneConnection`, `AllConnected`, `HangsOnlyOnUnavailable` |
| `channels` | two calls, batched (alternating, uneven and impossible requests), single or broadcast, over two peers that send up to two frames of up to two objects and may leave; futures dropped anywhere | `TypeOK`, `GivenInOrder`, `CountsHonoured`, `SentOnce` |

`soundness_types` checks no type invariant: `LeastFixpoint` types all it needs. Nor
does `session`, where the types are those of `Circuit` and `Execution`.

### What the violations show

- `circuit_early`: when a network and a local operation are in one wave and the
  local one is popped last, a consumer of both lands in the local half of that
  round, before the network half that makes its input. Input w1; Reveal w1 to w3;
  Add w1 w1 to w2; Add w2 w3 to w4 is such a list. The README promises that
  no wire is consumed before it is produced; the engine panics on it (`Early` in
  `MC_Session`). `EarlyOnlyIfMixed` shows that this is the only way it happens,
  and `RefusedOrFinished` that other lists run to their end.
- `soundness_twice`: Input w1; Reveal w1 to w1 keeps `is_circuit_sound` busy for
  ever, and the test that would refuse it comes later.
- `sharing_mixed`: `Add` adds what parties hold. Of a public wire all hold the
  value, so that its sum with a shared wire counts it N times; `is_circuit_sound`
  accepts such a circuit, and a test says that it is sound.

### Behaviours the passing runs are stated around

Other things the code does that a reader may not expect. They have no run of
their own, and the properties say where they end.

- A consumer of a local operation joins its producer's round, so that the
  operations of a round depend on each other, other than circuit.rs:24 documents.
  The engine runs them one by one and in order, and does no harm
  (`PanicsOnlyIfMixed`, `ListEvaluated`).
- An I/O error leaves the context in a state that admits the call again, and the
  second call asserts that wires of the first do not exist (execution.rs:312): it
  panics. This is the exception in `OutputsNew`. Where a round has no local
  operation the retry comes to nothing worse than a second error, because the
  channels of the failed batch are gone.
- I/O errors come out as `SchemeError`; `NetworkError` (execution.rs:48) is never
  constructed.
- For M above 2^63 sums of residues do not fit a `u64`. A build with overflow
  checks panics, and one without wraps around and opens a wrong value. The
  hypothesis 2 * M <= Word of `SharingNeverPanics` is exactly that bound.
- Each party writes its whole batch before it reads. Frames larger than the
  buffers of a connection would stop both ends for good: with `Capacity` = 3
  `RoundsComplete` fails.
- A request for no objects is kept as `None` and read as a request for one
  (mesh_network.rs:114); `channels` asks for one or more.
- A `recv` that is dropped in the middle of a frame loses that frame and, with it,
  all later ones of that peer: calls on the channel, which is still in the table,
  end in errors or wait. `GivenInOrder` says that nothing is given from then on, and
  its last clause, that nothing is missing, leaves such streams out.
- One connection that is reset while it is being accepted ends the accept loop of
  its listener for good, and the other parties above it retry for ever. That is
  the hang that `HangsOnlyOnUnavailable` leaves open.

### Bounds

- *Lists.* Three operations are enough for a chain, a fork and a join, self loops,
  cycles of three, and a join of a network and a local producer; the shapes add
  longer graphs and operations with no or two outputs. In `session` wire 1 is
  the first party's if it is an input and wire 3 the second's, and summands are in
  order: up to renaming the parties this leaves out the lists in which both these
  wires are inputs of one party.
- *Parties.* Three are the least number with a party that is neither the sender
  nor the receiver of a frame, so that two others may see a failure differently,
  and the least with an accept loop that expects two and a party with two
  connectors. `session` has two, for the sake of more lists.
- `Capacity` of `Execution` counts frames. With 1 in `return`, senders have to wait
  for room. `retry` has 2: parties that all send a second hash before reading the
  first would wait for one another where there is room for one.
  `Capacity` of `SecureStream` counts bytes: 4, the largest frame that fits.
- `MaxCrashes` = 1: one death already reaches everybody. `MaxRetries` = 2 bounds
  the calls a user makes again, so that both methods, or one twice, may be.
  `MaxFaults` = 1 reset or restart lets one attempt fail and its retry meet what is
  left of it.
- `M` = 3 and `Word` = 6 = 2 * M, the least word in which no sum overflows; the
  values users give are above M, as `prepare_user_input` reduces them. M is odd, so
  that a share counted twice shows.
- In `SecureStream` a header has two bytes and a tag one, so that a frame can be
  torn inside and after both, and `LenWord` = 4 leaves one length that is cut.
  `MaxCancels` = 2 lets a torn frame and a torn read meet.
- `MaxCalls` = 2 of `MeshChannels`: a call that fails or is dropped, and one after
  it. `MaxFrames` and `MaxObjects` are 2: a frame too few, one too many, and
  empty ones.
- `RoutingCorrect` is checked with retries for frames of two shares. With one
  share per frame it fails once a handshake has been tried again after a crash:
  the second hash is then read as the share of a round. This is listed as a
  hazard.

Deadlock is not checked where a run really stops: constructors return, contexts
are dropped, calls are bounded, parties panic or wait for one that is gone. Each
cfg says which.

### Fairness

`MpcCircuit::new` and `is_circuit_sound` are sequential code: weak fairness of
`Next`. In `Execution` and `Session`, `WF(Work(p))` says that the runtime keeps
polling a party that can make progress, and that its user calls the next method,
or drops a context that has failed; every alternative within `Work(p)` that stays
open is of one batch, and finite. `WF(Prepared(p))` says that the user
gives `prepare_input` the right wires at last. In `SecureStream`, `WF(Progress(p))`
says that a read or write that is possible is made, and that the next round
follows. In `MeshSetup` every party is started, and its accept loop and each of
its connectors, which `join!` polls side by side, go on when they can. Nothing is
assumed of crashes, resets and dropped futures. The code has no timeout, and none
is assumed.

## Proofs

| Theorem | States | For |
|---|---|---|
| `TypeCorrect`, `UnwrapsSucceed`, `DegreesExact` | `TypeOK`, `QueueSound`, `InDegreeExact` of `Circuit` | all lists of operations |
| `CyclicDetection` | `CyclicExactly` | all lists of operations |
| `EachScheduledOnce`, `OfflineExact`, `EarlyOnlyWhenMixed` | `ScheduledOnce`, `OfflineIsInputIndependent`, `EarlyOnlyIfMixed` | all lists of operations |
| `TypesAreStable`, `TypedToFixpoint` | `TypesNeverRevised`, `LeastFixpoint` | all lists of additive operations |
| `HandshakeAgreement`, `TypeCorrect`, `NoShareMadeUp` | `PlanAgreement`, `TypeOK`, `DefaultShareNeverSent` of `Execution` | all N, circuits, buffers, crashes and retries |
| `SharesWellRouted`, `ClosesCleanly`, `KeepsLockstep` | `RoutingCorrect`, `CleanClose`, `ImplementsLockstep` of `Execution` | all N, circuits, buffers and crashes, no call made again (`MaxRetries = 0`) |
| `AssertionsHold` | `OutputsNew` | the same, for circuits in order (`InOrder`) |
| `PartiesInStep` | `InStep` of `Lockstep`, of the engine | the same as `KeepsLockstep`, from it and `LockstepInStep` |
| `LockstepInStep` | `InStep` of `Lockstep` | all parties and circuits, with the exchanges of `Execution` |
| `PanicsAreMixed`, `ListsEvaluated` | `PanicsOnlyIfMixed`, `ListEvaluated` of `Session` | all N, lists of operations, inputs, buffers and crashes |
| `SharingTypes` | `TypeOK` of `Sharing` | all N, M, words, builds, circuits and values |
| `SharingNeverPanics` | `NeverPanics` | the same, with 2 * M <= Word |
| `RevealedValues`, `SharingEvaluates` | `RevealsCorrect`, `ImplementsEvaluation` | all N, M and values, by `Words`, `CircuitsOrdered` and `CircuitsUnmixed` |
| `TypeCorrect`, `DeliveredInOrder`, `NoncesFresh`, `FailuresExplained` | `TypeOK`, `InOrder`, `NoncesOnce`, `FailsOnlyIfTorn` of `SecureStream` | all messages, sizes of headers, tags and buffers, and numbers of dropped futures |
| `TypeCorrect`, `PairwiseConnected` | `TypeOK`, `OneConnection` of `MeshSetup` | all N, resets and restarts |
| `TypeCorrect`, `FramesSentOnce`, `ObjectsGivenInOrder` | `TypeOK`, `SentOnce`, `GivenInOrder` of `MeshChannels` | all peers, requests, frames and numbers of calls |
| `CountsAsAsked` | `CountsHonoured` | the same, for batches that ask for one object or more in each request |

*Circuit.* The properties are not inductive by themselves. `IInv` of
`Circuit_proofs` adds that the three queues hold no operation twice
(`NoRepeats`), that an operation is queued exactly while it is unblocked and not
taken (`QueuedExactly`), that operations are taken only after their producers,
that no member of a set of operations that wait for one another is ever taken
(`CoresStay`), and which queues are empty in which phase. The assumption is
`CircuitsAssumption`: lists are sequences of operations. Cyclic detection follows
since, when all queues are empty, the operations left over each have a slot fed
by one of them.

What is returned is an argument of its own, `RInv` on top of `IInv`. It looks at
the rounds so far with the one in hand at their end (`Layout`): the operations laid
out are those taken, each at one place (`LaidOnce`), a producer is laid out
no later than its consumer unless by the exception of `EarlyOnlyIfMixed`
(`LaidInOrder`), all that an operation of the wave in hand reads is laid out
already (`WaveReady`), and the offline half is free of inputs and misses none of
the rest once it is over (`Halves`). Each step appends one operation at the end of
one half of the last round, so each part is a statement about one new place.

*Soundness.* `TypedByWriter`: a wire that has a type has the one its writer would
give it now. It is inductive since the type an operation gives is monotone in
what is known (`TypeIsMonotone`); it needs one writer per wire. `FixInv` adds that
only wires that must be typed are, and only those that a share reaches as shared
(`TypesFounded`), and that the operations a pass has been at without a change have
nothing more to say (`PassSettled`). So a pass without a change leaves a set closed
under the operations, hence all of the least one. With two writers of a wire its type
may be that of a writer which the least fixpoint passes over (Input w1; Add w1 w3 to
w2; Reveal w1 to w2, where nobody writes w3): then `LeastFixpoint` says only which
wires are typed, and the constructor refuses the list. The assumption is
`SoundnessAssumption`.

*Execution.* `AgreeInv`: every hash in flight, about to be sent or received is
that of its sender; a handshake that has nothing left to await has a frame of
every peer; and the phases run only after a handshake. Closing and resets only
shorten streams (`CloseHonest`, `WriteHonest`). The assumption is
`ExecutionAssumption`, on the bounds.

*Execution, the types and the inputs.* `TypeInv` adds to the type of each variable
where a call stands (`PartyStands`): which step goes with which method and state,
that the round in hand is there, that outboxes, inboxes and halves taken out of
the table are empty outside of a batch, and that whoever was asked for frames has
been heard of or is awaited. Every action changes the variables of one party and
the streams at its ends (`Alone`), in one of nine ways (`PartyMoves`), which is what
the preservation proofs split on. `InputInv` then follows the inputs: while a context
is ready for the online phase and has all its channels, the inputs of the rounds that
are to begin are in it (`InputsKept`), hence a batch takes no input by default,
and nothing in an outbox or a stream was made up (`OutboxClean`, `LinksClean`). A phase
that has taken inputs and fails has lost a channel: what is tried again then panics
or fails before it sends. `PlansAssumption` is needed here: lists of rounds and
operations are sequences, the local halves hold the local operations, no two
operations write one wire, and the offline phase has no inputs, which are results
about `Circuit` (`EachScheduledOnce`, `OfflineExact`).

*Execution, the streams and the wires.* Frames carry no number, so everything rests
on where they stand. `StreamInv` numbers the exchanges of a party, the handshake and
the rounds by their place (`Progress`), and says for each link which frames of which
exchanges are written (`Wrote`), read (`HasRead`) and so unread: nobody reads what is
not written (`NoGap`); the unread frames are in the link in order, up to where the
writer gave up (`Stream`); outboxes and inboxes hold frames of the exchange in hand
(`Batches`); and channels are lost only by calls that fail (`Ends`). A party waits
for exactly those who have a frame for it in that exchange, so the head of the link is
the frame of the exchange in hand (`ReadsRight`). With `AgreeInv` and `InputInv` this is
`RunInv`, from which `CleanClose` follows, and the refinement of `Lockstep` one move
at a time: the last frame read in a handshake, and the end of a round, are its steps,
all else stutters. `WireInv` adds what is computed: while a party runs, exactly the
outputs of the rounds behind it and of the local half in hand (`Filled`), each from the
shares due to it (`Values`).

These theorems are for `MaxRetries = 0`, users that do not call again after an error.
It is no technicality: a handshake that is made again puts a second hash into the
links, exchanges no longer have one frame each, and with frames of one share
`RoutingCorrect` is false, which is the hazard listed. For frames of two shares the
run `retry` checks the properties with retries. `InOrder`, the further hypothesis of
`AssertionsHold`, is what the constructor returns but for the exception of
`EarlyOnlyIfMixed`, on which the engine does panic.

*Lockstep.* `InStep` with the types is inductive: what a party waited for
has completed at least as much, and progress only grows (`OneMore`). It is proved of
`Lockstep` as `Execution` instantiates it, whose exchanges are read off the circuits
(`ExchangesTyped`). No run checks `InStep` by itself: `return` checks that `Execution`
implements the specification it follows from.

*Session.* Here what `Execution` supposes of its circuits is proved of what `Circuit`
returns. `Session_proofs` instantiates `Circuit_proofs` on the lists (`Built`) and
`Execution_proofs` on the set of all circuits that contexts can run (`Proved`, `Plans`),
whose assumptions hold by `BuiltSupposes` and `ContextsSuppose`. Of a list that is
accepted, the plan laid out is one of these (`ThePlanRuns`): no wire is written twice,
since the list was tested for it and every operation stands in one place
(`ThePlanWritesOnce`, by `LaidScheduledOnce`); a half holds the operations that
belong to it and the offline rounds hold no input (`HalvesRight`, by `LaidOfflineExact`). It holds
the operations of the list and no others (`ThePlanHoldsList`), and unless the list is mixed,
each stands after those that feed it (`WrittenBefore`, by `LaidEarlyOnlyIfMixed`), which is the
`InOrder` that `Execution_proofs` asks of a party that shall not panic. `SessionInv` is then
short: the constructor's two invariants, and either contexts that are new and have no
circuit, or the circuit of the list at all parties with `WireInv`. The assumption is
`SessionAssumption`: the bounds are numbers, and lists and the inputs of their operations are
sequences. Users make no failed call again here.

*Sharing.* Shares stay residues since every sum is reduced, which needs only
`SharingAssumption` and, for the operands of an operation to be there,
`CircuitsAssumption`. That a party which adds up shares has those of all peers
whose turn is to come (`SumReady`) is what makes the types inductive: a finalize
phase begins when they are all in, and only their receiver takes them out. No sum
overflows when 2 * M fits the word, as both terms are residues, and the subtraction
cannot go below zero since M is added first.

*Sharing, the values.* `ValueInv` says of each operation by itself (`Right(k)`)
where the shares of its output are, parties at different points included: what a
dealer has sent, kept and still has to send adds up to the value given (`Deals`),
an opening party has the sum of the shares of those it has heard of (`Opens`), and
so on. A step is about one operation of one party and leaves the `Right` of the
others as it was (`Touches`, `SameAt`), which keeps the cases apart. By induction over
the list, the shares of a wire that all hold then sum to its value in the clear,
and a public wire is that value at everyone who holds it. The sums over the
parties and the folds over the list are definitions by recursion; the facts about
them that are needed (taking one party out, swapping, one step of a fold) are
proved in the module by induction on the natural numbers, from the well-founded order
`Smaller`. The hypotheses are

- `Words`: the build checks for overflows, or 2 * M fits the word;
- `CircuitsOrdered`: operations are known, stand after their producers, and no
  wire has two writers. The constructor returns no others: `WireProducedManyTimes`,
  `CyclicDetection` and `EachScheduledOnce` for `Circuit`, and `EarlyOnlyWhenMixed`
  but for its exception, on which the engine panics;
- `CircuitsUnmixed`: there is a set of public wires such that reveals read wires
  outside it and write wires inside, inputs and random values are outside, and no
  sum mixes the two. `is_circuit_sound` gives wires one of two types but refuses
  nothing by them; for mixed sums the theorems are false, which is the violation
  `sharing_mixed`.

*SecureStream.* Two arguments. The last byte of a frame is written or on its way
only when its send is about to return or has returned, and only a body whose last
byte has been read opens (`Written`, `Sending`): so what is delivered has been sent,
whatever was torn before it, and the counters put it in order. That receives do
not fail without a reason needs more: while no future of a direction is dropped, the
bytes read, in the buffer and still to be written are those of whole frames, and
the reader is at a cut between two of them or inside the first
(`InPieces`, `Aligned`). Nonces: the counter of a frame is its place among those sealed
at its end (`Numbered`), and the role tells the two ends apart.

*MeshSetup.* The connections of a pair are numbered as they are made. An initiator
that keeps one keeps the newest and makes no other; a listener takes them in
order (`Ordered`), and when it has kept one, it has touched no newer one unless its
loop is in it or is over. So two that have both returned kept the same one
(`Listening`, `Connecting`, `CallsStand`).

*MeshChannels.* Frames carry the number of the call that wrote them. Those in a
stream are of calls so far and in order, that of the call in hand only where its
task has ended (`InCallOrder`), and a task that has ended in a stream that is
not torn has written what was asked of it (`Delivered`, `Returned`).

Receiving is an argument of its own, `GivenInv`. Of each peer, the objects given
to the caller, those of the frame in hand and those unread stand in this order
(`GivenOrdered`, `HandInOrder`, `FramesInOrder`). None but refused ones is missing of a peer
whose channel is in the table or in the batch that will put it back, and whose
stream is not torn (`NoneMissing`, `Readable`); a single call leaves its channel in the
table, but when it fails it has not finished its one frame (`NoHand`), and when it
is in that frame the stream is torn. Receives read from such channels only
(`Reading`), so that what they give follows on what was given before (`NoGap`), also
where objects are lost for good: those are the last. When a call returns, its requests cut the frame in hand into
consecutive pieces that cover it (`Cuts`), since the running sums of the counts grow
(`SumsGrow`) and end at its length (`Fits`). Those sums are a recursive function;
what is proved of them goes by the least index at which it would fail. `CountsAsAsked`
supposes that no request asks for none (`NonZero`): such a request is read as one
for one object (mesh_network.rs:114), and there `CountsHonoured` is false.

Only model-checked: in `Execution` the routing of shares, clean
closing, the outputs and the refinement of `Lockstep` when calls are made again; and
everything that is liveness or under fairness, which the prover does not reach.

## Not modelled

- Cryptography: key agreement and cipher are ideal, signatures of the parties
  verify, and hashes of different circuits differ.
- Parties with different moduli: M is a type parameter, fixed when a party is
  compiled, and the handshake does not compare it.
- Parties that do not follow the program: identities and ids are those agreed on,
  so that `from_identities` meets no id out of range and no connection from below.
- An address that cannot be bound, and failures of the serialiser.
- Getters, `dump_wires`, `Display`, identities and their serialisation.

## Plan

1. Done: all components with state, the refinements `Execution` of `Lockstep` and
   `Sharing` of `Evaluation`, the composition `Session`.
2. Done: theorems for all safety properties that the runs check.
3. Proofs left: `RoutingCorrect` with retries, for circuits whose frames hold several
   shares.
